---------------------------- MODULE ProviderLink ----------------------------
(***************************************************************************)
(* The live connection to the metering provider, of one runtime: the task  *)
(* that consumes the provider's event stream, the task that polls while    *)
(* the gateway is lost, the first reconcile of the start, and the watchdog *)
(* of the heartbeats.  They share the flags of metering_gateway_state, and *)
(* each of them may run reconcile_all, which gives the provider back the   *)
(* roster of meters that it forgets when it restarts.                      *)
(*                                                                         *)
(* The provider and its gateway are not part of the program: they are      *)
(* modelled as the code uses them.  A coroutine runs from one await to the *)
(* next without interruption, so that is one step here.                    *)
(***************************************************************************)
EXTENDS Integers, Sequences, FiniteSets

CONSTANTS
  Meters,          \* the meters of the database
  MaxBackoff,      \* the longest pause before the stream is opened again
  MaxEvents,       \* bound: events in the stream that are not consumed yet
  MaxLosses,       \* bound: restarts of the provider, streams cut, rosters lost
  MaxGatewayChanges, MaxCrashes   \* bounds

ASSUME LinkAssumption ==
  /\ IsFiniteSet(Meters)
  /\ MaxBackoff \in Nat \ {0} /\ MaxEvents \in Nat \ {0}
  /\ MaxLosses \in Nat /\ MaxGatewayChanges \in Nat /\ MaxCrashes \in Nat

VARIABLES
  up,           \* provider: does it answer
  roster,       \* provider: the meters registered with it
  gateway,      \* provider: is its gateway connected
  open,         \* is the event stream connected to the provider as it runs now
  events,       \* sent and not consumed
  start,        \* the reconcile of ensure_metering_runtime
  sse,          \* where the task that consumes the stream is
  place,        \* whether that task reconciles at the top of its loop or in the stream
  recovery,     \* the task that polls while the gateway is lost, or "none"
  left,         \* per task: the meters its reconcile has still to register
  paused,       \* gateway_paused, and commands_allowed cleared
  needs,        \* needs_full_restart
  hasConnected, \* has_connected_once
  backoff,
  saw, requested, \* saw_registered_meters and restart_requested of the watchdog
  overlooked,   \* history: has a loss happened that the code cannot notice
  losses, changes, crashes

provider == <<up, roster, gateway, open, events>>
flags    == <<paused, needs, hasConnected, backoff>>
dog      == <<saw, requested>>
tasks    == <<start, sse, place, recovery, left>>
env      == <<overlooked, losses, changes, crashes>>
vars     == <<provider, flags, dog, tasks, env>>

Tasks == {"start", "sse", "recovery"}

(* Where ensure_metering_runtime begins: the init of the driver before it  *)
(* may have succeeded, and then is not repeated.                           *)
Starts == IF up THEN {"init", "register"} ELSE {"init"}

FirstLeft(s) == [t \in Tasks |-> IF t = "start" /\ s = "register" THEN Meters ELSE {}]

Init ==
  /\ up = TRUE /\ roster = {} /\ gateway \in BOOLEAN
  /\ open = FALSE /\ events = <<>>
  /\ start \in Starts /\ left = FirstLeft(start)
  /\ sse = "top" /\ place = "top" /\ recovery = "none"
  /\ paused = FALSE /\ needs = FALSE /\ hasConnected = FALSE /\ backoff = 1
  /\ saw = FALSE /\ requested = FALSE
  /\ overlooked = FALSE /\ losses = 0 /\ changes = 0 /\ crashes = 0

-----------------------------------------------------------------------------
(* The provider.                                                           *)

Send(e) == events' = IF open THEN Append(events, e) ELSE events

HasRoom == Len(events) < MaxEvents

Reconciling(task) == task \in {"init", "register"}

(* Will the program notice that the provider has lost its roster?  When a  *)
(* stream breaks from which an event has come, or a restart is pending;    *)
(* when it only hears of it in a heartbeat, if the watchdog has seen       *)
(* meters since it asked for the last restart.  It is not when the roster  *)
(* is lost under a reconcile whose task is not the one with the stream.    *)
Noticed(byHeartbeat) ==
  /\ start = "done" /\ ~Reconciling(recovery)
  /\ IF byHeartbeat
     THEN saw /\ ~requested /\ ~Reconciling(sse)
     ELSE hasConnected /\ (open \/ (needs /\ ~Reconciling(sse)))

Loss ==
  /\ losses < MaxLosses /\ losses' = losses + 1
  /\ roster' = {}
  /\ UNCHANGED <<gateway, flags, dog, tasks, changes, crashes>>

(* The provider goes down, and its end of the stream with it.              *)
ProviderStops ==
  /\ up /\ Loss
  /\ up' = FALSE /\ open' = FALSE
  /\ overlooked' = (overlooked \/ ~Noticed(FALSE))
  /\ UNCHANGED events

ProviderStarts ==
  /\ ~up /\ up' = TRUE
  /\ UNCHANGED <<roster, gateway, open, events, flags, dog, tasks, env>>

(* The provider loses its roster and keeps the stream.                     *)
RosterLost ==
  /\ up /\ open /\ Loss
  /\ overlooked' = (overlooked \/ ~Noticed(TRUE))
  /\ UNCHANGED <<up, open, events>>

(* The stream is cut while the provider goes on.                           *)
StreamCut ==
  /\ open /\ open' = FALSE
  /\ losses < MaxLosses /\ losses' = losses + 1
  /\ UNCHANGED <<up, roster, gateway, events, flags, dog, tasks,
                 overlooked, changes, crashes>>

GatewayChanges ==
  /\ up /\ changes < MaxGatewayChanges /\ HasRoom
  /\ changes' = changes + 1
  /\ gateway' = ~gateway
  /\ Send(IF gateway THEN "disconnected" ELSE "connected")
  /\ UNCHANGED <<up, roster, open, flags, dog, tasks, overlooked, losses, crashes>>

(* heartbeat_statistics, with total_registered_nodes zero or not.          *)
Heartbeat ==
  /\ up /\ open /\ HasRoom
  /\ Send(IF roster = {} THEN "empty" ELSE "registered")
  /\ UNCHANGED <<up, roster, gateway, open, flags, dog, tasks, env>>

-----------------------------------------------------------------------------
(* reconcile_all: init_driver, whose failure is the caller's, and the      *)
(* meters one by one, whose failures are only logged.                      *)

RegisterNext(t) ==
  \E m \in left[t] :
    /\ left' = [left EXCEPT ![t] = @ \ {m}]
    /\ roster' = IF up THEN roster \cup {m} ELSE roster

LoadMeters(t) == left' = [left EXCEPT ![t] = Meters]

(* The first reconcile.  When it fails the start is given up: the process  *)
(* ends, and is started again as after a crash.                            *)
StartInit ==
  /\ start = "init" /\ up
  /\ start' = "register" /\ LoadMeters("start")
  /\ UNCHANGED <<provider, flags, dog, sse, place, recovery, env>>

StartRegister ==
  /\ start = "register" /\ RegisterNext("start")
  /\ UNCHANGED <<up, gateway, open, events, flags, dog, start, sse, place, recovery, env>>

StartEnds ==
  /\ start = "register" /\ left["start"] = {}
  /\ start' = "done"
  /\ UNCHANGED <<provider, flags, dog, sse, place, recovery, left, env>>

(* The process starts anew; the provider goes on.                          *)
Restarted ==
  /\ start' \in Starts /\ left' = FirstLeft(start')
  /\ sse' = "top" /\ place' = "top" /\ recovery' = "none"
  /\ paused' = FALSE /\ needs' = FALSE /\ hasConnected' = FALSE /\ backoff' = 1
  /\ saw' = FALSE /\ requested' = FALSE
  /\ open' = FALSE /\ events' = <<>>
  /\ UNCHANGED <<up, roster, gateway, overlooked, losses, changes>>

StartFails ==
  /\ start = "init" /\ ~up /\ Restarted
  /\ UNCHANGED crashes

Crash ==
  /\ crashes < MaxCrashes /\ crashes' = crashes + 1
  /\ Restarted

-----------------------------------------------------------------------------
(* _run_sse_consumer                                                       *)

Smaller(x, y) == IF x < y THEN x ELSE y

(* A faulty MayRestart: a pause for the gateway does not defer it.         *)
MayRestartPaused(n, p) == n

(* _run_pending_provider_restart goes on to reconcile.                     *)
MayRestart(n, p) == n /\ ~p

Top ==
  /\ sse = "top"
  /\ IF MayRestart(needs, paused)
     THEN sse' = "init" /\ place' = "top"
     ELSE sse' = "connect" /\ UNCHANGED place
  /\ UNCHANGED <<provider, flags, dog, start, recovery, left, env>>

Connect ==
  /\ sse = "connect" /\ up
  /\ sse' = "read"
  /\ open' = TRUE /\ events' = <<>>
  /\ UNCHANGED <<up, roster, gateway, flags, dog, start, place, recovery, left, env>>

(* A faulty Broken: the stream is opened again and that is all.            *)
BrokenReconnects ==
  /\ sse' = "sleep"
  /\ open' = FALSE /\ events' = <<>>
  /\ UNCHANGED <<up, roster, gateway, paused, needs, hasConnected, backoff>>

(* The stream ended or raised an exception: the provider counts as         *)
(* restarted, if it ever sent an event.                                    *)
Broken ==
  /\ sse' = "sleep"
  /\ needs' = (needs \/ hasConnected)
  /\ open' = FALSE /\ events' = <<>>
  /\ UNCHANGED <<up, roster, gateway, paused, hasConnected, backoff>>

StreamBreaks ==
  /\ \/ sse = "connect" /\ ~up
     \/ sse = "read" /\ ~open /\ events = <<>>
  /\ Broken
  /\ UNCHANGED <<dog, start, place, recovery, left, env>>

NextBackoff(b) == Smaller(2 * b, MaxBackoff)

Wake ==
  /\ sse = "sleep" /\ sse' = "top"
  /\ backoff' = NextBackoff(backoff)
  /\ UNCHANGED <<provider, paused, needs, hasConnected, dog, start, place,
                 recovery, left, env>>

(* The part of every event: the connection counts, and after the event has *)
(* been handled a pending restart is run.                                  *)
Consume(e) ==
  /\ sse = "read" /\ events # <<>> /\ Head(events) = e
  /\ events' = Tail(events)
  /\ hasConnected' = TRUE /\ backoff' = 1
  /\ UNCHANGED <<up, roster, gateway, open, start, left, env>>

ThenRestart ==
  IF MayRestart(needs', paused')
  THEN sse' = "init" /\ place' = "stream"
  ELSE sse' = "read" /\ UNCHANGED place

(* A faulty GatewayLost: the events of the stream are trusted to tell when *)
(* the gateway is back.                                                    *)
GatewayLostNoPoll ==
  /\ Consume("disconnected")
  /\ paused' = TRUE
  /\ UNCHANGED <<needs, dog, recovery>>
  /\ ThenRestart

(* The gateway is lost: pause, and poll until it is back.                  *)
GatewayLost ==
  /\ Consume("disconnected")
  /\ paused' = TRUE
  /\ recovery' = IF ~paused /\ recovery = "none" THEN "poll" ELSE recovery
  /\ UNCHANGED <<needs, dog>>
  /\ ThenRestart

(* It is back while the other task polls: cancel that and wait for its end.*)
GatewayBack ==
  /\ Consume("connected")
  /\ UNCHANGED <<paused, needs, dog>>
  /\ IF paused
     THEN /\ sse' = "joining" /\ recovery' = IF recovery = "none" THEN "none" ELSE "cancelled"
          /\ UNCHANGED place
     ELSE ThenRestart /\ UNCHANGED recovery

Joined ==
  /\ sse = "joining" /\ recovery = "none"
  /\ paused' = FALSE /\ needs' = TRUE
  /\ UNCHANGED <<provider, hasConnected, backoff, dog, start, recovery, left, env>>
  /\ ThenRestart

(* The watchdog.                                                           *)
MetersRegistered ==
  /\ Consume("registered")
  /\ saw' = TRUE /\ requested' = FALSE
  /\ UNCHANGED <<paused, needs, recovery>>
  /\ ThenRestart

RosterEmpty ==
  /\ Consume("empty")
  /\ needs' = (needs \/ (saw /\ ~requested))
  /\ requested' = (requested \/ saw)
  /\ UNCHANGED <<saw, paused, recovery>>
  /\ ThenRestart

SseInit ==
  /\ sse = "init" /\ up
  /\ sse' = "register" /\ LoadMeters("sse")
  /\ UNCHANGED <<provider, flags, dog, start, place, recovery, env>>

(* In the stream the failure breaks the stream; at the top of the loop     *)
(* nothing catches it, and the task ends.                                  *)
SseInitFails ==
  /\ sse = "init" /\ ~up
  /\ \/ place = "stream" /\ Broken
     \/ place = "top" /\ sse' = "dead" /\ UNCHANGED <<provider, flags>>
  /\ UNCHANGED <<dog, start, place, recovery, left, env>>

SseRegister ==
  /\ sse = "register" /\ RegisterNext("sse")
  /\ UNCHANGED <<up, gateway, open, events, flags, dog, start, sse, place, recovery, env>>

SseEnds ==
  /\ sse = "register" /\ left["sse"] = {}
  /\ needs' = FALSE
  /\ sse' = IF place = "top" THEN "connect" ELSE "read"
  /\ UNCHANGED <<provider, paused, hasConnected, backoff, dog, start, place,
                 recovery, left, env>>

-----------------------------------------------------------------------------
(* _recover_provider_after_gateway_loss                                    *)

(* _wait_for_gateway_online                                                *)
Online == up /\ gateway

Poll ==
  /\ recovery = "poll" /\ Online
  /\ recovery' = "init"
  /\ UNCHANGED <<provider, flags, dog, start, sse, place, left, env>>

RecoveryInit ==
  /\ recovery = "init"
  /\ IF up THEN recovery' = "register" /\ LoadMeters("recovery")
           ELSE recovery' = "poll" /\ UNCHANGED left
  /\ UNCHANGED <<provider, flags, dog, start, sse, place, env>>

RecoveryRegister ==
  /\ recovery = "register" /\ RegisterNext("recovery")
  /\ UNCHANGED <<up, gateway, open, events, flags, dog, start, sse, place, recovery, env>>

(* A faulty Resume: the pause outlives the task that would end it.         *)
ResumePaused ==
  /\ recovery = "register" /\ left["recovery"] = {}
  /\ recovery' = "none" /\ needs' = FALSE
  /\ UNCHANGED <<provider, paused, hasConnected, backoff, dog, start, sse, place,
                 left, env>>

Resume ==
  /\ recovery = "register" /\ left["recovery"] = {}
  /\ recovery' = "none"
  /\ paused' = FALSE /\ needs' = FALSE
  /\ UNCHANGED <<provider, hasConnected, backoff, dog, start, sse, place, left, env>>

Cancelled ==
  /\ recovery = "cancelled" /\ recovery' = "none"
  /\ left' = [left EXCEPT !["recovery"] = {}]
  /\ UNCHANGED <<provider, flags, dog, start, sse, place, env>>

-----------------------------------------------------------------------------
Provider == ProviderStops \/ ProviderStarts \/ RosterLost \/ StreamCut \/ GatewayChanges

Start == StartInit \/ StartRegister \/ StartEnds \/ StartFails

Sse ==
  \/ Top \/ Connect \/ StreamBreaks \/ Wake
  \/ GatewayLost \/ GatewayBack \/ Joined \/ MetersRegistered \/ RosterEmpty
  \/ SseInit \/ SseInitFails \/ SseRegister \/ SseEnds

Recovery == Poll \/ RecoveryInit \/ RecoveryRegister \/ Resume \/ Cancelled

Next == Provider \/ Heartbeat \/ Start \/ Sse \/ Recovery \/ Crash

Spec == Init /\ [][Next]_vars

(* The event loop runs every task that can run, every request has a        *)
(* timeout, and the provider reports each heartbeat.  Nothing is assumed   *)
(* of when the provider and its gateway come back.                         *)
Fairness ==
  /\ WF_vars(Start) /\ WF_vars(Sse) /\ WF_vars(Recovery)
  /\ WF_vars(Heartbeat)

FairSpec == Spec /\ Fairness

-----------------------------------------------------------------------------
(* Properties.                                                             *)

(* Every variable has its type, and the backoff is limited.                *)
TypeOK ==
  /\ up \in BOOLEAN /\ gateway \in BOOLEAN /\ open \in BOOLEAN
  /\ roster \subseteq Meters
  /\ events \in Seq({"connected", "disconnected", "registered", "empty"})
  /\ start \in {"init", "register", "done"}
  /\ sse \in {"top", "connect", "read", "joining", "init", "register", "sleep", "dead"}
  /\ place \in {"top", "stream"}
  /\ recovery \in {"none", "poll", "init", "register", "cancelled"}
  /\ left \in [Tasks -> SUBSET Meters]
  /\ paused \in BOOLEAN /\ needs \in BOOLEAN /\ hasConnected \in BOOLEAN
  /\ backoff \in 1..MaxBackoff
  /\ saw \in BOOLEAN /\ requested \in BOOLEAN /\ overlooked \in BOOLEAN
  /\ losses \in 0..MaxLosses /\ changes \in 0..MaxGatewayChanges
  /\ crashes \in 0..MaxCrashes

(* While commands are paused there is somebody to let them go on: the task *)
(* that polls, or the consumer that has cancelled it and waits for its end.*)
PauseWatched == paused => (recovery \notin {"none", "cancelled"} \/ sse = "joining")

(* The consumer and the task that polls are never both at a reconcile      *)
(* ("provider is paused for gateway recovery; deferring restart            *)
(* reconcile").                                                            *)
OneReconciler == ~(Reconciling(sse) /\ Reconciling(recovery))

(* The consumer reconnects on disconnect, so it never ends                 *)
(* (_run_sse_consumer, "Reconnects with exponential backoff on             *)
(* disconnect").                                                           *)
ConsumerLives == sse # "dead"

(* When the provider and its gateway stay up, commands flow again, whatever*)
(* events were lost, late or out of date.                                  *)
PauseEnds == <>[]Online => <>[]~paused

(* When the provider and its gateway stay up, it has every meter again,    *)
(* though it restarted, lost its roster or was cut off, if the loss was    *)
(* one the code can notice and its consumer has survived it.               *)
RosterRestored ==
  <>[]Online => <>[](roster = Meters \/ overlooked \/ sse = "dead")
=============================================================================
