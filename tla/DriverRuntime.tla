--------------------------- MODULE DriverRuntime ----------------------------
(***************************************************************************)
(* Which runtime of the metering is live, as the settings of the providers *)
(* change.  A runtime is a client of a provider, a task that dispatches    *)
(* commands and one that consumes events; the state of the web application *)
(* holds the current one.  The page of the config file activates it:       *)
(* ensure_metering_runtime keeps the runtime of the enabled provider and   *)
(* replaces any other.  Activations are coroutines of one event loop, so   *)
(* they interleave where they await; requests run in threads beside them.  *)
(* What happens on the link of one runtime is the subject of ProviderLink. *)
(***************************************************************************)
EXTENDS ProviderSettings

CONSTANTS
  Activations,   \* bound: how many can be under way at once
  MaxRuntimes    \* bound: runtimes not yet gone

ASSUME RuntimeAssumption == MaxRuntimes \in Nat \ {0} /\ None \notin 1..MaxRuntimes

VARIABLES
  serving,      \* has the application started
  running,      \* the runtime in the state of the application
  registered,   \* the one whose queue takes the commands
  runtimes,     \* what the runtimes were built for, and whether they live
  ensures,      \* the activations under way
  asked,        \* history: the provider that an activation last found enabled
  slips         \* history: why the runtime may not be as asked

runtimeVars == <<serving, running, registered, runtimes, ensures, asked, slips>>
vars == <<settingsVars, runtimeVars>>

Runtimes == 1..MaxRuntimes

(* A faulty signature, for the mutant: the interface is forgotten.         *)
SignatureShort(p) ==
  IF p = None THEN None ELSE <<p.id, p.driver, p.enabled>>

(* What of a provider a runtime depends on.                                *)
Signature(p) ==
  IF p = None THEN None ELSE <<p.id, p.driver, p.interface, p.enabled>>

Gone == [for |-> None, sig |-> None, tasks |-> FALSE, open |-> FALSE]

Ended == [at |-> "idle"]

Quiet == \A a \in Activations : ensures[a] = Ended

Down ==
  /\ serving = FALSE /\ running = None /\ registered = None
  /\ runtimes = [r \in Runtimes |-> Gone]
  /\ ensures = [a \in Activations |-> Ended]
  /\ asked = None /\ slips = {}

Init == SettingsInit /\ Down

-----------------------------------------------------------------------------
(* The parts of an activation between its awaits.                          *)

Step(a, e) == ensures' = [ensures EXCEPT ![a] = e]

ShuttingDown(a) == ensures[a].at \in {"cancelled", "closed"}

(* A number for a new runtime, that of none that anything refers to.       *)
Free ==
  {r \in Runtimes : /\ r \notin {running, registered} /\ ~runtimes[r].tasks
                    /\ \A a \in Activations : ShuttingDown(a) => ensures[a].of # r}

NextRuntime == CHOOSE r \in Free : \A s \in Free : r <= s

(* From the signature to the publication of the new runtime nothing is     *)
(* awaited; the provider is read anew, and with it the target.  The state  *)
(* held no runtime, or one that was shut down and is dropped.              *)
Build(a, sig, known) ==
  LET p == Enabled(saved)
      live == {r \in Runtimes : runtimes[r].tasks}
      left == [r \in Runtimes |-> IF r \in live THEN runtimes[r] ELSE Gone]
      earlier == known \ {"failed", "mixed"}
  IN  /\ asked' = p
      /\ \E seen \in (IF p # None /\ p.interface = "grpc" THEN BOOLEAN ELSE {TRUE}) :
           IF p = None \/ TargetInUse(p.interface, p.target, contract[p.driver], seen) = None
           THEN /\ Step(a, Ended) /\ running' = None
                /\ slips' = earlier \cup (IF p = None THEN {} ELSE {"untargeted"})
                /\ runtimes' = left /\ UNCHANGED registered
           ELSE /\ Free # {}
                /\ running' = NextRuntime /\ registered' = NextRuntime
                /\ runtimes' = [left EXCEPT ![NextRuntime] =
                     [for |-> p, sig |-> sig, tasks |-> TRUE, open |-> TRUE]]
                /\ slips' = earlier \cup (IF sig = Signature(p) THEN {} ELSE {"mixed"})
                /\ Step(a, [at |-> "reconcile", first |-> TRUE])

(* A faulty shutdown, for the mutant: the consumer of events goes on.      *)
CancelDispatcher(a, sig, builds) ==
  /\ registered' = None
  /\ Step(a, [at |-> "cancelled", of |-> running, sig |-> sig, builds |-> builds])
  /\ UNCHANGED <<running, runtimes, slips>>

(* The first part of shutdown_metering_runtime: no commands are taken any  *)
(* more and the tasks are cancelled, then awaited.                         *)
Cancel(a, sig, builds) ==
  /\ registered' = None
  /\ runtimes' = IF running = None THEN runtimes
                 ELSE [runtimes EXCEPT ![running].tasks = FALSE]
  /\ Step(a, [at |-> "cancelled", of |-> running, sig |-> sig, builds |-> builds])
  /\ UNCHANGED <<running, slips>>

(* The beginning of ensure_metering_runtime.                               *)
Begin(a) ==
  LET sig == Signature(Enabled(saved))
  IN  /\ ensures[a].at = "called"
      /\ UNCHANGED <<serving, settingsVars>>
      /\ IF running = None THEN Build(a, sig, slips)
         ELSE /\ asked' = Enabled(saved)
              /\ IF sig # None /\ runtimes[running].sig = sig
                 THEN /\ Step(a, [at |-> "reconcile", first |-> FALSE])
                      /\ UNCHANGED <<running, registered, runtimes, slips>>
                 ELSE Cancel(a, sig, TRUE)

(* The tasks have ended: whatever clients the state holds now are closed.  *)
Close(a) ==
  /\ ensures[a].at = "cancelled"
  /\ runtimes' = IF running = None THEN runtimes
                 ELSE [runtimes EXCEPT ![running].open = FALSE]
  /\ Step(a, [ensures[a] EXCEPT !.at = "closed"])
  /\ UNCHANGED <<serving, running, registered, asked, slips, settingsVars>>

(* The state is cleared, whatever it holds by now, and the new runtime is  *)
(* built, but for an activation that has failed.                           *)
Clear(a) ==
  LET e == ensures[a]
      known == slips \cup (IF running \in {None, e.of} THEN {} ELSE {"overtaken"})
  IN  /\ e.at = "closed"
      /\ IF e.builds THEN Build(a, e.sig, known)
         ELSE /\ running' = None /\ slips' = known \cup {"failed"} /\ Step(a, Ended)
              /\ UNCHANGED <<registered, runtimes, asked>>
      /\ UNCHANGED <<serving, settingsVars>>

(* The meters have been reconciled; failures of single meters are logged.  *)
Reconciled(a) ==
  /\ ensures[a].at = "reconcile" /\ Step(a, Ended)
  /\ UNCHANGED <<serving, running, registered, runtimes, asked, slips, settingsVars>>

(* The meters could not be loaded: a runtime just built is shut down.      *)
ReconcileFails(a) ==
  /\ ensures[a].at = "reconcile" /\ Trouble
  /\ IF ensures[a].first
     THEN /\ registered' = None
          /\ runtimes' = IF running = None THEN runtimes
                         ELSE [runtimes EXCEPT ![running].tasks = FALSE]
          /\ slips' = slips \cup {"failed"}
          /\ Step(a, [at |-> "cancelled", of |-> running, sig |-> None, builds |-> FALSE])
     ELSE Step(a, Ended) /\ UNCHANGED <<registered, runtimes, slips>>
  /\ UNCHANGED <<serving, running, asked, settings, drivers, gap>>

-----------------------------------------------------------------------------
(* The page of the config file ends: after a successful init it activates  *)
(* the runtime, and waits for it for a while, which has no effect.         *)
Finish(t) ==
  /\ WrittenBack(t)
  /\ IF requests[t].ok
     THEN \E a \in Activations : ensures[a] = Ended /\ Step(a, [at |-> "called"])
     ELSE UNCHANGED ensures
  /\ UNCHANGED <<serving, running, registered, runtimes, asked, slips>>

(* A pass over the saved providers, enabled or not, each initialised with  *)
(* its file; those of the drivers in bad do not answer.                    *)
Initialised(bad) ==
  {p \in ToSet(saved) : /\ p.driver \notin bad /\ Initialisable(files[p.id])
                        /\ Accepted(p.interface, Body(files[p.id]))}

LastOn(d, ps) == CHOOSE i \in DOMAIN saved :
  /\ saved[i] \in ps /\ saved[i].driver = d
  /\ \A j \in DOMAIN saved : saved[j] \in ps /\ saved[j].driver = d => j <= i

(* What a pass that initialised the providers ps, on each driver last(d)   *)
(* at the end, does to the drivers, and to the reasons.                    *)
Told(ps, last(_)) ==
  [d \in Drivers |-> IF \E q \in ps : q.driver = d
                     THEN Sent(last(d).interface, Body(files[last(d).id])) ELSE configured[d]]

AfterPass(ps, last(_)) ==
  [x \in Ids |->
     IF \E q \in ps : q.id = x
     THEN (gap[x] \ {"unsettled"})
            \cup (IF \E q \in ps : q.id = x /\ last(q.driver) # q THEN {"unsettled"} ELSE {})
     ELSE IF \E q \in ToSet(saved) : q.id = x /\ \E o \in ps : o.driver = q.driver
          THEN gap[x] \cup {"unsettled"} ELSE gap[x]]

(* The start: that pass, then the runtime of the enabled provider, whose   *)
(* driver is initialised again if the pass failed to; then requests are    *)
(* served.                                                                 *)
Start ==
  /\ ~serving /\ serving' = TRUE
  /\ \E bad \in SUBSET Drivers :
       LET p == Enabled(saved)
           ps == Initialised(bad) \cup (Initialised({}) \cap {p})
           last(d) == IF p \in ps /\ p \notin Initialised(bad) /\ p.driver = d
                      THEN p ELSE saved[LastOn(d, ps)]
       IN  /\ IF bad = {} THEN Uncounted ELSE Trouble
           /\ configured' = Told(ps, last) /\ gap' = AfterPass(ps, last)
  /\ \E a \in Activations : Build(a, Signature(Enabled(saved)), slips)
  /\ UNCHANGED <<settings, contract>>

(* A start that fails ends the process, and is tried again: also in the    *)
(* middle of the pass, when the outcome of the init of provider i, whether *)
(* it answered or not, is written to its file.                             *)
StartStops(i) ==
  /\ ~serving /\ Trouble
  /\ i \in DOMAIN saved /\ Initialisable(files[saved[i].id])
  /\ files' = [files EXCEPT ![saved[i].id] = Unreadable]
  /\ \E bad \in SUBSET Drivers :
       LET ps == {saved[j] : j \in {k \in DOMAIN saved : k <= i}} \cap Initialised(bad)
           last(d) == saved[LastOn(d, ps)]
       IN  /\ configured' = Told(ps, last)
           /\ gap' = [AfterPass(ps, last) EXCEPT ![saved[i].id] = @ \cup {"stale"}]
  /\ UNCHANGED <<saved, issued, requests, intended, contract, runtimeVars>>

(* The consumer of events sees that the driver has restarted, and the      *)
(* reconcile initialises it with the file of the provider enabled now.     *)
Restarted ==
  LET p == Enabled(saved)
      d == runtimes[running].for.driver
      body == Body(files[p.id])
  IN  /\ running # None /\ runtimes[running].tasks
      /\ Initialisable(files[p.id]) /\ Accepted(runtimes[running].for.interface, body)
      /\ Trouble
      /\ configured' = [configured EXCEPT ![d] = Sent(runtimes[running].for.interface, body)]
      /\ gap' = [x \in Ids |->
           IF x = p.id /\ p.driver = d /\ p.interface = runtimes[running].for.interface
           THEN gap[x] \ {"unsettled"}
           ELSE IF \E q \in ToSet(saved) : q.id = x /\ q.driver = d
                THEN gap[x] \cup {"unsettled"} ELSE gap[x]]
      /\ UNCHANGED <<settings, contract, runtimeVars>>

(* The process dies; what was written and committed stays, but a file that *)
(* is being written is cut short.                                          *)
Crash ==
  /\ serving /\ Trouble
  /\ serving' = FALSE /\ running' = None /\ registered' = None
  /\ runtimes' = [r \in Runtimes |-> Gone]
  /\ ensures' = [a \in Activations |-> Ended]
  /\ asked' = None /\ slips' = {}
  /\ requests' = [t \in Threads |-> Waiting]
  /\ gap' = [x \in Ids |-> gap[x] \cup
       (IF Writing(x) THEN {"torn"} ELSE {})
       \cup (IF \E t \in Threads : Holds(t, x) THEN {"stale"} ELSE {})]
  /\ UNCHANGED <<saved, files, issued, intended, drivers>>

Next ==
  \/ serving /\ SettingsNext /\ UNCHANGED runtimeVars
  \/ \E t \in Threads : Finish(t)
  \/ \E a \in Activations :
       Begin(a) \/ Close(a) \/ Clear(a) \/ Reconciled(a) \/ ReconcileFails(a)
  \/ Start \/ (\E i \in Ids : StartStops(i)) \/ Restarted \/ Crash

Spec == Init /\ [][Next]_vars

-----------------------------------------------------------------------------

TypeOK ==
  /\ saved \in Seq(Provider) /\ files \in [Ids -> File \cup {None, Unreadable}]
  /\ issued \in 0..MaxIds /\ contract \in [Drivers -> Contracts]
  /\ intended \in [Ids -> [Fields -> Texts]]
  /\ serving \in BOOLEAN /\ {running, registered} \ {None} \subseteq Runtimes
  /\ \A r \in Runtimes : runtimes[r] = Gone \/ runtimes[r].for \in Provider
  /\ running # None => runtimes[running].for \in Provider
  /\ \A i, j \in DOMAIN saved : saved[i].id = saved[j].id => i = j

SameService(p, q) ==
  p # None /\ q # None /\ <<p.id, p.driver, p.interface>> = <<q.id, q.driver, q.interface>>

(* When no activation is under way, and the enabled provider is still as   *)
(* the last activation found it, the live runtime is its own, over its     *)
(* interface, and takes the commands; unless an activation failed since    *)
(* the last runtime was built, or the settings changed while that one was  *)
(* built.  A gRPC client has a target: an activation never stops for the   *)
(* want of one (ensure_metering_runtime).                                  *)
RuntimeFollowsSettings ==
  /\ "untargeted" \notin slips
  /\ serving /\ Quiet /\ SameService(asked, Enabled(saved))
       /\ slips \cap {"failed", "mixed"} = {} =>
     /\ running # None /\ registered = running
     /\ runtimes[running].open /\ runtimes[running].tasks
     /\ SameService(runtimes[running].for, asked)

(* No task outlives its runtime: what consumes events and commands belongs *)
(* to the runtime in the state of the application, so that no reading is   *)
(* taken twice; unless an activation cleared the state that another had    *)
(* filled in the meantime (shutdown_metering_runtime).                     *)
OneConsumer ==
  "overtaken" \in slips \/ \A r \in Runtimes : runtimes[r].tasks => r = running

=============================================================================
