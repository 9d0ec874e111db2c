----------------------------- MODULE LinkProofs -----------------------------
(***************************************************************************)
(* Proofs about ProviderLink, for any meters and any bounds:               *)
(*                                                                         *)
(*   TypeCorrect          Spec => []TypeOK                                 *)
(*   PauseIsWatched       Spec => []PauseWatched                           *)
(*   ReconcilesAlone      Spec => []OneReconciler                          *)
(*                                                                         *)
(* The last two rest on Handover: the flag that pauses commands is what    *)
(* the two tasks hand over.  The task that polls lives under it, the       *)
(* consumer reconciles only without it, and between them lies the time in  *)
(* which the one waits for the end of the other.                           *)
(***************************************************************************)
EXTENDS ProviderLink, TLAPS

Polling == recovery \in {"poll", "init", "register"}

Handover ==
  /\ Polling => paused
  /\ sse = "joining" => paused /\ ~Polling
  /\ recovery = "cancelled" => sse = "joining"
  /\ Reconciling(sse) => ~paused

Events == {"connected", "disconnected", "registered", "empty"}

-----------------------------------------------------------------------------
(* The bounds of the model, of which only the backoff is the code's.       *)
LEMMA BackoffBounded ==
  ASSUME NEW b \in 1..MaxBackoff
  PROVE  NextBackoff(b) \in 1..MaxBackoff
BY LinkAssumption DEF NextBackoff, Smaller

(* The types of the start of the process.                                  *)
LEMMA StartTypes ==
  ASSUME NEW s \in Starts
  PROVE  s \in {"init", "register", "done"} /\ FirstLeft(s) \in [Tasks -> SUBSET Meters]
BY DEF Starts, FirstLeft

(* A reconcile registers meters of the database.                           *)
LEMMA RegisterTypes ==
  ASSUME TypeOK, NEW t \in Tasks, RegisterNext(t)
  PROVE  roster' \subseteq Meters /\ left' \in [Tasks -> SUBSET Meters]
<1>1. PICK m \in left[t] : /\ left' = [left EXCEPT ![t] = @ \ {m}]
                           /\ roster' = IF up THEN roster \cup {m} ELSE roster
  BY DEF RegisterNext
<1>2. left[t] \in SUBSET Meters
  BY DEF TypeOK
<1> QED
  BY <1>1, <1>2 DEF TypeOK

(* Handling an event leaves the rest of the stream.                        *)
LEMMA ConsumeTypes ==
  ASSUME TypeOK, NEW e, Consume(e)
  PROVE  /\ events' \in Seq(Events) /\ hasConnected' \in BOOLEAN
         /\ backoff' \in 1..MaxBackoff
         /\ UNCHANGED <<up, roster, gateway, open, start, left, env>>
<1>1. events \in Seq(Events) /\ events # <<>> /\ events' = Tail(events)
  BY DEF TypeOK, Consume, Events
<1>2. events' \in Seq(Events)
  BY <1>1
<1>3. 1 \in 1..MaxBackoff
  BY LinkAssumption
<1> QED
  BY <1>2, <1>3 DEF Consume

(* After an event the consumer reads on or reconciles.                     *)
LEMMA ThenRestartTypes ==
  ASSUME TypeOK, ThenRestart
  PROVE  /\ sse' \in {"init", "read"} /\ place' \in {"top", "stream"}
         /\ sse' = "init" => ~paused'
BY DEF TypeOK, ThenRestart, MayRestart

(* A broken stream is closed.                                              *)
LEMMA BrokenTypes ==
  ASSUME TypeOK, Broken
  PROVE  /\ sse' = "sleep" /\ needs' \in BOOLEAN /\ open' \in BOOLEAN
         /\ events' \in Seq(Events)
         /\ UNCHANGED <<up, roster, gateway, paused, hasConnected, backoff>>
<1>1. open' \in BOOLEAN /\ needs' \in BOOLEAN
  BY DEF TypeOK, Broken
<1> QED
  BY <1>1 DEF Broken

(* Every step keeps the types.                                             *)
LEMMA TypeStep ==
  ASSUME TypeOK, [Next]_vars
  PROVE  TypeOK'
<1> USE LinkAssumption
<1>1. CASE ProviderStops
  <2>1. up' \in BOOLEAN /\ open' \in BOOLEAN
    BY <1>1 DEF ProviderStops
  <2>3. roster' \subseteq Meters /\ losses' \in 0..MaxLosses
    BY <1>1 DEF TypeOK, ProviderStops, Loss
  <2>4. overlooked' \in BOOLEAN
    BY <1>1 DEF TypeOK, ProviderStops
  <2>2. UNCHANGED <<gateway, events, flags, dog, tasks, changes, crashes>>
    BY <1>1 DEF ProviderStops, Loss
  <2> QED
    BY <2>1, <2>2, <2>3, <2>4 DEF TypeOK, flags, dog, tasks
<1>2. CASE ProviderStarts
  BY <1>2 DEF TypeOK, ProviderStarts, flags, dog, tasks, env
<1>3. CASE RosterLost
  BY <1>3 DEF TypeOK, RosterLost, Loss, Noticed, flags, dog, tasks
<1>4. CASE StreamCut
  <2>1. open' \in BOOLEAN
    BY <1>4 DEF StreamCut
  <2>3. losses' \in 0..MaxLosses
    BY <1>4 DEF TypeOK, StreamCut
  <2>2. UNCHANGED <<up, roster, gateway, events, flags, dog, tasks,
                    overlooked, changes, crashes>>
    BY <1>4 DEF StreamCut
  <2> QED
    BY <2>1, <2>2, <2>3 DEF TypeOK, flags, dog, tasks
<1>5. CASE GatewayChanges
  BY <1>5 DEF TypeOK, GatewayChanges, Send, flags, dog, tasks
<1>6. CASE Heartbeat
  BY <1>6 DEF TypeOK, Heartbeat, Send, flags, dog, tasks, env
<1>7. CASE StartInit
  BY <1>7 DEF TypeOK, StartInit, LoadMeters, Tasks, provider, flags, dog, env
<1>8. CASE StartRegister
  BY <1>8, RegisterTypes DEF TypeOK, StartRegister, Tasks, flags, dog, env
<1>9. CASE StartEnds
  BY <1>9 DEF TypeOK, StartEnds, provider, flags, dog, env
<1>10. CASE StartFails \/ Crash
  <2>1. Restarted /\ crashes' \in 0..MaxCrashes
    BY <1>10 DEF TypeOK, StartFails, Crash
  <2>2. start' \in {"init", "register", "done"} /\ left' \in [Tasks -> SUBSET Meters]
    BY <2>1, StartTypes DEF Restarted
  <2>3. /\ paused' \in BOOLEAN /\ needs' \in BOOLEAN /\ hasConnected' \in BOOLEAN
        /\ saw' \in BOOLEAN /\ requested' \in BOOLEAN /\ open' \in BOOLEAN
    BY <2>1 DEF Restarted
  <2>4. /\ sse' = "top" /\ place' = "top" /\ recovery' = "none" /\ backoff' = 1
        /\ events' = <<>>
        /\ UNCHANGED <<up, roster, gateway, overlooked, losses, changes>>
    BY <2>1 DEF Restarted
  <2> QED
    BY <2>1, <2>2, <2>3, <2>4 DEF TypeOK
<1>11. CASE Top
  BY <1>11 DEF TypeOK, Top, provider, flags, dog, env
<1>12. CASE Connect
  BY <1>12 DEF TypeOK, Connect, flags, dog, env
<1>13. CASE StreamBreaks
  BY <1>13, BrokenTypes DEF TypeOK, StreamBreaks, Events, dog, env
<1>14. CASE Wake
  BY <1>14, BackoffBounded DEF TypeOK, Wake, provider, dog, env
<1>15. CASE GatewayLost
  BY <1>15, ConsumeTypes, ThenRestartTypes DEF TypeOK, GatewayLost, Events, dog, env
<1>16. CASE GatewayBack
  BY <1>16, ConsumeTypes, ThenRestartTypes DEF TypeOK, GatewayBack, Events, dog, env
<1>17. CASE Joined
  BY <1>17, ThenRestartTypes DEF TypeOK, Joined, provider, dog, env
<1>18. CASE MetersRegistered
  BY <1>18, ConsumeTypes, ThenRestartTypes, ZenonT(60) DEF TypeOK, MetersRegistered, Events, env
<1>19. CASE RosterEmpty
  BY <1>19, ConsumeTypes, ThenRestartTypes DEF TypeOK, RosterEmpty, Events, env
<1>20. CASE SseInit
  BY <1>20 DEF TypeOK, SseInit, LoadMeters, Tasks, provider, flags, dog, env
<1>21. CASE SseInitFails
  <2>1. CASE Broken
    BY <1>21, <2>1, BrokenTypes DEF TypeOK, SseInitFails, Events, dog, env
  <2>2. CASE sse' = "dead" /\ UNCHANGED <<provider, flags>>
    BY <1>21, <2>2 DEF TypeOK, SseInitFails, provider, flags, dog, env
  <2> QED
    BY <1>21, <2>1, <2>2 DEF SseInitFails
<1>22. CASE SseRegister
  BY <1>22, RegisterTypes DEF TypeOK, SseRegister, Tasks, flags, dog, env
<1>23. CASE SseEnds
  <2>1. needs' \in BOOLEAN
    BY <1>23 DEF SseEnds
  <2>2. /\ sse' \in {"connect", "read"}
        /\ UNCHANGED <<provider, paused, hasConnected, backoff, dog, start, place,
                       recovery, left, env>>
    BY <1>23 DEF SseEnds
  <2> QED
    BY <2>1, <2>2 DEF TypeOK, provider, dog, env
<1>24. CASE Poll
  BY <1>24 DEF TypeOK, Poll, provider, flags, dog, env
<1>25. CASE RecoveryInit
  BY <1>25 DEF TypeOK, RecoveryInit, LoadMeters, Tasks, provider, flags, dog, env
<1>26. CASE RecoveryRegister
  BY <1>26, RegisterTypes DEF TypeOK, RecoveryRegister, Tasks, flags, dog, env
<1>27. CASE Resume
  <2>1. paused' \in BOOLEAN /\ needs' \in BOOLEAN
    BY <1>27 DEF Resume
  <2>2. /\ recovery' = "none"
        /\ UNCHANGED <<provider, hasConnected, backoff, dog, start, sse, place, left, env>>
    BY <1>27 DEF Resume
  <2> QED
    BY <2>1, <2>2 DEF TypeOK, provider, dog, env
<1>28. CASE Cancelled
  BY <1>28 DEF TypeOK, Cancelled, Tasks, provider, flags, dog, env
<1>29. CASE UNCHANGED vars
  BY <1>29 DEF TypeOK, vars, provider, flags, dog, tasks, env
<1> QED
  BY <1>1, <1>2, <1>3, <1>4, <1>5, <1>6, <1>7, <1>8, <1>9, <1>10, <1>11, <1>12, <1>13,
     <1>14, <1>15, <1>16, <1>17, <1>18, <1>19, <1>20, <1>21, <1>22, <1>23, <1>24,
     <1>25, <1>26, <1>27, <1>28, <1>29
  DEF Next, Provider, Start, Sse, Recovery

(* Every variable keeps its type, and the backoff its limit.               *)
THEOREM TypeCorrect == Spec => []TypeOK
<1>1. Init => TypeOK
  <2> SUFFICES ASSUME Init PROVE TypeOK
    OBVIOUS
  <2>1. start \in {"init", "register", "done"} /\ left \in [Tasks -> SUBSET Meters]
    BY StartTypes DEF Init
  <2>2. events \in Seq(Events)
    BY DEF Init
  <2>3. /\ up \in BOOLEAN /\ gateway \in BOOLEAN /\ open \in BOOLEAN
        /\ paused \in BOOLEAN /\ needs \in BOOLEAN /\ hasConnected \in BOOLEAN
        /\ saw \in BOOLEAN /\ requested \in BOOLEAN /\ overlooked \in BOOLEAN
    BY DEF Init
  <2>4. /\ roster = {} /\ sse = "top" /\ place = "top" /\ recovery = "none"
        /\ backoff = 1 /\ losses = 0 /\ changes = 0 /\ crashes = 0
    BY DEF Init
  <2> QED
    BY <2>1, <2>2, <2>3, <2>4, LinkAssumption DEF TypeOK, Events
<1>2. TypeOK /\ [Next]_vars => TypeOK'
  BY TypeStep
<1> QED
  BY <1>1, <1>2, PTL DEF Spec

-----------------------------------------------------------------------------
(* The two tasks.                                                          *)

(* Steps that leave the two tasks and the flag alone.                      *)
LEMMA HandoverAlone ==
  ASSUME Handover, PauseWatched, UNCHANGED <<sse, recovery, paused>>
  PROVE  Handover' /\ PauseWatched'
BY DEF Handover, PauseWatched, Polling, Reconciling

(* Every step keeps the handover, and a pause has somebody to end it.      *)
LEMMA HandoverStep ==
  ASSUME TypeOK, Handover, PauseWatched, [Next]_vars
  PROVE  Handover' /\ PauseWatched'
<1> USE DEF Handover, PauseWatched, Polling, Reconciling
<1>1. CASE Provider \/ Heartbeat
  BY <1>1, HandoverAlone
  DEF Provider, ProviderStops, ProviderStarts, RosterLost, StreamCut, GatewayChanges,
      Heartbeat, Loss, flags, tasks
<1>2. CASE StartInit \/ StartRegister \/ StartEnds
  BY <1>2, HandoverAlone DEF StartInit, StartRegister, StartEnds, flags
<1>3. CASE StartFails \/ Crash
  BY <1>3 DEF StartFails, Crash, Restarted
<1>4. CASE Top
  BY <1>4 DEF Top, MayRestart, flags
<1>5. CASE Connect \/ StreamBreaks \/ Wake
  BY <1>5 DEF Connect, StreamBreaks, Wake, Broken, flags
<1>6. CASE GatewayLost
  <2>1. sse = "read" /\ paused' /\ sse' \in {"init", "read"} /\ (sse' = "init" => ~paused')
    BY <1>6, ThenRestartTypes DEF GatewayLost, Consume
  <2>2. recovery' = IF ~paused /\ recovery = "none" THEN "poll" ELSE recovery
    BY <1>6 DEF GatewayLost
  <2> QED
    BY <2>1, <2>2 DEF TypeOK
<1>7. CASE GatewayBack
  <2>1. sse = "read" /\ paused' = paused
    BY <1>7 DEF GatewayBack, Consume
  <2>2. CASE paused
    BY <1>7, <2>1, <2>2 DEF GatewayBack
  <2>3. CASE ~paused
    BY <1>7, <2>1, <2>3, ThenRestartTypes DEF GatewayBack
  <2> QED
    BY <2>2, <2>3
<1>8. CASE Joined
  BY <1>8, ThenRestartTypes DEF Joined
<1>9. CASE MetersRegistered \/ RosterEmpty
  <2>1. /\ sse = "read" /\ sse' \in {"init", "read"} /\ (sse' = "init" => ~paused')
        /\ UNCHANGED <<paused, recovery>>
    BY <1>9, ThenRestartTypes DEF MetersRegistered, RosterEmpty, Consume
  <2> QED
    BY <2>1
<1>10. CASE SseInit \/ SseInitFails
  BY <1>10 DEF SseInit, SseInitFails, Broken, flags
<1>11. CASE SseRegister \/ SseEnds
  BY <1>11 DEF SseRegister, SseEnds, flags
<1>12. CASE Poll \/ RecoveryInit \/ RecoveryRegister
  BY <1>12 DEF Poll, RecoveryInit, RecoveryRegister, flags
<1>13. CASE Resume \/ Cancelled
  BY <1>13 DEF Resume, Cancelled, flags
<1>14. CASE UNCHANGED vars
  BY <1>14, HandoverAlone DEF vars, flags, tasks
<1> QED
  BY <1>1, <1>2, <1>3, <1>4, <1>5, <1>6, <1>7, <1>8, <1>9, <1>10, <1>11, <1>12, <1>13, <1>14
  DEF Next, Start, Sse, Recovery

(* The handover holds all the time.                                        *)
LEMMA HandoverHolds == Spec => [](Handover /\ PauseWatched)
<1>1. Init => Handover /\ PauseWatched
  BY DEF Init, Handover, PauseWatched, Polling, Reconciling
<1>2. TypeOK /\ Handover /\ PauseWatched /\ [Next]_vars => Handover' /\ PauseWatched'
  BY HandoverStep
<1> QED
  BY <1>1, <1>2, TypeCorrect, PTL DEF Spec

(* Commands that are paused for the gateway are never left so: the task    *)
(* that polls is alive, or the consumer is about to let them go on.        *)
THEOREM PauseIsWatched == Spec => []PauseWatched
BY HandoverHolds, PTL

(* The consumer and the task that polls are never both at a reconcile,     *)
(* however the provider and its gateway behave.                            *)
THEOREM ReconcilesAlone == Spec => []OneReconciler
<1>1. Handover => OneReconciler
  BY DEF Handover, OneReconciler, Polling, Reconciling
<1> QED
  BY <1>1, HandoverHolds, PTL
=============================================================================
