---------------------------- MODULE IntakeProofs ----------------------------
(***************************************************************************)
(* Proofs about ReadingIntake, for any number of readings, threads, resent *)
(* readings and crashes, and any size of the batches:                      *)
(*                                                                         *)
(*   TypeCorrect      Spec => []TypeOK                                     *)
(*   NothingStranded  Spec => []NoReadingStranded                          *)
(*   NeverBilledTwice Spec => BilledOnce                                   *)
(*   MeasuredCharged  Spec => []ChargedIsMeasured, for a counter that only *)
(*                    moves on                                             *)
(*                                                                         *)
(* The first two hold together: a thread gets something to write because   *)
(* the timer runs only while there is something in the buffer.  The third  *)
(* needs that no two threads have saved the same reading (Claims), the     *)
(* last one that readings which do not overlap are written in the order    *)
(* they were measured in (InOrder, Received).                              *)
(***************************************************************************)
EXTENDS ReadingIntake, FiniteSetTheorems, SequenceTheorems, TLAPS

(* The timer runs just while something is in the buffer.                   *)
TimerRuns == timer <=> pending # <<>>

BufferInv == TypeOK /\ NoReadingStranded /\ TimerRuns

(* A thread that is going to bill a reading has saved it itself.           *)
Claims ==
  /\ \A t \in Threads : step[t] \in {"lock", "bill"} => table[Head(batch[t])] = "saved"
  /\ \A t \in Threads : step[t] = "update" => table[Head(batch[t])] = "billed"
  /\ \A t, u \in Threads :
       /\ step[t] \in {"lock", "bill"} /\ step[u] \in {"lock", "bill"}
       /\ Head(batch[t]) = Head(batch[u])
       => t = u

(* One thread writes at a time, and meanwhile no reading arrives.          *)
OneAtATime ==
  /\ \A t, u \in Threads : step[t] # "idle" /\ step[u] # "idle" => t = u
  /\ \A t \in Threads : step[t] # "idle" => pending = <<>>

(* What is written from q is written in the order of the measurements: all *)
(* that was measured before q[i] is in the table or before it in q.        *)
InOrder(q) ==
  \A i \in DOMAIN q : \A r \in Heartbeats : r < q[i] =>
    table[r] # "absent" \/ \E j \in DOMAIN q : j < i /\ q[j] = r

(* What was received is in the table or on its way there.                  *)
Received ==
  \A r \in Heartbeats : r <= sent =>
    \/ table[r] # "absent"
    \/ \E j \in DOMAIN pending : pending[j] = r
    \/ \E t \in Threads : \E j \in DOMAIN batch[t] : batch[t][j] = r

(* The table has no gaps, and the meter shows a reading of it at most.     *)
NoGaps ==
  \A r, s \in Heartbeats : r < s /\ table[s] # "absent" => table[r] # "absent"

Latest ==
  \/ lastEnergy = FirstEnergy
  \/ \E r \in Heartbeats : table[r] # "absent" /\ lastEnergy = EnergyAt[r]

Ordered ==
  /\ InOrder(pending) /\ \A t \in Threads : InOrder(batch[t])
  /\ Received /\ NoGaps /\ Latest

(* What a thread is about to charge, or has charged, for its reading.      *)
Charging ==
  /\ \A t \in Threads : step[t] \in {"lock", "bill", "update"} =>
       lastEnergy <= EnergyAt[Head(batch[t])]
  /\ \A t \in Threads : step[t] = "bill" =>
       kwh[t] = EnergyAt[Head(batch[t])] - lastEnergy
  /\ \A t \in Threads : step[t] = "update" =>
       charged = EnergyAt[Head(batch[t])] - FirstEnergy
  /\ EnergyCharged

ChargeInv == ~overlap /\ crashes = 0 => OneAtATime /\ Ordered /\ Charging

(* The types of what the consumer and the threads hold.                    *)
WorkOK ==
  /\ pending \in Seq(Heartbeats) /\ Len(pending) < BatchSize
  /\ timer \in BOOLEAN
  /\ awaits \in Threads \cup {None}
  /\ batch \in [Threads -> Seq(Heartbeats)]
  /\ step \in [Threads -> {"idle", "save", "lock", "bill", "update"}]
  /\ \A t \in Threads : step[t] = "idle" <=> batch[t] = <<>>

WorkInv == WorkOK /\ NoReadingStranded /\ TimerRuns

-----------------------------------------------------------------------------
(* Readings and buffers.                                                   *)

LEMMA HeartbeatsAreCounted ==
  Cardinality(Heartbeats) \in Nat /\ Heartbeats \subseteq Nat \ {0}
<1>1. Cardinality(Heartbeats) \in Nat
  BY IntakeAssumption, FS_CardinalityType
<1> QED
  BY <1>1, IntakeAssumption

(* The rest of a batch once its first reading is written.                  *)
LEMMA RestOf ==
  ASSUME NEW q \in Seq(Heartbeats), q # <<>>
  PROVE  /\ Head(q) \in Heartbeats /\ Head(q) = q[1] /\ 1 \in DOMAIN q
         /\ Tail(q) \in Seq(Heartbeats)
         /\ Tail(q) = <<>> <=> Len(q) = 1
         /\ \A i \in DOMAIN Tail(q) : i \in Nat /\ i + 1 \in DOMAIN q /\ Tail(q)[i] = q[i + 1]
         /\ \A i \in DOMAIN q : i \in Nat /\ (i = 1 \/ i - 1 \in DOMAIN Tail(q))
<1>1. Len(q) \in Nat /\ Len(q) >= 1 /\ DOMAIN q = 1..Len(q)
  BY EmptySeq, LenProperties
<1>2. /\ Tail(q) \in Seq(Heartbeats) /\ Len(Tail(q)) = Len(q) - 1
      /\ \A i \in 1..Len(q) - 1 : Tail(q)[i] = q[i + 1]
      /\ Head(q) = q[1] /\ Head(q) \in Heartbeats
  BY <1>1, HeadTailProperties
<1>3. DOMAIN Tail(q) = 1..Len(q) - 1
  BY <1>1, <1>2, LenProperties
<1>4. Tail(q) = <<>> <=> Len(q) = 1
  BY <1>1, <1>2, EmptySeq, LenProperties
<1> QED
  BY <1>1, <1>2, <1>3, <1>4

(* A thread that is handed a batch has something to write.                 *)
LEMMA FlushStarts ==
  ASSUME WorkInv, NEW t \in Threads, NEW b \in Seq(Heartbeats), b # <<>>,
         StartFlush(t, b), timer' = FALSE, awaits' = t \/ awaits' = awaits
  PROVE  WorkInv'
<1>1. /\ pending' = <<>> /\ Len(pending') = 0 /\ pending' \in Seq(Heartbeats)
      /\ Len(pending') < BatchSize
  BY IntakeAssumption DEF StartFlush
<1>2. /\ batch' \in [Threads -> Seq(Heartbeats)]
      /\ step' \in [Threads -> {"idle", "save", "lock", "bill", "update"}]
      /\ \A u \in Threads : step'[u] = "idle" <=> batch'[u] = <<>>
      /\ step'[t] = "save"
      /\ \A u \in Threads : step[u] # "idle" => step'[u] # "idle"
  BY DEF StartFlush, WorkInv, WorkOK
<1>3. WorkOK'
  BY <1>1, <1>2 DEF WorkInv, WorkOK
<1>4. awaits' # None => step'[awaits'] # "idle"
  BY <1>2 DEF WorkInv, WorkOK, NoReadingStranded
<1> QED
  BY <1>1, <1>3, <1>4 DEF WorkInv, NoReadingStranded, TimerRuns

LEMMA BufferKeeps ==
  ASSUME WorkInv, NEW r \in Heartbeats, Buffer(r)
  PROVE  WorkInv'
<1> DEFINE b == Append(pending, r)
<1>1. b \in Seq(Heartbeats) /\ b # <<>> /\ Len(b) \in Nat
  BY SMTT(30) DEF WorkInv, WorkOK
<1>2. CASE Full(b)
  <2>1. PICK t \in Threads : StartFlush(t, b) /\ awaits' = t /\ timer' = FALSE
    BY <1>2 DEF Buffer
  <2> HIDE DEF b
  <2> QED
    BY <1>1, <2>1, FlushStarts
<1>3. CASE ~Full(b)
  <2>1. pending' = b /\ timer' = TRUE /\ UNCHANGED <<awaits, batch, step>>
    BY <1>3 DEF Buffer, jobs
  <2>2. Len(b) < BatchSize
    BY <1>1, <1>3, IntakeAssumption DEF Full
  <2> HIDE DEF b
  <2> QED
    BY <1>1, <2>1, <2>2 DEF WorkInv, WorkOK, NoReadingStranded, TimerRuns
<1> QED
  BY <1>2, <1>3

(* A thread goes on to the next reading of its batch, or is done.          *)
LEMMA NextReadingKeeps ==
  ASSUME WorkInv, NEW t \in Threads, step[t] # "idle", NextReading(t),
         UNCHANGED <<pending, timer>>
  PROVE  WorkInv'
<1>1. batch[t] \in Seq(Heartbeats) /\ batch[t] # <<>>
  BY DEF WorkInv, WorkOK
<1>2. /\ batch' = [batch EXCEPT ![t] = Tail(batch[t])]
      /\ step' = [step EXCEPT ![t] = IF Len(batch[t]) = 1 THEN "idle" ELSE "save"]
      /\ awaits' = IF Len(batch[t]) = 1 /\ awaits = t THEN None ELSE awaits
  BY DEF NextReading
<1>3. Tail(batch[t]) \in Seq(Heartbeats) /\ (Tail(batch[t]) = <<>> <=> Len(batch[t]) = 1)
  BY <1>1, RestOf
<1>4. /\ batch' \in [Threads -> Seq(Heartbeats)]
      /\ step' \in [Threads -> {"idle", "save", "lock", "bill", "update"}]
      /\ \A u \in Threads : step'[u] = "idle" <=> batch'[u] = <<>>
      /\ awaits' \in Threads \cup {None}
      /\ awaits' # None => step'[awaits'] # "idle"
  BY <1>2, <1>3 DEF WorkInv, WorkOK, NoReadingStranded
<1> QED
  BY <1>4 DEF WorkInv, WorkOK, NoReadingStranded, TimerRuns

(* A thread goes on with the reading it is at.                             *)
LEMMA StepKeeps ==
  ASSUME WorkInv, NEW t \in Threads, step[t] # "idle",
         NEW s \in {"save", "lock", "bill", "update"}, step' = [step EXCEPT ![t] = s],
         UNCHANGED <<buffer, batch>>
  PROVE  WorkInv'
BY DEF WorkInv, WorkOK, NoReadingStranded, TimerRuns, buffer

LEMMA KilowattHoursType ==
  ASSUME NEW x \in Nat, NEW y \in Nat
  PROVE  KilowattHours(x, y) \in Nat
BY DEF KilowattHours

LEMMA FirstOfBatch ==
  ASSUME WorkInv, NEW t \in Threads, step[t] # "idle"
  PROVE  Head(batch[t]) \in Heartbeats
<1>1. batch[t] \in Seq(Heartbeats) /\ batch[t] # <<>>
  BY DEF WorkInv, WorkOK
<1> QED
  BY <1>1, RestOf

-----------------------------------------------------------------------------
(* Types, and nothing stranded.                                            *)

(* The rest of the type invariant.                                         *)
RestOK ==
  /\ sent \in 0..Cardinality(Heartbeats)
  /\ kwh \in [Threads -> Nat]
  /\ lock \in Threads \cup {Other, None}
  /\ table \in [Heartbeats -> {"absent", "saved", "billed"}]
  /\ rowKwh \in [Heartbeats -> Nat]
  /\ lastEnergy \in Nat /\ charged \in Nat
  /\ resends \in 0..MaxResends /\ crashes \in 0..MaxCrashes

LEMMA BufferParts == BufferInv <=> WorkInv /\ RestOK
BY DEF BufferInv, WorkInv, TypeOK, WorkOK, RestOK

(* What the threads do to the buffer and to their batches.                 *)
LEMMA WorkStep == WorkInv /\ RestOK /\ [Next]_vars => WorkInv'
<1> SUFFICES ASSUME WorkInv, RestOK, [Next]_vars PROVE WorkInv'
  OBVIOUS
<1> USE DEF stream, db, env, buffer, jobs
<1>1. CASE UNCHANGED <<buffer, batch, step>>
  BY <1>1 DEF WorkInv, WorkOK, NoReadingStranded, TimerRuns
<1>2. CASE Receive
  BY <1>2, BufferKeeps DEF Receive
<1>3. ASSUME NEW r \in Heartbeats, ReceiveAgain(r) PROVE WorkInv'
  BY <1>3, BufferKeeps DEF ReceiveAgain
<1>4. ASSUME NEW t \in Threads, FlushMarker(t) \/ TimerFires(t) PROVE WorkInv'
  <2>1. /\ StartFlush(t, pending) /\ timer' = FALSE /\ (awaits' = t \/ awaits' = awaits)
        /\ pending \in Seq(Heartbeats) /\ pending # <<>>
    BY <1>4 DEF FlushMarker, TimerFires, WorkInv, WorkOK, TimerRuns
  <2> QED
    BY <2>1, FlushStarts
<1>5. ASSUME NEW t \in Threads, Save(t) PROVE WorkInv'
  <2>1. CASE step' = [step EXCEPT ![t] = "lock"] /\ UNCHANGED <<awaits, batch>>
    BY <1>5, <2>1, StepKeeps DEF Save
  <2>2. CASE NextReading(t)
    BY <1>5, <2>2, NextReadingKeeps DEF Save
  <2> QED
    BY <1>5, <2>1, <2>2 DEF Save
<1>6. ASSUME NEW t \in Threads, Lock(t) PROVE WorkInv'
  BY <1>6, StepKeeps DEF Lock
<1>7. ASSUME NEW t \in Threads, LockTimeout(t) \/ FailBilling(t) \/ UpdateMeter(t) PROVE WorkInv'
  BY <1>7, NextReadingKeeps DEF LockTimeout, FailBilling, UpdateMeter
<1>8. ASSUME NEW t \in Threads, CommitBilling(t) PROVE WorkInv'
  BY <1>8, StepKeeps DEF CommitBilling
<1>9. CASE OtherLocks \/ OtherUnlocks \/ UNCHANGED vars
  BY <1>1, <1>9 DEF OtherLocks, OtherUnlocks, vars
<1>10. CASE Crash
  <2>1. /\ <<>> \in Seq(Heartbeats) /\ Len(<<>>) < BatchSize
        /\ pending' = <<>> /\ timer' = FALSE /\ awaits' = None
        /\ batch' = [t \in Threads |-> <<>>] /\ step' = [t \in Threads |-> "idle"]
    BY <1>10, IntakeAssumption DEF Crash
  <2> QED
    BY <2>1 DEF WorkInv, WorkOK, NoReadingStranded, TimerRuns
<1> QED
  BY <1>2, <1>3, <1>4, <1>5, <1>6, <1>7, <1>8, <1>9, <1>10 DEF Next, Consumer, Flush, Work

LEMMA RestStep == WorkInv /\ RestOK /\ [Next]_vars => RestOK'
<1> SUFFICES ASSUME WorkInv, RestOK, [Next]_vars PROVE RestOK'
  OBVIOUS
<1> USE DEF stream, db, env, buffer, jobs
<1>1. CASE Receive
  <2>1. sent' = sent + 1 /\ sent + 1 \in Heartbeats /\ UNCHANGED <<kwh, lock, resends, db, crashes>>
    BY <1>1 DEF Receive, Buffer, StartFlush
  <2> QED
    BY <2>1, IntakeAssumption, HeartbeatsAreCounted DEF RestOK
<1>2. ASSUME NEW r \in Heartbeats, ReceiveAgain(r) PROVE RestOK'
  <2>1. /\ resends < MaxResends /\ resends' = resends + 1
        /\ UNCHANGED <<sent, kwh, lock, db, crashes>>
    BY <1>2 DEF ReceiveAgain, Buffer, StartFlush
  <2>2. resends' \in 0..MaxResends
    BY <2>1, IntakeAssumption DEF RestOK
  <2> QED
    BY <2>1, <2>2 DEF RestOK
<1>3. ASSUME NEW t \in Threads, FlushMarker(t) \/ TimerFires(t) PROVE RestOK'
  BY <1>3 DEF FlushMarker, TimerFires, StartFlush, RestOK
<1>4. ASSUME NEW t \in Threads, Save(t) PROVE RestOK'
  <2>1. Head(batch[t]) \in Heartbeats
    BY <1>4, FirstOfBatch DEF Save
  <2> QED
    BY <1>4, <2>1 DEF Save, RestOK
<1>5. ASSUME NEW t \in Threads, Lock(t) PROVE RestOK'
  <2>1. EnergyAt[Head(batch[t])] \in Nat
    BY <1>5, FirstOfBatch, IntakeAssumption DEF Lock
  <2>2. KilowattHours(lastEnergy, EnergyAt[Head(batch[t])]) \in Nat
    BY <2>1, KilowattHoursType DEF RestOK
  <2> QED
    BY <1>5, <2>2 DEF Lock, RestOK
<1>6. ASSUME NEW t \in Threads, LockTimeout(t) \/ FailBilling(t) PROVE RestOK'
  BY <1>6 DEF LockTimeout, FailBilling, RestOK
<1>7. ASSUME NEW t \in Threads, UpdateMeter(t) PROVE RestOK'
  <2>1. EnergyAt[Head(batch[t])] \in Nat
    BY <1>7, FirstOfBatch, IntakeAssumption DEF UpdateMeter
  <2> QED
    BY <1>7, <2>1 DEF UpdateMeter, RestOK
<1>8. ASSUME NEW t \in Threads, CommitBilling(t) PROVE RestOK'
  <2>1. Head(batch[t]) \in Heartbeats
    BY <1>8, FirstOfBatch DEF CommitBilling
  <2>2. charged' \in Nat
    BY <1>8 DEF CommitBilling, RestOK
  <2> QED
    BY <1>8, <2>1, <2>2 DEF CommitBilling, RestOK
<1>9. CASE OtherLocks \/ OtherUnlocks \/ UNCHANGED vars
  BY <1>9 DEF OtherLocks, OtherUnlocks, vars, RestOK
<1>10. CASE Crash
  <2>1. crashes' \in 0..MaxCrashes
    BY <1>10, IntakeAssumption DEF Crash, RestOK
  <2> QED
    BY <1>10, <2>1 DEF Crash, RestOK
<1> QED
  BY <1>1, <1>2, <1>3, <1>4, <1>5, <1>6, <1>7, <1>8, <1>9, <1>10
  DEF Next, Consumer, Flush, Work

LEMMA BufferInit == Init => BufferInv
<1> SUFFICES ASSUME Init PROVE BufferInv
  OBVIOUS
<1>1. <<>> \in Seq(Heartbeats) /\ Len(<<>>) < BatchSize
  BY IntakeAssumption
<1>2. sent \in 0..Cardinality(Heartbeats) /\ resends \in 0..MaxResends /\ crashes \in 0..MaxCrashes
  BY HeartbeatsAreCounted, IntakeAssumption DEF Init
<1>3. lastEnergy \in Nat /\ charged \in Nat /\ kwh \in [Threads -> Nat] /\ rowKwh \in [Heartbeats -> Nat]
  BY IntakeAssumption DEF Init
<1> QED
  BY <1>1, <1>2, <1>3 DEF Init, BufferInv, TypeOK, NoReadingStranded, TimerRuns

LEMMA BufferInvariance == Spec => []BufferInv
<1>1. BufferInv /\ [Next]_vars => BufferInv'
  <2>1. BufferInv' <=> WorkInv' /\ RestOK'
    BY DEF BufferInv, WorkInv, TypeOK, WorkOK, RestOK
  <2> QED
    BY <2>1, BufferParts, WorkStep, RestStep
<1> QED
  BY <1>1, BufferInit, PTL DEF Spec

(* Every variable has its type, and a thread at work has a reading to      *)
(* write, whatever arrives, is sent again, times out, fails or crashes.    *)
THEOREM TypeCorrect == Spec => []TypeOK
<1>1. BufferInv => TypeOK
  BY DEF BufferInv
<1> QED
  BY <1>1, BufferInvariance, PTL

(* The consumer of build_reading_consumer leaves no reading in its buffer  *)
(* without a timer, and waits for no thread that has nothing to write.     *)
THEOREM NothingStranded == Spec => []NoReadingStranded
<1>1. BufferInv => NoReadingStranded
  BY DEF BufferInv
<1> QED
  BY <1>1, BufferInvariance, PTL

-----------------------------------------------------------------------------
(* Billed once.                                                            *)

(* Who does not save or bill keeps the claims of the threads.              *)
LEMMA ClaimsKept ==
  ASSUME Claims, table' = table,
         \A u \in Threads : step'[u] \in {"lock", "bill", "update"} =>
           /\ batch'[u] = batch[u]
           /\ step'[u] = step[u] \/ (step[u] = "lock" /\ step'[u] = "bill")
  PROVE  Claims'
BY DEF Claims

LEMMA ClaimsStep == BufferInv /\ Claims /\ [Next]_vars => Claims'
<1> SUFFICES ASSUME BufferInv, Claims, [Next]_vars PROVE Claims'
  OBVIOUS
<1> USE DEF stream, db, env, buffer, jobs
<1>1. step \in [Threads -> {"idle", "save", "lock", "bill", "update"}] /\ batch \in [Threads -> Seq(Heartbeats)]
  BY DEF BufferInv, TypeOK
<1>2. \A t \in Threads : step[t] # "idle" => Head(batch[t]) \in Heartbeats
  BY BufferParts, FirstOfBatch
<1>3. table \in [Heartbeats -> {"absent", "saved", "billed"}]
  BY DEF BufferInv, TypeOK
<1>4. ASSUME NEW t \in Threads, NEW b, StartFlush(t, b), table' = table PROVE Claims'
  BY <1>1, <1>4, ClaimsKept DEF StartFlush
<1>5. ASSUME NEW t \in Threads, NextReading(t), table' = table PROVE Claims'
  BY <1>1, <1>5, ClaimsKept DEF NextReading
<1>6. ASSUME NEW r \in Heartbeats, Buffer(r), table' = table PROVE Claims'
  <2>1. CASE UNCHANGED jobs
    BY <1>6, <2>1, ClaimsKept
  <2> QED
    BY <1>4, <1>6, <2>1 DEF Buffer
<1>7. CASE Consumer
  <2>1. ASSUME Receive PROVE Claims'
    BY <1>6, <2>1 DEF Receive
  <2>2. ASSUME NEW r \in Heartbeats, ReceiveAgain(r) PROVE Claims'
    BY <1>6, <2>2 DEF ReceiveAgain
  <2> QED
    BY <1>7, <2>1, <2>2 DEF Consumer
<1>8. ASSUME NEW t \in Threads, FlushMarker(t) \/ TimerFires(t) PROVE Claims'
  <2>1. StartFlush(t, pending) /\ table' = table
    BY <1>8 DEF FlushMarker, TimerFires
  <2> QED
    BY <1>1, <2>1, ClaimsKept DEF StartFlush
<1>9. ASSUME NEW t \in Threads, Save(t) PROVE Claims'
  <2> DEFINE r == Head(batch[t])
  <2>1. CASE table[r] = "absent"
    <3>1. /\ table' = [table EXCEPT ![r] = "saved"] /\ step' = [step EXCEPT ![t] = "lock"]
          /\ batch' = batch /\ r \in Heartbeats
      BY <1>2, <1>9, <2>1 DEF Save
    <3>2. \A u \in Threads : step[u] \in {"lock", "bill", "update"} => Head(batch[u]) # r
      BY <2>1 DEF Claims
    <3> HIDE DEF r
    <3>3. \A u \in Threads \ {t} : step[u] \in {"lock", "bill", "update"} =>
            table'[Head(batch[u])] = table[Head(batch[u])]
      BY <1>2, <1>3, <3>1, <3>2
    <3>4. table'[r] = "saved" /\ step'[t] = "lock"
      BY <1>1, <1>3, <3>1
    <3> QED
      BY <1>1, <3>1, <3>2, <3>3, <3>4 DEF Claims, r
  <2>2. CASE table[r] # "absent"
    BY <1>5, <1>9, <2>2 DEF Save
  <2> QED
    BY <2>1, <2>2
<1>10. ASSUME NEW t \in Threads, Lock(t) PROVE Claims'
  BY <1>1, <1>10, ClaimsKept DEF Lock
<1>11. ASSUME NEW t \in Threads, LockTimeout(t) \/ FailBilling(t) \/ UpdateMeter(t) PROVE Claims'
  BY <1>5, <1>11 DEF LockTimeout, FailBilling, UpdateMeter
<1>12. ASSUME NEW t \in Threads, CommitBilling(t) PROVE Claims'
  <2> DEFINE r == Head(batch[t])
  <2>1. /\ table' = [table EXCEPT ![r] = "billed"] /\ step' = [step EXCEPT ![t] = "update"]
        /\ batch' = batch /\ r \in Heartbeats /\ step[t] = "bill"
    BY <1>2, <1>12 DEF CommitBilling
  <2>2. \A u \in Threads \ {t} : step[u] \in {"lock", "bill"} => Head(batch[u]) # r
    BY <2>1 DEF Claims
  <2> HIDE DEF r
  <2>3. /\ table'[r] = "billed" /\ step'[t] = "update"
        /\ \A x \in Heartbeats \ {r} : table'[x] = table[x]
    BY <1>1, <1>3, <2>1
  <2>4. \A u \in Threads \ {t} : step'[u] = step[u]
    BY <1>1, <2>1
  <2> QED
    BY <1>2, <2>1, <2>2, <2>3, <2>4 DEF Claims, r
<1>13. CASE OtherLocks \/ OtherUnlocks \/ UNCHANGED vars
  BY <1>13, ClaimsKept DEF OtherLocks, OtherUnlocks, vars
<1>14. CASE Crash
  BY <1>14, ClaimsKept DEF Crash
<1> QED
  BY <1>7, <1>8, <1>9, <1>10, <1>11, <1>12, <1>13, <1>14 DEF Next, Flush, Work

LEMMA ClaimsInvariance == Spec => []Claims
<1>1. Init => Claims
  BY DEF Init, Claims
<1> QED
  BY <1>1, ClaimsStep, BufferInvariance, PTL DEF Spec

(* The rows of the reading table change in three ways.                     *)
LEMMA TableSteps ==
  ASSUME [Next]_vars
  PROVE  \/ UNCHANGED <<table, rowKwh>>
         \/ \E t \in Threads : Save(t) /\ rowKwh' = rowKwh
         \/ \E t \in Threads : CommitBilling(t)
<1> USE DEF db
<1>1. CASE Consumer
  BY <1>1 DEF Consumer, Receive, ReceiveAgain
<1>2. CASE Flush
  BY <1>2 DEF Flush, FlushMarker, TimerFires
<1>3. ASSUME NEW t \in Threads, Work(t), ~CommitBilling(t)
      PROVE  (Save(t) /\ rowKwh' = rowKwh) \/ UNCHANGED <<table, rowKwh>>
  BY <1>3 DEF Work, Save, Lock, LockTimeout, FailBilling, UpdateMeter
<1>4. CASE OtherLocks \/ OtherUnlocks \/ Crash \/ UNCHANGED vars
  BY <1>4 DEF OtherLocks, OtherUnlocks, Crash, vars
<1> QED
  BY <1>1, <1>2, <1>3, <1>4 DEF Next

(* A reading is billed once, whichever threads get it, however often it is *)
(* sent, and wherever the process crashes: the row that add_reading saved, *)
(* or refused to save again, is what keeps process_reading from a second   *)
(* time.                                                                   *)
THEOREM NeverBilledTwice == Spec => BilledOnce
<1> DEFINE Once(r) ==
      /\ table[r] = "billed" => table'[r] = "billed" /\ rowKwh'[r] = rowKwh[r]
      /\ table'[r] = "billed" => table[r] # "absent"
<1>1. ASSUME BufferInv, Claims, [Next]_vars, NEW r \in Heartbeats PROVE Once(r)
  <2>1. table \in [Heartbeats -> {"absent", "saved", "billed"}] /\ rowKwh \in [Heartbeats -> Nat]
    BY <1>1 DEF BufferInv, TypeOK
  <2>2. \A t \in Threads : step[t] # "idle" => Head(batch[t]) \in Heartbeats
    BY <1>1, BufferParts, FirstOfBatch
  <2>3. ASSUME NEW t \in Threads, Save(t), rowKwh' = rowKwh PROVE Once(r)
    BY <2>1, <2>2, <2>3 DEF Save
  <2>4. ASSUME NEW t \in Threads, CommitBilling(t) PROVE Once(r)
    <3>1. step[t] = "bill" /\ table[Head(batch[t])] = "saved"
      BY <1>1, <2>4 DEF CommitBilling, Claims
    <3> QED
      BY <2>1, <2>2, <2>4, <3>1 DEF CommitBilling
  <2>5. CASE UNCHANGED <<table, rowKwh>>
    BY <2>1, <2>5
  <2> QED
    BY <1>1, <2>3, <2>4, <2>5, TableSteps
<1>2. BufferInv /\ Claims /\ [Next]_vars =>
        [\A r \in Heartbeats :
           /\ table[r] = "billed" => table'[r] = "billed" /\ rowKwh'[r] = rowKwh[r]
           /\ table'[r] = "billed" => table[r] # "absent"]_vars
  BY <1>1
<1> QED
  BY <1>2, BufferInvariance, ClaimsInvariance, PTL DEF Spec, BilledOnce

-----------------------------------------------------------------------------
(* Charged what was measured.                                              *)

(* The counter of the meter shows something and moves on only: otherwise   *)
(* update_kilowatt_hours charges nothing, whatever was used.               *)
CounterMovesOn ==
  /\ FirstEnergy > 0
  /\ \A r \in Heartbeats : FirstEnergy <= EnergyAt[r]
  /\ \A r, s \in Heartbeats : r <= s => EnergyAt[r] <= EnergyAt[s]

ChargeFacts == OneAtATime /\ Ordered /\ Charging

(* What has arrived is written in order also after what arrives next: all  *)
(* that was measured before that has arrived.                              *)
LEMMA ArrivesInOrder ==
  ASSUME BufferInv, Ordered, \A t \in Threads : step[t] = "idle",
         NEW r \in Heartbeats, r <= sent + 1
  PROVE  LET b == Append(pending, r)
         IN  /\ InOrder(b)
             /\ \A s \in Heartbeats : s <= sent \/ s = r =>
                  table[s] # "absent" \/ \E j \in DOMAIN b : b[j] = s
<1> DEFINE b == Append(pending, r)
           n == Len(pending)
<1>1. /\ pending \in Seq(Heartbeats) /\ n \in Nat /\ DOMAIN pending = 1..n
      /\ DOMAIN b = 1..(n + 1) /\ b[n + 1] = r
      /\ \A i \in DOMAIN pending : i \in DOMAIN b /\ b[i] = pending[i]
  BY SMTT(30) DEF BufferInv, TypeOK
<1>2. \A t \in Threads : DOMAIN batch[t] = {}
  <2>1. \A t \in Threads : batch[t] = <<>>
    BY DEF BufferInv, TypeOK
  <2> QED
    BY <2>1
<1>3. sent \in Nat /\ \A s \in Heartbeats : s \in Nat
  BY HeartbeatsAreCounted DEF BufferInv, TypeOK
<1> HIDE DEF b, n
<1>4. \A s \in Heartbeats : s <= sent =>
        table[s] # "absent" \/ \E j \in DOMAIN pending : pending[j] = s
  BY <1>2 DEF Ordered, Received
<1>5. \A s \in Heartbeats : s <= sent \/ s = r =>
        table[s] # "absent" \/ \E j \in DOMAIN b : b[j] = s
  <2>1. n + 1 \in DOMAIN b
    BY <1>1
  <2> QED
    BY <1>1, <1>4, <2>1
<1>6. ASSUME NEW i \in DOMAIN b, NEW s \in Heartbeats, s < b[i], table[s] = "absent"
      PROVE  \E j \in DOMAIN b : j < i /\ b[j] = s
  <2>1. CASE i \in DOMAIN pending
    <3>1. PICK j \in DOMAIN pending : j < i /\ pending[j] = s
      BY <1>1, <1>6, <2>1 DEF Ordered, InOrder
    <3> QED
      BY <1>1, <3>1
  <2>2. CASE i = n + 1
    <3>1. s <= sent
      BY <1>1, <1>3, <1>6, <2>2
    <3>2. PICK j \in DOMAIN pending : pending[j] = s
      BY <1>4, <1>6, <3>1
    <3> QED
      BY <1>1, <2>2, <3>2
  <2> QED
    BY <1>1, <2>1, <2>2
<1>7. InOrder(b)
  BY <1>6 DEF InOrder
<1> QED
  BY <1>5, <1>7 DEF b

(* The rest of a batch is in order once its first reading is in the table. *)
LEMMA RestInOrder ==
  ASSUME NEW q \in Seq(Heartbeats), q # <<>>, InOrder(q), table[Head(q)] # "absent"
  PROVE  InOrder(Tail(q))
<1>1. /\ Head(q) = q[1]
      /\ \A i \in DOMAIN Tail(q) : i \in Nat /\ i + 1 \in DOMAIN q /\ Tail(q)[i] = q[i + 1]
      /\ \A i \in DOMAIN q : i \in Nat /\ (i = 1 \/ i - 1 \in DOMAIN Tail(q))
  BY RestOf
<1> SUFFICES ASSUME NEW i \in DOMAIN Tail(q), NEW r \in Heartbeats, r < Tail(q)[i],
                    table[r] = "absent"
             PROVE  \E j \in DOMAIN Tail(q) : j < i /\ Tail(q)[j] = r
  BY DEF InOrder
<1>2. PICK j \in DOMAIN q : j < i + 1 /\ q[j] = r
  BY <1>1 DEF InOrder
<1>3. j # 1
  BY <1>1, <1>2
<1>4. j - 1 \in DOMAIN Tail(q) /\ j - 1 < i /\ Tail(q)[j - 1] = q[j]
  BY <1>1, <1>2, <1>3
<1> QED
  BY <1>2, <1>4

(* More rows in the table leave everything in order.                       *)
LEMMA OrderLasts ==
  ASSUME \A r \in Heartbeats : table[r] # "absent" => table'[r] # "absent"
  PROVE  \A q : InOrder(q) => InOrder(q)'
BY DEF InOrder

(* A thread is alone while it writes.                                      *)
LEMMA Alone ==
  ASSUME BufferInv, OneAtATime, NEW t \in Threads, step[t] # "idle"
  PROVE  /\ pending = <<>>
         /\ \A u \in Threads \ {t} : step[u] = "idle" /\ batch[u] = <<>>
         /\ batch[t] \in Seq(Heartbeats) /\ batch[t] # <<>>
         /\ Head(batch[t]) \in Heartbeats /\ Head(batch[t]) = batch[t][1]
         /\ 1 \in DOMAIN batch[t]
<1>1. batch[t] \in Seq(Heartbeats) /\ batch[t] # <<>>
  BY DEF BufferInv, TypeOK
<1> QED
  BY <1>1, RestOf DEF BufferInv, TypeOK, OneAtATime

(* A reading arrives while nothing is being written.                       *)
LEMMA ChargeArrive ==
  ASSUME BufferInv, ChargeFacts, Ready, ~overlap, NEW r \in Heartbeats,
         r <= sent + 1, Buffer(r), UNCHANGED db, sent' = sent \/ (sent' = r /\ r = sent + 1)
  PROVE  ChargeFacts'
<1> DEFINE b == Append(pending, r)
<1>1. \A t \in Threads : step[t] = "idle" /\ batch[t] = <<>>
  BY DEF Ready, Busy, BufferInv, TypeOK
<1>2. /\ InOrder(b)
      /\ \A s \in Heartbeats : s <= sent \/ s = r =>
           table[s] # "absent" \/ \E j \in DOMAIN b : b[j] = s
  BY <1>1, ArrivesInOrder DEF ChargeFacts
<1>3. /\ batch \in [Threads -> Seq(Heartbeats)] /\ sent \in Nat
      /\ step \in [Threads -> {"idle", "save", "lock", "bill", "update"}]
      /\ \A s \in Heartbeats : s \in Nat
  BY HeartbeatsAreCounted DEF BufferInv, TypeOK
<1>4. \A s \in Heartbeats : s <= sent' =>
        table[s] # "absent" \/ \E j \in DOMAIN b : b[j] = s
  BY <1>2, <1>3
<1> HIDE DEF b
<1>5. UNCHANGED <<table, lastEnergy, charged>>
  BY DEF db
<1>6. \A q : q = b \/ q = <<>> => InOrder(q)'
  BY <1>2, <1>5 DEF InOrder
<1>7. NoGaps' /\ Latest'
  BY <1>5 DEF ChargeFacts, Ordered, NoGaps, Latest
<1>8. CASE Full(b)
  <2>1. PICK t \in Threads : StartFlush(t, b)
    BY <1>8 DEF Buffer, b
  <2>2. /\ batch' = [batch EXCEPT ![t] = b] /\ step' = [step EXCEPT ![t] = "save"]
        /\ pending' = <<>>
    BY <2>1 DEF StartFlush
  <2>3. /\ batch'[t] = b /\ step'[t] = "save"
        /\ \A u \in Threads \ {t} : batch'[u] = <<>> /\ step'[u] = "idle"
    BY <1>1, <1>3, <2>2
  <2>4. OneAtATime'
    BY <2>2, <2>3 DEF OneAtATime
  <2>5. Charging'
    BY <1>1, <1>5, <2>3 DEF ChargeFacts, Charging, EnergyCharged
  <2>6. Received'
    BY <1>4, <1>5, <2>3 DEF Received
  <2>7. InOrder(pending)' /\ \A u \in Threads : InOrder(batch[u])'
    BY <1>6, <2>2, <2>3 DEF InOrder
  <2>8. Ordered'
    BY <1>7, <2>6, <2>7 DEF Ordered
  <2> QED
    BY <2>4, <2>5, <2>8 DEF ChargeFacts
<1>9. CASE ~Full(b)
  <2>1. pending' = b /\ UNCHANGED <<batch, step>>
    BY <1>9 DEF Buffer, b, jobs
  <2>2. OneAtATime' /\ Charging'
    BY <1>1, <1>5, <2>1 DEF ChargeFacts, OneAtATime, Charging, EnergyCharged
  <2>3. Received'
    BY <1>4, <1>5, <2>1 DEF Received
  <2>4. InOrder(pending)' /\ \A u \in Threads : InOrder(batch[u])'
    BY <1>1, <1>6, <2>1 DEF InOrder
  <2>5. Ordered'
    BY <1>7, <2>3, <2>4 DEF Ordered
  <2> QED
    BY <2>2, <2>5 DEF ChargeFacts
<1> QED
  BY <1>8, <1>9

(* The buffer is handed to a thread.                                       *)
LEMMA ChargeFlush ==
  ASSUME BufferInv, ChargeFacts, NEW t \in Threads, pending # <<>>, StartFlush(t, pending),
         UNCHANGED <<db, sent>>
  PROVE  ChargeFacts'
<1>1. \A u \in Threads : step[u] = "idle" /\ batch[u] = <<>>
  BY DEF ChargeFacts, OneAtATime, BufferInv, TypeOK
<1>2. /\ batch' = [batch EXCEPT ![t] = pending] /\ step' = [step EXCEPT ![t] = "save"]
      /\ pending' = <<>> /\ UNCHANGED <<table, lastEnergy, charged>>
  BY DEF StartFlush, db
<1>3. /\ batch'[t] = pending /\ step'[t] = "save"
      /\ \A u \in Threads \ {t} : batch'[u] = <<>> /\ step'[u] = "idle"
  BY <1>1, <1>2 DEF BufferInv, TypeOK
<1>4. OneAtATime'
  BY <1>2, <1>3 DEF OneAtATime
<1>5. Charging'
  BY <1>1, <1>2, <1>3 DEF ChargeFacts, Charging, EnergyCharged
<1>6. Received'
  BY <1>1, <1>2, <1>3 DEF ChargeFacts, Ordered, Received
<1>7. Ordered'
  BY <1>2, <1>3, <1>6 DEF ChargeFacts, Ordered, InOrder, NoGaps, Latest
<1> QED
  BY <1>4, <1>5, <1>7 DEF ChargeFacts

(* A thread is done with a reading that is in the table: what is left is   *)
(* still in order.                                                         *)
LEMMA OrderNext ==
  ASSUME BufferInv, OneAtATime, Ordered, NEW t \in Threads, step[t] # "idle", NextReading(t),
         table[Head(batch[t])] # "absent", UNCHANGED <<sent, pending, table>>
  PROVE  /\ OneAtATime'
         /\ InOrder(pending)' /\ (\A u \in Threads : InOrder(batch[u])') /\ Received' /\ NoGaps'
         /\ \A u \in Threads : step'[u] \in {"idle", "save"}
<1> DEFINE q == batch[t]
<1>1. /\ pending = <<>>
      /\ \A u \in Threads \ {t} : step[u] = "idle" /\ batch[u] = <<>>
      /\ q \in Seq(Heartbeats) /\ q # <<>>
  BY Alone
<1>2. /\ batch'[t] = Tail(q) /\ step'[t] \in {"idle", "save"}
      /\ \A u \in Threads \ {t} : step'[u] = "idle" /\ batch'[u] = <<>>
  BY <1>1 DEF NextReading, BufferInv, TypeOK
<1>3. InOrder(Tail(q))
  BY <1>1, RestInOrder DEF Ordered
<1>4. \A i \in DOMAIN q : q[i] = Head(q) \/ \E j \in DOMAIN Tail(q) : Tail(q)[j] = q[i]
  <2>1. /\ Head(q) = q[1]
        /\ \A i \in DOMAIN Tail(q) : i \in Nat /\ i + 1 \in DOMAIN q /\ Tail(q)[i] = q[i + 1]
        /\ \A i \in DOMAIN q : i \in Nat /\ (i = 1 \/ i - 1 \in DOMAIN Tail(q))
    BY <1>1, RestOf
  <2> HIDE DEF q
  <2> QED
    BY <2>1
<1>5. \A r \in Heartbeats : r <= sent =>
        table[r] # "absent" \/ \E j \in DOMAIN q : q[j] = r
  BY <1>1 DEF Ordered, Received
<1>6. \A r \in Heartbeats : r <= sent =>
        table[r] # "absent" \/ \E j \in DOMAIN Tail(q) : Tail(q)[j] = r
  BY <1>4, <1>5
<1> HIDE DEF q
<1>7. Received'
  BY <1>2, <1>6 DEF Received
<1>8. OneAtATime'
  BY <1>1, <1>2 DEF OneAtATime
<1>9. InOrder(pending)' /\ \A u \in Threads : InOrder(batch[u])'
  BY <1>1, <1>2, <1>3 DEF InOrder
<1>10. NoGaps'
  BY DEF Ordered, NoGaps
<1> QED
  BY <1>2, <1>7, <1>8, <1>9, <1>10

(* A thread goes on with the reading it is at, which is in the table then. *)
LEMMA OrderSame ==
  ASSUME BufferInv, OneAtATime, Ordered, NEW t \in Threads, step[t] # "idle",
         NEW s \in {"lock", "bill", "update"}, step' = [step EXCEPT ![t] = s],
         \A r \in Heartbeats : table[r] # "absent" => table'[r] # "absent",
         \A r \in Heartbeats : table'[r] # "absent" => table[r] # "absent" \/ r = Head(batch[t]),
         UNCHANGED <<sent, pending, batch, lastEnergy>>
  PROVE  OneAtATime' /\ Ordered'
<1>1. /\ \A u \in Threads \ {t} : step[u] = "idle" /\ batch[u] = <<>>
      /\ Head(batch[t]) \in Heartbeats /\ Head(batch[t]) = batch[t][1] /\ 1 \in DOMAIN batch[t]
      /\ \A i \in DOMAIN batch[t] : i \in Nat /\ i >= 1
  <2>1. batch[t] \in Seq(Heartbeats)
    BY DEF BufferInv, TypeOK
  <2> QED
    BY <2>1, Alone
<1>2. OneAtATime'
  BY <1>1 DEF OneAtATime, BufferInv, TypeOK
<1>3. InOrder(pending)' /\ \A u \in Threads : InOrder(batch[u])'
  BY DEF Ordered, InOrder
<1>4. Received'
  BY DEF Ordered, Received
<1>5. Latest'
  BY DEF Ordered, Latest
<1>6. NoGaps'
  <2>1. \A r \in Heartbeats : r < Head(batch[t]) => table[r] # "absent"
    BY <1>1 DEF Ordered, InOrder
  <2> QED
    BY <2>1 DEF Ordered, NoGaps
<1> QED
  BY <1>2, <1>3, <1>4, <1>5, <1>6 DEF Ordered

(* What a thread at work does to the facts about charging, and what goes   *)
(* on around it.                                                           *)
LEMMA ChargeWork ==
  ASSUME CounterMovesOn, BufferInv, Claims, ChargeFacts, NEW t \in Threads, Work(t)
  PROVE  ChargeFacts'
<1> USE DEF stream, db, env, buffer, jobs
<1> DEFINE r == Head(batch[t])
<1>1. /\ step \in [Threads -> {"idle", "save", "lock", "bill", "update"}]
      /\ table \in [Heartbeats -> {"absent", "saved", "billed"}]
      /\ kwh \in [Threads -> Nat] /\ lastEnergy \in Nat /\ charged \in Nat
  BY DEF BufferInv, TypeOK
<1>2. step[t] # "idle"
  BY DEF Work, Save, Lock, LockTimeout, CommitBilling, FailBilling, UpdateMeter
<1>3. r \in Heartbeats /\ EnergyAt[r] \in Nat /\ FirstEnergy \in Nat
      /\ \A u \in Threads \ {t} : step[u] = "idle"
  BY <1>2, Alone, IntakeAssumption DEF ChargeFacts
<1>4. step[t] \in {"lock", "bill", "update"} => table[r] # "absent" /\ lastEnergy <= EnergyAt[r]
  BY DEF Claims, ChargeFacts, Charging
<1>5. lastEnergy > 0
  BY <1>1, <1>3, IntakeAssumption DEF ChargeFacts, Ordered, Latest, CounterMovesOn
<1>6. step[t] # "update" => charged = lastEnergy - FirstEnergy
  BY <1>3 DEF ChargeFacts, Charging, EnergyCharged
(* The reading is done with, and the meter not touched. *)
<1>7. ASSUME NextReading(t), step[t] # "update", table[r] # "absent",
             UNCHANGED <<sent, pending, table, lastEnergy, charged>>
      PROVE  ChargeFacts'
  <2>1. /\ OneAtATime' /\ InOrder(pending)' /\ (\A u \in Threads : InOrder(batch[u])')
        /\ Received' /\ NoGaps' /\ \A u \in Threads : step'[u] \in {"idle", "save"}
    BY <1>2, <1>7, OrderNext DEF ChargeFacts
  <2>2. Latest'
    BY <1>7 DEF ChargeFacts, Ordered, Latest
  <2>3. Charging'
    BY <1>6, <1>7, <2>1 DEF Charging, EnergyCharged
  <2> QED
    BY <2>1, <2>2, <2>3 DEF ChargeFacts, Ordered
<1>8. CASE Save(t) /\ table[r] = "absent"
  <2>1. /\ table' = [table EXCEPT ![r] = "saved"] /\ step' = [step EXCEPT ![t] = "lock"]
        /\ UNCHANGED <<sent, pending, batch, lastEnergy, charged>>
    BY <1>8 DEF Save
  <2> HIDE DEF r
  <2>2. /\ \A x \in Heartbeats : table[x] # "absent" => table'[x] # "absent"
        /\ \A x \in Heartbeats : table'[x] # "absent" => table[x] # "absent" \/ x = r
    BY <1>1, <1>3, <2>1
  <2>3. OneAtATime' /\ Ordered'
    BY <1>2, <2>1, <2>2, OrderSame DEF ChargeFacts, r
  <2>4. lastEnergy <= EnergyAt[r]
    <3>1. CASE lastEnergy = FirstEnergy
      BY <1>3, <3>1 DEF CounterMovesOn
    <3>2. ASSUME NEW x \in Heartbeats, table[x] # "absent", lastEnergy = EnergyAt[x]
          PROVE  lastEnergy <= EnergyAt[r]
      <4>1. x <= r
        <5>1. x \in Nat /\ r \in Nat
          BY <1>3, HeartbeatsAreCounted
        <5>2. ~(r < x)
          BY <1>3, <1>8, <3>2 DEF ChargeFacts, Ordered, NoGaps, r
        <5> QED
          BY <5>1, <5>2
      <4> QED
        BY <1>3, <3>2, <4>1 DEF CounterMovesOn
    <3> QED
      BY <3>1, <3>2 DEF ChargeFacts, Ordered, Latest
  <2>5. step[t] = "save"
    BY <1>8 DEF Save
  <2>6. step'[t] = "lock" /\ \A u \in Threads \ {t} : step'[u] = "idle"
    BY <1>1, <1>3, <2>1
  <2>7. Charging'
    BY <1>6, <2>1, <2>4, <2>5, <2>6 DEF Charging, EnergyCharged, r
  <2> QED
    BY <2>3, <2>7 DEF ChargeFacts
<1>9. CASE Save(t) /\ table[r] # "absent"
  BY <1>7, <1>9 DEF Save
<1>10. CASE LockTimeout(t) \/ FailBilling(t)
  <2>1. step[t] \in {"lock", "bill"}
    BY <1>10 DEF LockTimeout, FailBilling
  <2> QED
    BY <1>4, <1>7, <1>10, <2>1 DEF LockTimeout, FailBilling
<1>11. CASE Lock(t)
  <2>1. /\ step[t] = "lock" /\ step' = [step EXCEPT ![t] = "bill"]
        /\ kwh'[t] = KilowattHours(lastEnergy, EnergyAt[r])
        /\ UNCHANGED <<table, sent, pending, batch, lastEnergy, charged>>
    BY <1>1, <1>11 DEF Lock
  <2>2. OneAtATime' /\ Ordered'
    BY <1>2, <2>1, OrderSame DEF ChargeFacts
  <2>3. kwh'[t] = EnergyAt[r] - lastEnergy
    BY <1>1, <1>3, <1>4, <1>5, <2>1 DEF KilowattHours
  <2>4. step'[t] = "bill" /\ \A u \in Threads \ {t} : step'[u] = "idle"
    BY <1>1, <1>3, <2>1
  <2>5. Charging'
    BY <1>4, <1>6, <2>1, <2>3, <2>4 DEF Charging, EnergyCharged
  <2> QED
    BY <2>2, <2>5 DEF ChargeFacts
<1>12. CASE CommitBilling(t)
  <2>1. /\ step[t] = "bill" /\ step' = [step EXCEPT ![t] = "update"]
        /\ table' = [table EXCEPT ![r] = "billed"] /\ charged' = charged + kwh[t]
        /\ UNCHANGED <<sent, pending, batch, lastEnergy>>
    BY <1>12 DEF CommitBilling
  <2> HIDE DEF r
  <2>2. /\ \A x \in Heartbeats : table[x] # "absent" => table'[x] # "absent"
        /\ \A x \in Heartbeats : table'[x] # "absent" => table[x] # "absent" \/ x = r
    BY <1>1, <1>3, <2>1
  <2>3. OneAtATime' /\ Ordered'
    BY <1>2, <2>1, <2>2, OrderSame DEF ChargeFacts, r
  <2>4. charged' = EnergyAt[r] - FirstEnergy
    <3>1. kwh[t] = EnergyAt[r] - lastEnergy
      BY <2>1 DEF ChargeFacts, Charging, r
    <3> QED
      BY <1>1, <1>3, <1>6, <2>1, <3>1
  <2>5. step'[t] = "update" /\ \A u \in Threads \ {t} : step'[u] = "idle"
    BY <1>1, <1>3, <2>1
  <2>6. Charging'
    BY <1>4, <2>1, <2>4, <2>5 DEF Charging, EnergyCharged, r
  <2> QED
    BY <2>3, <2>6 DEF ChargeFacts
<1>13. CASE UpdateMeter(t)
  <2>1. /\ step[t] = "update" /\ lastEnergy' = EnergyAt[r] /\ NextReading(t)
        /\ UNCHANGED <<sent, pending, table, charged>>
    BY <1>13 DEF UpdateMeter
  <2>2. /\ OneAtATime' /\ InOrder(pending)' /\ (\A u \in Threads : InOrder(batch[u])')
        /\ Received' /\ NoGaps' /\ \A u \in Threads : step'[u] \in {"idle", "save"}
    BY <1>2, <1>4, <2>1, OrderNext DEF ChargeFacts
  <2>3. Latest'
    BY <1>3, <1>4, <2>1 DEF Latest
  <2>4. charged = EnergyAt[r] - FirstEnergy
    BY <2>1 DEF ChargeFacts, Charging
  <2>5. Charging'
    BY <2>1, <2>2, <2>4 DEF Charging, EnergyCharged
  <2> QED
    BY <2>2, <2>3, <2>5 DEF ChargeFacts, Ordered
<1> QED
  BY <1>8, <1>9, <1>10, <1>11, <1>12, <1>13 DEF Work

LEMMA ChargeStep ==
  ASSUME CounterMovesOn, BufferInv, Claims, ChargeFacts, ~overlap, [Next]_vars, ~Crash
  PROVE  ChargeFacts'
<1> USE DEF stream, db, env, buffer, jobs
<1>1. CASE Receive
  <2>1. /\ Ready /\ sent + 1 \in Heartbeats /\ sent' = sent + 1 /\ Buffer(sent + 1)
        /\ UNCHANGED db /\ sent \in Nat
    BY <1>1, HeartbeatsAreCounted DEF Receive, BufferInv, TypeOK
  <2>2. PICK r \in Heartbeats : r = sent + 1
    BY <2>1
  <2>3. Buffer(r)
    BY <2>1, <2>2 DEF Buffer, StartFlush
  <2> QED
    BY <2>1, <2>2, <2>3, ChargeArrive
<1>2. ASSUME NEW r \in Heartbeats, ReceiveAgain(r) PROVE ChargeFacts'
  <2>1. Ready /\ r <= sent /\ sent' = sent /\ Buffer(r) /\ UNCHANGED db
    BY <1>2 DEF ReceiveAgain
  <2>2. r <= sent + 1
    BY <2>1, HeartbeatsAreCounted DEF BufferInv, TypeOK
  <2> QED
    BY <2>1, <2>2, ChargeArrive
<1>3. ASSUME NEW t \in Threads, FlushMarker(t) \/ TimerFires(t) PROVE ChargeFacts'
  <2>1. pending # <<>> /\ StartFlush(t, pending) /\ UNCHANGED <<db, sent>>
    BY <1>3 DEF FlushMarker, TimerFires, BufferInv, TimerRuns
  <2> QED
    BY <2>1, ChargeFlush
<1>4. CASE OtherLocks \/ OtherUnlocks \/ UNCHANGED vars
  <2>1. UNCHANGED <<sent, pending, batch, step, kwh, table, lastEnergy, charged>>
    BY <1>4 DEF OtherLocks, OtherUnlocks, vars
  <2> QED
    BY <2>1 DEF ChargeFacts, OneAtATime, Ordered, InOrder, Received, NoGaps, Latest, Charging,
                EnergyCharged
<1> QED
  BY <1>1, <1>2, <1>3, <1>4, ChargeWork DEF Next, Consumer, Flush

(* What may become of the assumptions of the property.                     *)
LEMMA EnvStep ==
  BufferInv /\ [Next]_vars => overlap' = overlap /\ (crashes' = 0 => crashes = 0 /\ ~Crash)
<1> SUFFICES ASSUME BufferInv, [Next]_vars
             PROVE  overlap' = overlap /\ (crashes' = 0 => crashes = 0 /\ ~Crash)
  OBVIOUS
<1> USE DEF env
<1>1. crashes \in Nat
  BY IntakeAssumption DEF BufferInv, TypeOK
<1>2. CASE Crash
  BY <1>1, <1>2 DEF Crash
<1>3. CASE ~Crash
  <2>1. ASSUME NEW t \in Threads, Work(t) PROVE UNCHANGED env
    BY <2>1 DEF Work, Save, Lock, LockTimeout, CommitBilling, FailBilling, UpdateMeter
  <2>2. Consumer \/ Flush \/ OtherLocks \/ OtherUnlocks \/ UNCHANGED vars => UNCHANGED env
    BY DEF Consumer, Receive, ReceiveAgain, Flush, FlushMarker, TimerFires, OtherLocks,
           OtherUnlocks, vars
  <2> QED
    BY <1>3, <2>1, <2>2 DEF Next
<1> QED
  BY <1>2, <1>3

(* The energy that process_reading charges is the energy the meter's       *)
(* counter has moved on by, through duplicates, lock timeouts and failures *)
(* of billing, for a counter that only moves on, as long as the readings   *)
(* of the meter do not overlap and the process does not crash.             *)
THEOREM MeasuredCharged ==
  ASSUME CounterMovesOn
  PROVE  Spec => []ChargedIsMeasured
<1>1. Init => ChargeInv
  <2> SUFFICES ASSUME Init PROVE ChargeFacts
    BY DEF ChargeInv, ChargeFacts
  <2>1. OneAtATime
    BY DEF Init, OneAtATime
  <2>2. Ordered
    BY HeartbeatsAreCounted DEF Init, Ordered, InOrder, Received, NoGaps, Latest
  <2>3. Charging
    BY IntakeAssumption DEF Init, Charging, EnergyCharged
  <2> QED
    BY <2>1, <2>2, <2>3 DEF ChargeFacts
<1>2. BufferInv /\ Claims /\ ChargeInv /\ [Next]_vars => ChargeInv'
  <2> SUFFICES ASSUME BufferInv, Claims, ChargeInv, [Next]_vars, ~overlap', crashes' = 0
               PROVE  ChargeFacts'
    BY DEF ChargeInv, ChargeFacts
  <2>1. ~overlap /\ crashes = 0 /\ ~Crash
    BY EnvStep
  <2>2. ChargeFacts
    BY <2>1 DEF ChargeInv, ChargeFacts
  <2> QED
    BY <2>1, <2>2, ChargeStep
<1>3. ChargeInv => ChargedIsMeasured
  BY DEF ChargeInv, Charging, ChargedIsMeasured
<1> QED
  BY <1>1, <1>2, <1>3, BufferInvariance, ClaimsInvariance, PTL DEF Spec
=============================================================================
