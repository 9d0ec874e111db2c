--------------------------- MODULE ReadingIntake ---------------------------
(***************************************************************************)
(* From the event stream of the metering provider to the reading table and *)
(* the meter, for the readings of one meter: the buffer of                 *)
(* build_reading_consumer with its flush timer, the threads that write the *)
(* batches, and the two database transactions of add_reading.              *)
(*                                                                         *)
(* Heartbeats are numbered in order; EnergyAt says what the meter's        *)
(* counter shows at the end of each.  The cost of a reading is left to     *)
(* Billing: here billing a reading means charging its kWh.                 *)
(***************************************************************************)
EXTENDS Integers, Sequences, FiniteSets

CONSTANTS
  Heartbeats,      \* 1..n, in the order the meter measured them
  EnergyAt,        \* the counter of the meter at the end of each heartbeat
  FirstEnergy,     \* system_info.last_energy before the first of them
  Threads,         \* worker threads of asyncio.to_thread
  Other,           \* any other session that locks the meter's wallets
  BatchSize,       \* READING_BATCH_SIZE
  LockWalletsOnProcess,  \* config["LOCK_WALLETS_ON_PROCESS"]
  MaxResends, MaxCrashes, \* bounds of the model
  None             \* nothing, nobody

ASSUME IntakeAssumption ==
  /\ IsFiniteSet(Heartbeats) /\ Heartbeats = 1..Cardinality(Heartbeats)
  /\ EnergyAt \in [Heartbeats -> Nat]
  /\ FirstEnergy \in Nat
  /\ Other \notin Threads /\ None \notin Threads \cup {Other}
  /\ BatchSize \in Nat \ {0}
  /\ LockWalletsOnProcess \in BOOLEAN
  /\ MaxResends \in Nat /\ MaxCrashes \in Nat

VARIABLES
  overlap,      \* may readings arrive while earlier ones are being written
  sent,         \* how many heartbeats the provider has sent
  pending,      \* the buffer of the consumer
  timer,        \* is flush_task sleeping
  awaits,       \* the thread whose batch the consumer waits for, or None
  batch,        \* what each thread has still to write
  step,         \* where each thread is with the first reading of its batch
  kwh,          \* the kilowatt_hours a thread has computed
  lock,         \* who holds the locks of the meter's wallets
  table,        \* the reading table: how far each heartbeat got
  rowKwh,       \* reading.kilowatt_hours
  lastEnergy,   \* system_info.last_energy
  charged,      \* the kWh billed, in total
  resends, crashes

stream == <<sent, resends>>
buffer == <<pending, timer, awaits>>
jobs   == <<batch, step, kwh>>
db     == <<table, rowKwh, lastEnergy, charged>>
env    == <<overlap, crashes>>
vars   == <<stream, buffer, jobs, lock, db, env>>

Init ==
  /\ overlap \in BOOLEAN
  /\ sent = 0 /\ resends = 0 /\ crashes = 0
  /\ pending = <<>> /\ timer = FALSE /\ awaits = None
  /\ batch = [t \in Threads |-> <<>>]
  /\ step = [t \in Threads |-> "idle"]
  /\ kwh = [t \in Threads |-> 0]
  /\ lock = None
  /\ table = [r \in Heartbeats |-> "absent"]
  /\ rowKwh = [r \in Heartbeats |-> 0]
  /\ lastEnergy = FirstEnergy
  /\ charged = 0

Busy == {t \in Threads : step[t] # "idle"}

-----------------------------------------------------------------------------
(* The consumer, a coroutine: it handles one event at a time and, when it  *)
(* flushes the buffer itself, goes on only when the batch is written.      *)

(* flush_pending hands the buffer b to a thread.                           *)
StartFlush(t, b) ==
  /\ step[t] = "idle"
  /\ batch' = [batch EXCEPT ![t] = b]
  /\ step' = [step EXCEPT ![t] = "save"]
  /\ pending' = <<>>
  /\ UNCHANGED kwh

Full(b) == Len(b) >= BatchSize

(* A faulty Buffer: no timer is started behind a flush that is running.    *)
BufferNoTimer(r) ==
  LET b == Append(pending, r)
  IN  IF Full(b)
      THEN \E t \in Threads : StartFlush(t, b) /\ awaits' = t /\ timer' = FALSE
      ELSE /\ pending' = b
           /\ timer' = (timer \/ Busy = {})
           /\ UNCHANGED <<awaits, jobs>>

Buffer(r) ==
  LET b == Append(pending, r)
  IN  IF Full(b)
      THEN \E t \in Threads : StartFlush(t, b) /\ awaits' = t /\ timer' = FALSE
      ELSE /\ pending' = b
           /\ timer' = TRUE
           /\ UNCHANGED <<awaits, jobs>>

Ready == awaits = None /\ (overlap \/ Busy = {})

Receive ==
  /\ Ready
  /\ sent + 1 \in Heartbeats
  /\ sent' = sent + 1
  /\ Buffer(sent + 1)
  /\ UNCHANGED <<resends, lock, db, env>>

(* The provider sends an earlier reading again.                            *)
ReceiveAgain(r) ==
  /\ Ready
  /\ r <= sent /\ resends < MaxResends
  /\ resends' = resends + 1
  /\ Buffer(r)
  /\ UNCHANGED <<sent, lock, db, env>>

(* heartbeat_read_hops or heartbeat_statistics: cancel the timer and flush.*)
FlushMarker(t) ==
  /\ awaits = None
  /\ timer' = FALSE
  /\ pending # <<>>
  /\ StartFlush(t, pending)
  /\ awaits' = t
  /\ UNCHANGED <<stream, lock, db, env>>

(* delayed_flush wakes up; the consumer does not wait for this batch.      *)
TimerFires(t) ==
  /\ timer
  /\ timer' = FALSE
  /\ StartFlush(t, pending)
  /\ UNCHANGED <<stream, awaits, lock, db, env>>

-----------------------------------------------------------------------------
(* A thread in _write_readings_sync: add_reading for one after the other.  *)

(* Thread t is done with the first reading of its batch.                   *)
NextReading(t) ==
  /\ batch' = [batch EXCEPT ![t] = Tail(@)]
  /\ step' = [step EXCEPT ![t] = IF Len(batch[t]) = 1 THEN "idle" ELSE "save"]
  /\ awaits' = IF Len(batch[t]) = 1 /\ awaits = t THEN None ELSE awaits

(* A faulty Save: there is no check for a reading of the same heartbeat.   *)
SaveAlways(t) ==
  LET r == Head(batch[t])
  IN  /\ step[t] = "save"
      /\ table' = [table EXCEPT ![r] = "saved"]
      /\ step' = [step EXCEPT ![t] = "lock"]
      /\ UNCHANGED <<stream, buffer, batch, kwh, lock, rowKwh, lastEnergy, charged, env>>

(* save_raw_reading and its commit; a duplicate is discarded.              *)
Save(t) ==
  LET r == Head(batch[t])
  IN  /\ step[t] = "save"
      /\ IF table[r] = "absent"
         THEN /\ table' = [table EXCEPT ![r] = "saved"]
              /\ step' = [step EXCEPT ![t] = "lock"]
              /\ UNCHANGED <<awaits, batch>>
         ELSE NextReading(t) /\ UNCHANGED table
      /\ UNCHANGED <<stream, pending, timer, kwh, lock, rowKwh, lastEnergy,
                     charged, env>>

(* Reading.update_kilowatt_hours                                           *)
KilowattHours(from, to) == IF from = 0 \/ from > to THEN 0 ELSE to - from

(* process_reading locks the wallets, forgets what it had read, and reads  *)
(* last_energy.                                                            *)
Lock(t) ==
  /\ step[t] = "lock"
  /\ ~LockWalletsOnProcess \/ lock = None
  /\ lock' = IF LockWalletsOnProcess THEN t ELSE lock
  /\ kwh' = [kwh EXCEPT ![t] = KilowattHours(lastEnergy, EnergyAt[Head(batch[t])])]
  /\ step' = [step EXCEPT ![t] = "bill"]
  /\ UNCHANGED <<stream, buffer, batch, db, env>>

(* A faulty LockTimeout: the meter is updated although nothing was billed. *)
LockTimeoutMovesOn(t) ==
  /\ step[t] = "lock"
  /\ LockWalletsOnProcess /\ lock \notin {None, t}
  /\ step' = [step EXCEPT ![t] = "update"]
  /\ UNCHANGED <<stream, buffer, batch, kwh, lock, db, env>>

(* The wallets stay locked too long: the saved reading is not billed.      *)
LockTimeout(t) ==
  /\ step[t] = "lock"
  /\ LockWalletsOnProcess /\ lock \notin {None, t}
  /\ NextReading(t)
  /\ UNCHANGED <<stream, pending, timer, kwh, lock, db, env>>

(* The first commit of process_reading releases the locks.                 *)
CommitBilling(t) ==
  LET r == Head(batch[t])
  IN  /\ step[t] = "bill"
      /\ table' = [table EXCEPT ![r] = "billed"]
      /\ rowKwh' = [rowKwh EXCEPT ![r] = kwh[t]]
      /\ charged' = charged + kwh[t]
      /\ lock' = IF lock = t THEN None ELSE lock
      /\ step' = [step EXCEPT ![t] = "update"]
      /\ UNCHANGED <<stream, buffer, batch, kwh, lastEnergy, env>>

(* Billing raises an exception: rolled back, logged, and not tried again.  *)
FailBilling(t) ==
  /\ step[t] = "bill"
  /\ lock' = IF lock = t THEN None ELSE lock
  /\ NextReading(t)
  /\ UNCHANGED <<stream, pending, timer, kwh, db, env>>

(* Meter.update_from_reading and the second commit.                        *)
UpdateMeter(t) ==
  /\ step[t] = "update"
  /\ lastEnergy' = EnergyAt[Head(batch[t])]
  /\ NextReading(t)
  /\ UNCHANGED <<stream, pending, timer, kwh, lock, table, rowKwh, charged, env>>

-----------------------------------------------------------------------------
(* Transaction.process, or billing elsewhere, locks the same wallets.      *)
OtherLocks ==
  /\ LockWalletsOnProcess /\ lock = None /\ lock' = Other
  /\ UNCHANGED <<stream, buffer, jobs, db, env>>

OtherUnlocks ==
  /\ lock = Other /\ lock' = None
  /\ UNCHANGED <<stream, buffer, jobs, db, env>>

(* The process dies: the buffer, the timer and the threads are lost.       *)
Crash ==
  /\ crashes < MaxCrashes
  /\ crashes' = crashes + 1
  /\ pending' = <<>> /\ timer' = FALSE /\ awaits' = None
  /\ batch' = [t \in Threads |-> <<>>]
  /\ step' = [t \in Threads |-> "idle"]
  /\ lock' = IF lock \in Threads THEN None ELSE lock
  /\ UNCHANGED <<overlap, stream, kwh, db>>

Consumer == Receive \/ \E r \in Heartbeats : ReceiveAgain(r)

Flush == \E t \in Threads : FlushMarker(t) \/ TimerFires(t)

Work(t) ==
  Save(t) \/ Lock(t) \/ LockTimeout(t) \/ CommitBilling(t) \/ FailBilling(t) \/ UpdateMeter(t)

Next ==
  \/ Consumer
  \/ Flush
  \/ \E t \in Threads : Work(t)
  \/ OtherLocks \/ OtherUnlocks
  \/ Crash

Spec == Init /\ [][Next]_vars

(* The timer goes off, threads run on, and a lock is held for some time    *)
(* only (process_transaction commits or rolls back in any case).           *)
Fairness ==
  /\ WF_vars(\E t \in Threads : TimerFires(t))
  /\ \A t \in Threads : WF_vars(Work(t))
  /\ WF_vars(OtherUnlocks)

FairSpec == Spec /\ Fairness

-----------------------------------------------------------------------------
(* Properties.                                                             *)

(* Every variable has its type; threads at work have something to write.   *)
TypeOK ==
  /\ sent \in 0..Cardinality(Heartbeats)
  /\ pending \in Seq(Heartbeats) /\ Len(pending) < BatchSize
  /\ timer \in BOOLEAN
  /\ awaits \in Threads \cup {None}
  /\ batch \in [Threads -> Seq(Heartbeats)]
  /\ step \in [Threads -> {"idle", "save", "lock", "bill", "update"}]
  /\ \A t \in Threads : step[t] = "idle" <=> batch[t] = <<>>
  /\ kwh \in [Threads -> Nat]
  /\ lock \in Threads \cup {Other, None}
  /\ table \in [Heartbeats -> {"absent", "saved", "billed"}]
  /\ rowKwh \in [Heartbeats -> Nat]
  /\ lastEnergy \in Nat /\ charged \in Nat
  /\ resends \in 0..MaxResends /\ crashes \in 0..MaxCrashes

(* No reading is left in the buffer without a timer that will flush it,    *)
(* whatever flushes are running when it arrives, and the consumer never    *)
(* waits for a thread that has nothing to do.                              *)
NoReadingStranded ==
  /\ pending # <<>> => timer
  /\ awaits # None => step[awaits] # "idle"

(* The energy charged is the energy the counter of the meter has moved on  *)
(* by, while no thread is between charging a reading and noting its energy *)
(* ("using the delta between max long_energy and the saved previous        *)
(* long_energy ... This also sets the new long_energy", CalculateBilling). *)
EnergyCharged ==
  (\A t \in Threads : step[t] # "update") => charged = lastEnergy - FirstEnergy

(* So it is, through duplicates, lock timeouts and failures of billing, as *)
(* long as readings of the meter are not written by two threads at a time  *)
(* and no crash comes between the two commits: nothing is billed twice and *)
(* what was not billed is billed with the next reading.                    *)
ChargedIsMeasured == (~overlap /\ crashes = 0) => EnergyCharged

(* A reading is billed once: a row once billed keeps its energy, and it    *)
(* was saved before, whatever is sent again, times out or crashes.         *)
BilledOnce ==
  [][\A r \in Heartbeats :
       /\ table[r] = "billed" => table'[r] = "billed" /\ rowKwh'[r] = rowKwh[r]
       /\ table'[r] = "billed" => table[r] # "absent"]_vars

(* What was received is written: without a crash every reading gets into   *)
(* the reading table, be it by timer, batch or marker.                     *)
ReadingWritten ==
  \A r \in Heartbeats : (sent >= r) ~> (table[r] # "absent" \/ crashes > 0)
=============================================================================
