---------------------------- MODULE GroundProofs ----------------------------
(***************************************************************************)
(* Proofs about GroundOps and MeterState: the types of the variables       *)
(* (TypeCorrect), the alerts of the events (AlertsOnce), the override that *)
(* was asked for (OverrideAsAsked) and the commands that follow the rows   *)
(* (CommandsFollow).                                                       *)
(*                                                                         *)
(* The properties say what holds when nothing is under way, or of events   *)
(* that are processed; none of them is inductive.  The invariants say what *)
(* holds in the middle: AlertInv of what a pass has in hand, OverrideInv   *)
(* of the override that a pass has written and not committed, FollowInv of *)
(* each meter, which is told what it should be, or has an event to come,   *)
(* or the reconcile, or the end of an edit of its tariff.                  *)
(***************************************************************************)
EXTENDS GroundOps, Sums, SequenceTheorems, FunctionTheorems

(* The load limit of a tariff at any hour is one that a tariff may get.    *)
LEMMA LimitIsPower ==
  ASSUME NEW d \in Database, NEW t \in Tariffs
  PROVE  LoadLimit(d, t) \in Powers
<1>1. d.tariffs[t] \in Terms /\ d.hour \in Hours
  BY DEF Database
<1>2. d.tariffs[t].limits \in [Hours -> Powers]
  BY <1>1 DEF Terms
<1> QED BY <1>1, <1>2 DEF LoadLimit

(* A limit is a number, and a command is a setting of the meter.           *)
LEMMA CommandIsSetting ==
  ASSUME NEW d \in Database, NEW r \in Row
  PROVE  Command(d, r) \in Setting
<1>1. d.voltage \in Voltages /\ LoadLimit(d, r.tariff) \in Powers
  <2>1. r.tariff \in Tariffs /\ d.voltage \in Voltages
    BY DEF Database, Row
  <2> QED BY <2>1, LimitIsPower
<1>2. PowerLimit(d, r) \in Limits
  BY <1>1 DEF PowerLimit, Limits
<1>3. (StateValue(d, r) /\ ~d.override) \in BOOLEAN
  BY ZenonT(30) DEF StateValue
<1> QED BY <1>2, <1>3 DEF Command, Setting

(* When _maybe_send_set_config finds no command worth sending, what the    *)
(* meter last reported amounts to what the rows ask for: so a command is   *)
(* missing only where the meter was told something after its last reading. *)
THEOREM SkippedIsInForce ==
  ASSUME NEW d \in Database, NEW r \in Row, ~NeedsUpdate(d, r)
  PROVE  r.known \in Setting /\ Agree(r.known, Command(d, r))
<1>1. r.known \in Setting
  BY DEF NeedsUpdate, Row
<1>2. CASE d.override
  <2>1. ~r.known.on BY <1>2 DEF NeedsUpdate
  <2>2. r.known.on \in BOOLEAN BY <1>1 DEF Setting
  <2>3. ~Command(d, r).on BY <1>2 DEF Command
  <2>4. Command(d, r).on \in BOOLEAN BY CommandIsSetting DEF Setting
  <2> QED BY <1>1, <2>1, <2>2, <2>3, <2>4 DEF Agree
<1>3. CASE ~d.override
  <2>1. r.known.limit = PowerLimit(d, r) /\ r.known.on = StateValue(d, r)
    BY <1>3 DEF NeedsUpdate
  <2>2. StateValue(d, r) \in BOOLEAN
    BY ZenonT(30) DEF StateValue
  <2>3. (StateValue(d, r) /\ ~d.override) = StateValue(d, r)
    BY <1>3, <2>2
  <2>4. Command(d, r).on = StateValue(d, r) /\ Command(d, r).limit = PowerLimit(d, r)
    BY <2>3 DEF Command
  <2> QED BY <1>1, <2>1, <2>4 DEF Agree
<1>4. d.override \in BOOLEAN
  BY DEF Database
<1> QED BY <1>2, <1>3, <1>4

-----------------------------------------------------------------------------
(* Sequences of commands.                                                  *)

Order == [node : Nodes, set : Setting]

(* What a meter will have been told, from what it has been told.           *)
Final(m, q, told_m) == IF Waiting(m, q) = {} THEN told_m ELSE q[Max(Waiting(m, q))].set

(* The sequence of a finite set of values holds each of them.              *)
LEMMA SequenceOfSet ==
  ASSUME NEW S, IsFiniteSet(S)
  PROVE  /\ SetToSeq(S) \in Seq(S)
         /\ \A x \in S : \E i \in DOMAIN SetToSeq(S) : SetToSeq(S)[i] = x
<1> DEFINE n == Cardinality(S)
           s == SetToSeq(S)
<1>1. n \in Nat /\ ExistsBijection(1..n, S)
  BY FS_CardinalityType
<1>2. PICK f \in Bijection(1..n, S) : TRUE
  BY <1>1 DEF ExistsBijection
<1>3. f \in [1..n -> S] /\ IsInjective(f)
  <2>1. f \in [1..n -> S] /\ \A a, b \in 1..n : f[a] = f[b] => a = b
    BY Fun_BijectionProperties
  <2> QED BY <2>1 DEF IsInjective
<1>4. s \in [1..n -> S] /\ IsInjective(s)
  BY <1>3 DEF SetToSeq
<1>5. s \in Injection(1..n, S)
  BY <1>4 DEF Injection, IsInjective
<1>6. IsFiniteSet(1..n) /\ Cardinality(1..n) = n
  BY <1>1, FS_Interval
<1>7. s \in Surjection(1..n, S)
  <2> HIDE DEF s
  <2> QED BY <1>5, <1>6, FS_Injection
<1>8. \A x \in S : \E i \in 1..n : s[i] = x
  BY <1>7 DEF Surjection
<1>9. s \in Seq(S)
  BY <1>1, <1>4
<1> QED BY <1>4, <1>8, <1>9

(* A command for each meter of a set.                                      *)
LEMMA CommandEach ==
  ASSUME NEW ms, IsFiniteSet(ms), NEW c \in [ms -> Order], \A m \in ms : c[m].node = m,
         NEW T, \A m \in ms : c[m] \in T, \A x \in T : \E m \in ms : x = c[m]
  PROVE  /\ SetToSeq(T) \in Seq(Order)
         /\ \A i \in DOMAIN SetToSeq(T) :
              SetToSeq(T)[i].node \in ms /\ SetToSeq(T)[i] = c[SetToSeq(T)[i].node]
         /\ \A m \in ms : \E i \in DOMAIN SetToSeq(T) : SetToSeq(T)[i].node = m
<1> DEFINE cs == SetToSeq(T)
<1>1. IsFiniteSet(T)
  <2>1. c \in Surjection(ms, T)
    BY DEF Surjection
  <2> QED BY <2>1, FS_Surjection
<1>2. cs \in Seq(T) /\ \A x \in T : \E i \in DOMAIN cs : cs[i] = x
  BY <1>1, SequenceOfSet
<1>3. T \subseteq Order
  OBVIOUS
<1> HIDE DEF cs
<1>4. \A i \in DOMAIN cs : cs[i] \in T
  BY <1>2
<1>5. cs \in Seq(Order)
  BY <1>2, <1>3, SeqMonotonic
<1>6. \A i \in DOMAIN cs : cs[i].node \in ms /\ cs[i] = c[cs[i].node]
  BY <1>4
<1>7. \A m \in ms : \E i \in DOMAIN cs : cs[i].node = m
  BY <1>2
<1> QED BY <1>5, <1>6, <1>7 DEF cs

(* The places of the commands for a meter are finitely many numbers.       *)
LEMMA WaitingFinite ==
  ASSUME NEW q \in Seq(Order), NEW m
  PROVE  /\ Waiting(m, q) \subseteq 1..Len(q) /\ IsFiniteSet(Waiting(m, q))
         /\ \A n \in Waiting(m, q) : n \in Int
<1>1. Len(q) \in Nat /\ DOMAIN q = 1..Len(q)
  OBVIOUS
<1>2. IsFiniteSet(1..Len(q))
  BY <1>1, FS_Interval
<1>3. Waiting(m, q) \in SUBSET (1..Len(q))
  BY <1>1 DEF Waiting
<1> QED BY <1>1, <1>2, <1>3, FS_Subset

(* The last of them.                                                       *)
LEMMA LastWaiting ==
  ASSUME NEW q \in Seq(Order), NEW m, Waiting(m, q) # {}
  PROVE  /\ Max(Waiting(m, q)) \in DOMAIN q /\ q[Max(Waiting(m, q))].node = m
         /\ \A i \in Waiting(m, q) : Max(Waiting(m, q)) >= i
<1> DEFINE W == Waiting(m, q)
<1>1. Max(W) \in W /\ \A i \in W : Max(W) >= i
  <2>1. IsFiniteSet(W) /\ W # {} /\ \A n \in W : n \in Int
    BY WaitingFinite
  <2> HIDE DEF W
  <2> QED BY <2>1, MaxOfSet
<1> QED BY <1>1 DEF Waiting

(* Which is known when a place is known that no other comes after.         *)
LEMMA LastIs ==
  ASSUME NEW q \in Seq(Order), NEW m, NEW t, NEW k \in DOMAIN q, q[k].node = m,
         \A i \in DOMAIN q : q[i].node = m => k >= i
  PROVE  Final(m, q, t) = q[k].set
<1>1. k \in Waiting(m, q)
  BY DEF Waiting
<1> DEFINE x == Max(Waiting(m, q))
<1>2. x \in DOMAIN q /\ q[x].node = m /\ x >= k
  BY <1>1, LastWaiting
<1>3. k >= x /\ k \in Int /\ x \in Int
  BY <1>2
<1>4. x = k
  <2> HIDE DEF x
  <2> QED BY <1>2, <1>3
<1> QED BY <1>1, <1>4 DEF Final

(* Commands for other meters, at the end, change nothing.                  *)
LEMMA LastKept ==
  ASSUME NEW q \in Seq(Order), NEW cs \in Seq(Order), NEW m, NEW t,
         \A i \in DOMAIN cs : cs[i].node # m
  PROVE  Final(m, q \o cs, t) = Final(m, q, t) /\ Waiting(m, q \o cs) = Waiting(m, q)
<1> DEFINE a == q \o cs
<1>1. /\ a \in Seq(Order) /\ Len(q) \in Nat /\ Len(cs) \in Nat
      /\ DOMAIN q = 1..Len(q) /\ DOMAIN cs = 1..Len(cs) /\ DOMAIN a = 1..(Len(q) + Len(cs))
      /\ \A i \in DOMAIN a : a[i] = IF i <= Len(q) THEN q[i] ELSE cs[i - Len(q)]
  BY ConcatProperties, LenProperties
<1> HIDE DEF a
<1>2. Waiting(m, a) = Waiting(m, q)
  <2>1. ASSUME NEW i \in Waiting(m, a)
        PROVE  i \in Waiting(m, q)
    <3>1. i \in DOMAIN a /\ a[i].node = m
      BY DEF Waiting
    <3>2. CASE i <= Len(q)
      BY <3>1, <3>2, <1>1 DEF Waiting
    <3>3. CASE ~(i <= Len(q))
      <4>1. i - Len(q) \in DOMAIN cs /\ a[i] = cs[i - Len(q)]
        BY <3>1, <3>3, <1>1
      <4> QED BY <4>1, <3>1
    <3> QED BY <3>2, <3>3
  <2>2. Waiting(m, q) \subseteq Waiting(m, a)
    BY <1>1 DEF Waiting
  <2> QED BY <2>1, <2>2
<1>3. CASE Waiting(m, q) = {}
  BY <1>2, <1>3 DEF Final, a
<1>4. CASE Waiting(m, q) # {}
  <2> DEFINE x == Max(Waiting(m, q))
  <2>1. x \in DOMAIN q
    BY <1>4, LastWaiting
  <2>2. a[x] = q[x]
    <3> HIDE DEF x
    <3> QED BY <1>1, <2>1
  <2> QED BY <1>2, <1>4, <2>2 DEF Final, a
<1> QED BY <1>3, <1>4

(* When a meter gets commands at the end, the last of these counts.        *)
LEMMA LastAdded ==
  ASSUME NEW q \in Seq(Order), NEW cs \in Seq(Order), NEW m, NEW t,
         NEW k \in DOMAIN cs, cs[k].node = m
  PROVE  Final(m, q \o cs, t) = Final(m, cs, None)
<1> DEFINE a == q \o cs
           x == Max(Waiting(m, cs))
<1>1. /\ a \in Seq(Order) /\ Len(q) \in Nat /\ Len(cs) \in Nat
      /\ DOMAIN q = 1..Len(q) /\ DOMAIN cs = 1..Len(cs) /\ DOMAIN a = 1..(Len(q) + Len(cs))
      /\ \A i \in DOMAIN a : a[i] = IF i <= Len(q) THEN q[i] ELSE cs[i - Len(q)]
  BY ConcatProperties, LenProperties
<1>2. Waiting(m, cs) # {}
  BY DEF Waiting
<1>3. x \in DOMAIN cs /\ cs[x].node = m /\ \A i \in Waiting(m, cs) : x >= i
  BY <1>2, LastWaiting
<1> HIDE DEF a, x
<1>4. Len(q) + x \in DOMAIN a /\ a[Len(q) + x] = cs[x]
  BY <1>1, <1>3
<1>5. \A i \in DOMAIN a : a[i].node = m => Len(q) + x >= i
  <2> SUFFICES ASSUME NEW i \in DOMAIN a, a[i].node = m
               PROVE  Len(q) + x >= i
    OBVIOUS
  <2>1. CASE i <= Len(q)
    BY <2>1, <1>1, <1>3
  <2>2. CASE ~(i <= Len(q))
    <3>1. i - Len(q) \in Waiting(m, cs)
      BY <2>2, <1>1 DEF Waiting
    <3>2. x >= i - Len(q) /\ x \in Int /\ i \in Int
      BY <3>1, <1>1, <1>3
    <3> QED BY <3>2, <1>1
  <2> QED BY <2>1, <2>2
<1>6. Final(m, a, t) = cs[x].set
  <2> DEFINE n == Len(q) + x
  <2>1. n \in DOMAIN a /\ a[n] = cs[x] /\ a[n].node = m
    BY <1>3, <1>4
  <2>2. \A i \in DOMAIN a : a[i].node = m => n >= i
    BY <1>5
  <2>3. a \in Seq(Order)
    BY <1>1
  <2> HIDE DEF n
  <2>4. Final(m, a, t) = a[n].set
    BY <2>1, <2>2, <2>3, LastIs
  <2> QED BY <2>1, <2>4
<1> QED BY <1>2, <1>6 DEF Final, a, x

(* The first command of the queue, taken.                                  *)
LEMMA LastTaken ==
  ASSUME NEW q \in Seq(Order), q # <<>>, NEW m, NEW t
  PROVE  /\ Final(m, Tail(q), IF Head(q).node = m THEN Head(q).set ELSE t) = Final(m, q, t)
         /\ Waiting(m, q) = {} => Waiting(m, Tail(q)) = {}
<1> DEFINE b == Tail(q)
<1>1. /\ b \in Seq(Order) /\ Len(q) \in Nat /\ Len(q) > 0 /\ Len(b) = Len(q) - 1
      /\ DOMAIN q = 1..Len(q) /\ DOMAIN b = 1..(Len(q) - 1)
      /\ \A i \in DOMAIN b : b[i] = q[i + 1]
      /\ Head(q) = q[1]
  BY HeadTailProperties, LenProperties
<1> HIDE DEF b
<1>2. \A i \in Waiting(m, b) : i \in DOMAIN b /\ i + 1 \in Waiting(m, q)
  BY <1>1 DEF Waiting
<1>3. CASE Waiting(m, b) # {}
  <2> DEFINE x == Max(Waiting(m, b))
  <2>1. x \in DOMAIN b /\ b[x].node = m /\ \A i \in Waiting(m, b) : x >= i
    BY <1>1, <1>3, LastWaiting
  <2> HIDE DEF x
  <2>2. x + 1 \in DOMAIN q /\ q[x + 1] = b[x]
    BY <1>1, <2>1
  <2>3. \A i \in DOMAIN q : q[i].node = m => x + 1 >= i
    <3> SUFFICES ASSUME NEW i \in DOMAIN q, q[i].node = m
                 PROVE  x + 1 >= i
      OBVIOUS
    <3>1. CASE i = 1
      BY <3>1, <1>1, <2>1
    <3>2. CASE i # 1
      <4>1. i - 1 \in DOMAIN b /\ b[i - 1] = q[i]
        BY <3>2, <1>1
      <4>2. x >= i - 1 /\ x \in Int /\ i \in Int
        BY <4>1, <1>1, <2>1 DEF Waiting
      <4> QED BY <4>2
    <3> QED BY <3>1, <3>2
  <2>4. Final(m, q, t) = q[x + 1].set
    BY <2>1, <2>2, <2>3, LastIs
  <2>5. Waiting(m, q) # {}
    BY <1>2, <1>3
  <2> QED BY <1>3, <2>2, <2>4, <2>5 DEF Final, b, x
<1>4. CASE Waiting(m, b) = {}
  <2>1. \A i \in DOMAIN q : q[i].node = m => 1 >= i
    <3> SUFFICES ASSUME NEW i \in DOMAIN q, q[i].node = m, i # 1
                 PROVE  FALSE
      BY <1>1
    <3>1. i - 1 \in DOMAIN b /\ b[i - 1] = q[i]
      BY <1>1
    <3> QED BY <3>1, <1>4 DEF Waiting
  <2>2. CASE Head(q).node = m
    <3>1. 1 \in DOMAIN q /\ q[1].node = m
      BY <1>1, <2>2
    <3>2. Final(m, q, t) = q[1].set
      BY <2>1, <3>1, LastIs
    <3>3. Waiting(m, q) # {}
      BY <3>1 DEF Waiting
    <3> QED BY <1>1, <1>4, <2>2, <3>2, <3>3 DEF Final, b
  <2>3. CASE Head(q).node # m
    <3>1. Waiting(m, q) = {}
      BY <1>1, <2>1, <2>3 DEF Waiting
    <3> QED BY <1>4, <2>3, <3>1 DEF Final, b
  <2> QED BY <2>2, <2>3
<1> QED BY <1>3, <1>4 DEF b

-----------------------------------------------------------------------------
(* The types, in more detail than TypeOK has them: what a pass holds on to *)
(* are events that exist, a pass that has written the override knows what  *)
(* it wrote, and no command waits for a loop that is not registered.       *)

EventRecord == [kind : Kinds, of : Nodes \cup Tariffs \cup {None}, done : BOOLEAN, alerts : Nat]

Sighting == [rows : [Nodes -> {None} \cup Row], tariffs : [Tariffs -> {None} \cup Terms],
             override : {None} \cup BOOLEAN]

PassRecord == [on : BOOLEAN, todo : SUBSET Nat, drafted : SUBSET Nat, zeroing : Nat,
               dirty : BOOLEAN, seen : Sighting]

OfMeter(e) == e.kind \in {"changed", "paid", "zero"}

EventsTyped ==
  /\ events \in Seq(EventRecord)
  /\ \A i \in DOMAIN events : OfMeter(events[i]) => events[i].of \in Nodes

PassTyped ==
  /\ pass \in PassRecord
  /\ pass.todo \subseteq DOMAIN events /\ pass.drafted \subseteq DOMAIN events
  /\ pass.zeroing \in {0} \cup DOMAIN events
  /\ pass.dirty => pass.seen.override \in BOOLEAN
  /\ ~pass.on => pass = Idle

Rosters == UNION {[ms -> Setting] : ms \in SUBSET Nodes}

Reconciles ==
  {NoReconcile, Owed(TRUE), Owed(FALSE)}
  \cup [phase : {"sending"}, resumes : BOOLEAN, left : Rosters]

LinkTyped ==
  /\ queue \in Seq(Order) /\ told \in [Nodes -> {None} \cup Setting]
  /\ listening \in BOOLEAN /\ allowed \in BOOLEAN
  /\ ~listening => queue = <<>>
  /\ recon \in Reconciles
  /\ DOMAIN recon.left \subseteq Nodes /\ \A m \in DOMAIN recon.left : recon.left[m] \in Setting
  /\ gone \subseteq Nodes /\ gap \subseteq Nodes

(* The events about meters are about meters that exist or did.             *)
EventsPlaced ==
  \A i \in DOMAIN events : OfMeter(events[i]) => events[i].of \in Existing(db) \cup gone

TypeInv == db \in Database /\ EventsTyped /\ PassTyped /\ LinkTyped /\ EventsPlaced

(* Idle is a pass, and the events and commands of the model are such.      *)
LEMMA IdleIsPass == Idle \in PassRecord
BY DEF Idle, PassRecord, Sighting

LEMMA EventIsEvent ==
  ASSUME NEW k \in Kinds, NEW x \in Nodes \cup Tariffs \cup {None}
  PROVE  /\ Event(k, x) \in EventRecord /\ DoneEvent(k, x) \in EventRecord
         /\ Event(k, x).kind = k /\ Event(k, x).of = x
         /\ ~Event(k, x).done /\ Event(k, x).alerts = 0
         /\ DoneEvent(k, x).kind = k /\ DoneEvent(k, x).of = x /\ DoneEvent(k, x).done
         /\ DoneEvent(k, x).alerts = IF k \in Alerting THEN 1 ELSE 0
BY DEF Event, DoneEvent, EventRecord

(* Rows may change one at a time.                                          *)
LEMMA RowChanged ==
  ASSUME NEW d \in Database, NEW m \in Nodes, NEW r \in {None} \cup Row
  PROVE  [d EXCEPT !.rows[m] = r] \in Database
BY DEF Database

(* A meter that exists has a row.                                          *)
LEMMA ExistingRow ==
  ASSUME NEW d \in Database, NEW m \in Existing(d)
  PROVE  m \in Nodes /\ d.rows[m] \in Row
BY DEF Database, Existing

LEMMA WantedIsSetting ==
  ASSUME NEW d \in Database, NEW m \in Existing(d)
  PROVE  Wanted(d, m) \in Setting /\ Configure(d, m) \in Order
         /\ Configure(d, m).node = m /\ Configure(d, m).set = Wanted(d, m)
<1>1. m \in Nodes /\ d.rows[m] \in Row
  BY ExistingRow
<1>2. Command(d, d.rows[m]) \in Setting
  BY <1>1, CommandIsSetting
<1> QED BY <1>1, <1>2 DEF Wanted, Configure, Order

(* What the ground will ask for is a database with the same meters.        *)
LEMMA IntendedIsDatabase ==
  ASSUME NEW d \in Database, NEW p \in PassRecord, p.dirty => p.seen.override \in BOOLEAN
  PROVE  /\ Intended(d, p) \in Database /\ Intended(d, p).rows = d.rows
         /\ Existing(Intended(d, p)) = Existing(d)
         /\ Intended(d, p).override = IF p.dirty THEN p.seen.override ELSE d.override
         /\ ~p.dirty => Intended(d, p) = d
BY DEF Intended, Database, Existing, PassRecord

(* Wanted depends on the row of the meter, the override, the tariffs, the  *)
(* hour and the voltage.                                                   *)
LEMMA WantedSame ==
  ASSUME NEW d, NEW e, NEW m, d.rows[m] = e.rows[m], d.override = e.override,
         d.tariffs = e.tariffs, d.voltage = e.voltage, d.hour = e.hour
  PROVE  Wanted(d, m) = Wanted(e, m)
BY DEF Wanted, Command, PowerLimit, LoadLimit, StateValue

-----------------------------------------------------------------------------
(* The lists of commands that the handlers send.                           *)

Addressed(cs) == {cs[i].node : i \in DOMAIN cs}

(* cs addresses just the meters of ms, and the last command of each is     *)
(* what d asks for.                                                        *)
Tells(cs, d, ms) ==
  /\ cs \in Seq(Order) /\ Addressed(cs) = ms
  /\ \A m \in ms : Final(m, cs, None) = Wanted(d, m)

LEMMA TellEach ==
  ASSUME NEW d \in Database, NEW ms \in SUBSET Existing(d)
  PROVE  LET cs == SetToSeq({Configure(d, m) : m \in ms})
         IN  Tells(cs, d, ms) /\ \A i \in DOMAIN cs : cs[i].set = Wanted(d, cs[i].node)
<1> DEFINE c == [m \in ms |-> Configure(d, m)]
           T == {Configure(d, m) : m \in ms}
           cs == SetToSeq(T)
<1>1. IsFiniteSet(ms)
  <2>1. ms \in SUBSET Nodes
    BY DEF Existing
  <2> QED BY <2>1, OpsAssumption, FS_Subset
<1>2. c \in [ms -> Order] /\ \A m \in ms : c[m].node = m /\ c[m].set = Wanted(d, m)
  <2>1. \A m \in ms : Configure(d, m) \in Order /\ Configure(d, m).node = m
                      /\ Configure(d, m).set = Wanted(d, m)
    BY WantedIsSetting
  <2> QED BY <2>1
<1>3. /\ cs \in Seq(Order)
      /\ \A i \in DOMAIN cs : cs[i].node \in ms /\ cs[i] = c[cs[i].node]
      /\ \A m \in ms : \E i \in DOMAIN cs : cs[i].node = m
  <2>1. (\A m \in ms : c[m] \in T) /\ (\A x \in T : \E m \in ms : x = c[m])
    OBVIOUS
  <2> HIDE DEF c, T
  <2> QED BY <1>1, <1>2, <2>1, CommandEach
<1> HIDE DEF cs, T
<1>5. \A i \in DOMAIN cs : cs[i].node \in ms /\ cs[i].set = Wanted(d, cs[i].node)
  <2> HIDE DEF c
  <2> QED BY <1>2, <1>3
<1>6. Addressed(cs) = ms
  BY <1>3 DEF Addressed
<1>7. ASSUME NEW m \in ms
      PROVE  Final(m, cs, None) = Wanted(d, m)
  <2>1. Waiting(m, cs) # {}
    BY <1>3 DEF Waiting
  <2> DEFINE x == Max(Waiting(m, cs))
  <2>2. x \in DOMAIN cs /\ cs[x].node = m
    BY <1>3, <2>1, LastWaiting
  <2>3. cs[x].set = Wanted(d, m)
    <3> HIDE DEF x
    <3> QED BY <1>5, <2>2
  <2> QED BY <2>1, <2>3 DEF Final
<1>8. Tells(cs, d, ms) /\ \A i \in DOMAIN cs : cs[i].set = Wanted(d, cs[i].node)
  BY <1>3, <1>5, <1>6, <1>7 DEF Tells
<1> QED BY <1>8 DEF cs, T

LEMMA TellOne ==
  ASSUME NEW d \in Database, NEW m \in Existing(d)
  PROVE  Tells(<<Configure(d, m)>>, d, {m})
<1> DEFINE c == Configure(d, m)
           cs == <<c>>
<1>1. c \in Order /\ c.node = m /\ c.set = Wanted(d, m)
  BY WantedIsSetting
<1> HIDE DEF c
<1>2. cs \in Seq(Order) /\ DOMAIN cs = {1} /\ cs[1] = c
  BY <1>1
<1> HIDE DEF cs
<1>3. Final(m, cs, None) = Wanted(d, m)
  <2>1. PICK k \in {1} : TRUE
    OBVIOUS
  <2>2. k \in DOMAIN cs /\ cs[k].node = m /\ cs[k].set = Wanted(d, m)
    BY <1>1, <1>2
  <2>3. \A i \in DOMAIN cs : cs[i].node = m => k >= i
    BY <1>2
  <2>4. cs \in Seq(Order)
    BY <1>2
  <2>5. Final(m, cs, None) = cs[k].set
    BY <2>2, <2>3, <2>4, LastIs
  <2> QED BY <2>2, <2>5
<1>4. Tells(cs, d, {m})
  BY <1>1, <1>2, <1>3 DEF Tells, Addressed
<1> QED BY <1>4 DEF cs, c

(* One list after another.                                                 *)
LEMMA AddressedBoth ==
  ASSUME NEW a \in Seq(Order), NEW b \in Seq(Order)
  PROVE  a \o b \in Seq(Order) /\ Addressed(a \o b) = Addressed(a) \cup Addressed(b)
<1> DEFINE c == a \o b
<1>1. /\ c \in Seq(Order) /\ Len(a) \in Nat /\ Len(b) \in Nat
      /\ DOMAIN a = 1..Len(a) /\ DOMAIN b = 1..Len(b) /\ DOMAIN c = 1..(Len(a) + Len(b))
      /\ \A i \in DOMAIN c : c[i] = IF i <= Len(a) THEN a[i] ELSE b[i - Len(a)]
  BY ConcatProperties, LenProperties
<1> HIDE DEF c
<1>2. ASSUME NEW i \in DOMAIN c
      PROVE  c[i].node \in Addressed(a) \cup Addressed(b)
  <2>1. CASE i <= Len(a)
    BY <2>1, <1>1 DEF Addressed
  <2>2. CASE ~(i <= Len(a))
    <3>1. i - Len(a) \in DOMAIN b /\ c[i] = b[i - Len(a)]
      BY <2>2, <1>1
    <3> QED BY <3>1 DEF Addressed
  <2> QED BY <2>1, <2>2
<1>3. ASSUME NEW i \in DOMAIN a
      PROVE  a[i].node \in Addressed(c)
  <2>1. i \in DOMAIN c /\ c[i] = a[i]
    BY <1>1
  <2> QED BY <2>1 DEF Addressed
<1>4. ASSUME NEW i \in DOMAIN b
      PROVE  b[i].node \in Addressed(c)
  <2>1. Len(a) + i \in DOMAIN c /\ c[Len(a) + i] = b[i]
    <3>1. Len(a) + i \in 1..(Len(a) + Len(b)) /\ ~(Len(a) + i <= Len(a)) /\ (Len(a) + i) - Len(a) = i
      BY <1>1
    <3> QED BY <1>1, <3>1
  <2> QED BY <2>1 DEF Addressed
<1>5. Addressed(c) = Addressed(a) \cup Addressed(b)
  BY <1>2, <1>3, <1>4 DEF Addressed
<1> QED BY <1>1, <1>5 DEF c

LEMMA TellLater ==
  ASSUME NEW a \in Seq(Order), NEW b, NEW d, NEW ms, Tells(b, d, ms), NEW m \in ms
  PROVE  Final(m, a \o b, None) = Wanted(d, m)
<1>1. b \in Seq(Order) /\ Final(m, b, None) = Wanted(d, m) /\ \E k \in DOMAIN b : b[k].node = m
  BY DEF Tells, Addressed
<1> QED BY <1>1, LastAdded, ZenonT(60)

LEMMA TellBoth ==
  ASSUME NEW a, NEW b, NEW d, NEW A, NEW B, Tells(a, d, A), Tells(b, d, B)
  PROVE  Tells(a \o b, d, A \cup B)
<1>1. a \in Seq(Order) /\ b \in Seq(Order) /\ Addressed(a) = A /\ Addressed(b) = B
  BY DEF Tells
<1>2. a \o b \in Seq(Order) /\ Addressed(a \o b) = A \cup B
  BY <1>1, AddressedBoth
<1>3. ASSUME NEW m \in A \cup B
      PROVE  Final(m, a \o b, None) = Wanted(d, m)
  <2>1. CASE m \in B
    BY <1>1, <2>1, TellLater
  <2>2. CASE m \notin B
    <3>1. \A i \in DOMAIN b : b[i].node # m
      BY <1>1, <2>2 DEF Addressed
    <3>2. Final(m, a \o b, None) = Final(m, a, None)
      BY <1>1, <3>1, LastKept
    <3> QED BY <2>2, <3>2 DEF Tells
  <2> QED BY <2>1, <2>2
<1> QED BY <1>2, <1>3 DEF Tells

(* A change of the override: every meter that is not hidden is told what   *)
(* is wanted, whatever the broadcast told it first.                        *)
LEMMA TellAll ==
  ASSUME NEW d \in Database, Existing(db) \subseteq Existing(d)
  PROVE  Tells(UpdateAll(d), d, Existing(db) \ Hidden)
<1> DEFINE active == Existing(db) \ Hidden
           A == Worth(d, active)
           B == active \ A
<1>1. A \in SUBSET Existing(d) /\ B \in SUBSET Existing(d) /\ A \cup B = active
  BY DEF Worth
<1>2. UpdateAll(d) = SetToSeq({Configure(d, m) : m \in A}) \o SetToSeq({Configure(d, m) : m \in B})
  BY DEF UpdateAll
<1> HIDE DEF A, B, active
<1>3. /\ Tells(SetToSeq({Configure(d, m) : m \in A}), d, A)
      /\ Tells(SetToSeq({Configure(d, m) : m \in B}), d, B)
  BY <1>1, TellEach
<1>4. Tells(UpdateAll(d), d, A \cup B)
  BY <1>2, <1>3, TellBoth
<1> QED BY <1>1, <1>4 DEF active

LEMMA TellSwitch ==
  ASSUME NEW d \in Database, Existing(db) \subseteq Existing(d)
  PROVE  /\ SwitchOverride(d) \in Seq(Order)
         /\ Addressed(SwitchOverride(d)) \subseteq Existing(db)
         /\ Existing(db) \ Hidden \subseteq Addressed(SwitchOverride(d))
         /\ \A m \in Existing(db) \ Hidden : Final(m, SwitchOverride(d), None) = Wanted(d, m)
<1> DEFINE ms == Existing(db)
           c == [m \in ms |-> Disable(m)]
           off == SetToSeq({Disable(m) : m \in ms})
           first == IF d.override /\ Broadcast THEN off ELSE <<>>
           u == UpdateAll(d)
<1>1. off \in Seq(Order) /\ Addressed(off) \subseteq ms
  <2>1. IsFiniteSet(ms)
    <3>1. ms \in SUBSET Nodes
      BY DEF Existing
    <3> QED BY <3>1, OpsAssumption, FS_Subset
  <2>2. c \in [ms -> Order] /\ \A m \in ms : c[m].node = m
    <3>1. \A m \in ms : Disable(m) \in Order /\ Disable(m).node = m
      <4>1. ms \subseteq Nodes
        BY DEF Existing
      <4> QED BY <4>1 DEF Disable, Order, Setting, Limits
    <3> QED BY <3>1
  <2> DEFINE T == {Disable(m) : m \in ms}
             cs == SetToSeq(T)
  <2>3. (\A m \in ms : c[m] \in T) /\ (\A x \in T : \E m \in ms : x = c[m])
    OBVIOUS
  <2>4. cs \in Seq(Order) /\ \A i \in DOMAIN cs : cs[i].node \in ms
    <3> HIDE DEF c, T, ms
    <3> QED BY <2>1, <2>2, <2>3, CommandEach
  <2>5. Addressed(cs) \subseteq ms
    <3> HIDE DEF cs, ms
    <3> QED BY <2>4 DEF Addressed
  <2> QED BY <2>4, <2>5
<1>2. first \in Seq(Order) /\ Addressed(first) \subseteq ms
  <2>1. <<>> \in Seq(Order) /\ Addressed(<<>>) = {}
    BY DEF Addressed
  <2> HIDE DEF off
  <2> QED BY <1>1, <2>1
<1>3. Tells(u, d, ms \ Hidden)
  BY TellAll
<1>4. u \in Seq(Order) /\ Addressed(u) = ms \ Hidden
  BY <1>3 DEF Tells
<1>5. SwitchOverride(d) = first \o u
  BY DEF SwitchOverride
<1> HIDE DEF first, u, ms
<1>6. first \o u \in Seq(Order) /\ Addressed(first \o u) = Addressed(first) \cup Addressed(u)
  BY <1>2, <1>4, AddressedBoth
<1>7. \A m \in ms \ Hidden : Final(m, first \o u, None) = Wanted(d, m)
  BY <1>2, <1>3, TellLater
<1> QED BY <1>2, <1>4, <1>5, <1>6, <1>7 DEF ms

-----------------------------------------------------------------------------
(* What enqueue_command makes of the queue and of the meters lost sight of *)
(* (g), when the ground asks for D and the meters have been told t.        *)

(* The command c amounts to what d asks for.                               *)
Fine(c, d, m) == c # None /\ Agree(c, Wanted(d, m))

NotFine(ms, q, t, d) == {m \in ms : ~Fine(Final(m, q, t[m]), d, m)}

Sends(q, q2, g, g2, t, on, D, cs, lost) ==
  LET reached == Addressed(cs) \cap Existing(D)
  IN  /\ q2 = IF on THEN q \o cs ELSE q
      /\ g2 = (g \ (reached \ NotFine(reached, q2, t, D))) \cup NotFine(lost, q2, t, D)

(* A meter that is not lost sight of has been told what it should be, or   *)
(* there is no loop, or the commands do not concern it; provided that they *)
(* say what they should to the meters that are not given up.               *)
LEMMA SendsTells ==
  ASSUME NEW q \in Seq(Order), NEW cs \in Seq(Order), NEW on \in BOOLEAN,
         NEW g, NEW lost, NEW q2, NEW g2, NEW t, NEW D,
         Sends(q, q2, g, g2, t, on, D, cs, lost),
         NEW m \in Existing(D), m \notin g2,
         m \in Addressed(cs) \ lost => Fine(Final(m, cs, None), D, m)
  PROVE  \/ Fine(Final(m, q2, t[m]), D, m)
         \/ ~on
         \/ /\ m \notin g /\ m \notin lost /\ m \notin Addressed(cs)
            /\ Final(m, q2, t[m]) = Final(m, q, t[m])
            /\ Waiting(m, q2) = Waiting(m, q)
<1> SUFFICES ASSUME ~Fine(Final(m, q2, t[m]), D, m), on
             PROVE  /\ m \notin g /\ m \notin lost /\ m \notin Addressed(cs)
                    /\ Final(m, q2, t[m]) = Final(m, q, t[m])
                    /\ Waiting(m, q2) = Waiting(m, q)
  OBVIOUS
<1>1. m \notin g /\ m \notin lost /\ q2 = q \o cs
  BY DEF Sends, NotFine
<1>2. m \notin Addressed(cs)
  <2>1. SUFFICES ASSUME m \in Addressed(cs) PROVE FALSE OBVIOUS
  <2>2. PICK k \in DOMAIN cs : cs[k].node = m
    BY <2>1 DEF Addressed
  <2> DEFINE c == t[m]
  <2>3. Final(m, q \o cs, c) = Final(m, cs, None)
    <3> HIDE DEF c
    <3> QED BY <2>2, LastAdded
  <2> QED BY <1>1, <2>1, <2>3
<1>3. \A i \in DOMAIN cs : cs[i].node # m
  BY <1>2 DEF Addressed
<1> QED BY <1>1, <1>2, <1>3, LastKept

-----------------------------------------------------------------------------
(* Every step keeps the types.                                             *)

(* An event more.                                                          *)
LEMMA Appended ==
  ASSUME NEW s \in Seq(EventRecord), NEW e \in EventRecord, NEW u, u = Append(s, e)
  PROVE  /\ u \in Seq(EventRecord) /\ Len(s) + 1 \notin DOMAIN s
         /\ DOMAIN u = DOMAIN s \cup {Len(s) + 1}
         /\ \A i \in DOMAIN s : u[i] = s[i]
         /\ u[Len(s) + 1] = e
<1>1. /\ u \in Seq(EventRecord) /\ Len(u) = Len(s) + 1
      /\ \A i \in 1..Len(s) : u[i] = s[i]
      /\ u[Len(s) + 1] = e
  BY AppendProperties
<1>2. Len(s) \in Nat /\ DOMAIN s = 1..Len(s) /\ DOMAIN u = 1..Len(u)
  BY <1>1, LenProperties
<1> QED BY <1>1, <1>2

LEMMA TypedByEvent ==
  ASSUME TypeInv, NEW e \in EventRecord, OfMeter(e) => e.of \in Existing(db),
         events' = Append(events, e), pass' = pass,
         Existing(db') = Existing(db), gone' = gone
  PROVE  EventsTyped' /\ PassTyped' /\ EventsPlaced'
<1>1. /\ events' \in Seq(EventRecord)
      /\ DOMAIN events' = DOMAIN events \cup {Len(events) + 1}
      /\ \A i \in DOMAIN events : events'[i] = events[i]
      /\ events'[Len(events) + 1] = e
  BY Appended DEF TypeInv, EventsTyped
<1>2. e.of \in Existing(db) => e.of \in Nodes
  BY DEF Existing
<1>3. EventsTyped'
  BY <1>1, <1>2 DEF TypeInv, EventsTyped
<1>4. EventsPlaced'
  BY <1>1 DEF TypeInv, EventsPlaced
<1>5. PassTyped'
  BY <1>1 DEF TypeInv, PassTyped
<1> QED BY <1>3, <1>4, <1>5

LEMMA SetModeTyped ==
  ASSUME TypeInv, NEW m \in Nodes, NEW mode \in Modes, SetMode(m, mode)
  PROVE  TypeInv'
<1> USE DEF SetMode
<1>1. db.rows[m] \in Row /\ db \in Database
  BY ExistingRow DEF TypeInv
<1>2. [db.rows[m] EXCEPT !.mode = mode] \in Row
  BY <1>1 DEF Row
<1>3. db' \in Database
  BY <1>1, <1>2 DEF Database
<1>4. Existing(db') = Existing(db)
  BY <1>1, <1>2, NoneAssumption DEF Existing, Database
<1>5. Event("changed", m) \in EventRecord /\ Event("changed", m).of = m
  BY EventIsEvent DEF Kinds
<1>6. EventsTyped' /\ PassTyped' /\ EventsPlaced'
  BY <1>4, <1>5, TypedByEvent
<1> QED BY <1>3, <1>6 DEF TypeInv, LinkTyped, NoCommand, Others

LEMMA JustEventTyped ==
  ASSUME TypeInv, NEW e \in EventRecord, OfMeter(e) => e.of \in Existing(db),
         events' = Append(events, e), UNCHANGED <<db, pass, queue, gap, gone>>, Others
  PROVE  TypeInv'
<1>1. EventsTyped' /\ PassTyped' /\ EventsPlaced'
  BY TypedByEvent
<1> QED BY <1>1 DEF TypeInv, LinkTyped, Others

LEMMA ResetMeterTyped ==
  ASSUME TypeInv, NEW m \in Nodes, ResetMeter(m)
  PROVE  TypeInv'
<1>1. Event("changed", m) \in EventRecord /\ Event("changed", m).of = m
  BY EventIsEvent DEF Kinds
<1> QED BY <1>1, JustEventTyped DEF ResetMeter, NoCommand

LEMMA RequestZeroTyped ==
  ASSUME TypeInv, NEW m \in Nodes, RequestZero(m)
  PROVE  TypeInv'
<1>1. Event("zero", m) \in EventRecord /\ Event("zero", m).of = m
  BY EventIsEvent DEF Kinds
<1> QED BY <1>1, JustEventTyped DEF RequestZero, NoCommand

LEMMA RequestOverrideTyped ==
  ASSUME TypeInv, NEW o \in BOOLEAN, RequestOverride(o)
  PROVE  TypeInv'
<1> DEFINE e == Event(IF o THEN "on" ELSE "off", None)
<1>1. e \in EventRecord /\ e.kind \in {"on", "off"}
  BY EventIsEvent DEF Kinds
<1>2. ~OfMeter(e)
  BY <1>1 DEF OfMeter
<1> QED BY <1>1, <1>2, JustEventTyped DEF RequestOverride, NoCommand

LEMMA ChangeVoltageTyped ==
  ASSUME TypeInv, NEW v \in Voltages, ChangeVoltage(v)
  PROVE  TypeInv'
<1> DEFINE e == Event("voltage", None)
<1>1. e \in EventRecord /\ ~OfMeter(e)
  BY EventIsEvent DEF Kinds, OfMeter
<1>2. db' \in Database /\ Existing(db') = Existing(db)
  BY DEF ChangeVoltage, TypeInv, Database, Existing
<1>3. EventsTyped' /\ PassTyped' /\ EventsPlaced'
  BY <1>1, <1>2, TypedByEvent DEF ChangeVoltage
<1> QED BY <1>2, <1>3 DEF ChangeVoltage, TypeInv, LinkTyped, NoCommand, Others

-----------------------------------------------------------------------------
(* The requests that send commands.  Each sends a list cs and gives up on  *)
(* the meters lost, and to those that it does not give up on it says what  *)
(* the ground asks for.                                                    *)

Sent(cs, lost) ==
  LET D == Intended(db', pass')
  IN  /\ cs \in Seq(Order) /\ lost \in SUBSET Nodes
      /\ Sends(queue, queue', gap, gap', told, listening, D, cs, lost)
      /\ \A m \in Existing(D) : m \in Addressed(cs) \ lost => Fine(Final(m, cs, None), D, m)

LEMMA SentTyped ==
  ASSUME TypeInv, NEW cs, NEW lost, Sent(cs, lost),
         UNCHANGED <<listening, allowed, recon, told, gone>>
  PROVE  LinkTyped'
<1>1. queue' \in Seq(Order) /\ (~listening => queue' = <<>>)
  <2>1. queue' = IF listening THEN queue \o cs ELSE queue
    BY DEF Sent, Sends
  <2>2. queue \in Seq(Order) /\ cs \in Seq(Order) /\ (~listening => queue = <<>>)
    BY DEF TypeInv, LinkTyped, Sent
  <2>3. queue \o cs \in Seq(Order)
    BY <2>2, ConcatProperties
  <2> QED BY <2>1, <2>2, <2>3
<1>2. gap' \subseteq Nodes
  BY DEF TypeInv, LinkTyped, Sent, Sends, NotFine
<1> QED BY <1>1, <1>2 DEF TypeInv, LinkTyped

LEMMA FineWanted ==
  ASSUME NEW d \in Database, NEW m \in Existing(d)
  PROVE  Fine(Wanted(d, m), d, m)
<1>1. Wanted(d, m) \in Setting
  BY WantedIsSetting
<1> QED BY <1>1, NoneAssumption DEF Fine, Agree

(* The rows the pass will leave have the types of rows.                    *)
LEMMA IntendedNext ==
  ASSUME db' \in Database, PassTyped'
  PROVE  /\ Intended(db', pass') \in Database
         /\ Existing(Intended(db', pass')) = Existing(db')
         /\ Intended(db', pass').rows = db'.rows
         /\ Intended(db', pass').override = IF pass'.dirty THEN pass'.seen.override ELSE db'.override
         /\ ~pass'.dirty => Intended(db', pass') = db'
BY IntendedIsDatabase DEF PassTyped

LEMMA IntendedNow ==
  ASSUME TypeInv
  PROVE  /\ Intended(db, pass) \in Database
         /\ Existing(Intended(db, pass)) = Existing(db)
         /\ Intended(db, pass).rows = db.rows
         /\ Intended(db, pass).override = IF pass.dirty THEN pass.seen.override ELSE db.override
         /\ ~pass.dirty => Intended(db, pass) = db
BY IntendedIsDatabase DEF TypeInv, PassTyped

(* n copies of a value.                                                    *)
LEMMA Copies ==
  ASSUME NEW S, NEW n \in Nat, NEW x \in S
  PROVE  /\ [i \in 1..n |-> x] \in Seq(S)
         /\ \A i \in DOMAIN [j \in 1..n |-> x] : [j \in 1..n |-> x][i] = x
OBVIOUS

LEMMA EditMeterTyped ==
  ASSUME TypeInv, NEW m \in Nodes, NEW mode \in Modes, NEW t \in Tariffs, NEW h \in BOOLEAN,
         EditMeter(m, mode, t, h)
  PROVE  /\ TypeInv' /\ Existing(db') = Existing(db)
         /\ \E cs : Sent(cs, {m}) /\ Addressed(cs) \subseteq {m}
<1> DEFINE r == db.rows[m]
           n == (IF mode # r.mode THEN 1 ELSE 0) + (IF t # r.tariff THEN 1 ELSE 0)
           e == DoneEvent("changed", m)
           es == [i \in 1..n |-> e]
           c == Configure(db, m)
           cs == [i \in 1..n |-> c]
<1>1. r \in Row /\ db \in Database /\ m \in Existing(db) /\ n \in Nat
  BY ExistingRow DEF TypeInv, EditMeter
<1>2. db' \in Database /\ Existing(db') = Existing(db)
  <2> DEFINE r2 == [r EXCEPT !.mode = mode, !.tariff = t, !.hidden = h]
  <2>1. r2 \in Row
    BY <1>1 DEF Row
  <2>2. db' = [db EXCEPT !.rows[m] = r2]
    BY <1>1 DEF EditMeter, Database
  <2> HIDE DEF r2
  <2> QED BY <1>1, <2>1, <2>2, NoneAssumption DEF Existing, Database
<1>3. e \in EventRecord /\ e.of = m
  BY EventIsEvent DEF Kinds
<1>4. c \in Order /\ c.node = m
  BY <1>1, WantedIsSetting
<1>5. events' = events \o es /\ pass' = pass
  BY DEF EditMeter
<1>6. Sends(queue, queue', gap, gap', told, listening, Intended(db', pass'), cs, {m})
  BY DEF EditMeter, Enqueue, Sends, Addressed, NotFine, Misled, LastTold, Final, Fine
<1> HIDE DEF n, c, e, r
<1>7. es \in Seq(EventRecord) /\ \A i \in DOMAIN es : es[i] = e
  BY <1>1, <1>3, Copies
<1>8. cs \in Seq(Order) /\ \A i \in DOMAIN cs : cs[i] = c
  BY <1>1, <1>4, Copies
<1> HIDE DEF es, cs
<1>9. /\ events' \in Seq(EventRecord) /\ DOMAIN events \subseteq DOMAIN events'
      /\ \A i \in DOMAIN events : events'[i] = events[i]
      /\ \A i \in DOMAIN events' \ DOMAIN events : events'[i] = e
  <2>1. events \in Seq(EventRecord)
    BY DEF TypeInv, EventsTyped
  <2>2. /\ events' \in Seq(EventRecord) /\ Len(events') = Len(events) + Len(es)
        /\ \A i \in 1..(Len(events) + Len(es)) :
             events'[i] = IF i <= Len(events) THEN events[i] ELSE es[i - Len(events)]
    BY <1>5, <1>7, <2>1, ConcatProperties
  <2>3. /\ Len(events) \in Nat /\ Len(es) \in Nat /\ DOMAIN events = 1..Len(events)
        /\ DOMAIN es = 1..Len(es) /\ DOMAIN events' = 1..Len(events')
    BY <1>7, <2>1, <2>2, LenProperties
  <2>4. ASSUME NEW i \in DOMAIN events' \ DOMAIN events
        PROVE  events'[i] = e
    <3>1. i - Len(events) \in DOMAIN es /\ events'[i] = es[i - Len(events)]
      BY <2>2, <2>3, <2>4
    <3> QED BY <1>7, <3>1
  <2> QED BY <2>2, <2>3, <2>4
<1>10. EventsTyped' /\ EventsPlaced' /\ PassTyped'
  <2>1. gone' = gone
    BY DEF EditMeter
  <2>2. EventsTyped'
    BY <1>3, <1>9 DEF TypeInv, EventsTyped
  <2>3. EventsPlaced'
    BY <1>1, <1>2, <1>3, <1>9, <2>1 DEF TypeInv, EventsPlaced
  <2>4. PassTyped'
    BY <1>5, <1>9 DEF TypeInv, PassTyped
  <2> QED BY <2>2, <2>3, <2>4
<1>11. Addressed(cs) \subseteq {m}
  BY <1>4, <1>8 DEF Addressed
<1>12. Sent(cs, {m})
  BY <1>6, <1>8, <1>11 DEF Sent
<1>13. LinkTyped'
  BY <1>12, SentTyped DEF EditMeter, Others
<1> QED BY <1>2, <1>10, <1>11, <1>12, <1>13 DEF TypeInv

LEMMA EndOverrideTyped ==
  ASSUME TypeInv, EndOverride
  PROVE  /\ TypeInv' /\ Existing(db') = Existing(db)
         /\ \E cs, lost : Sent(cs, lost) /\ Existing(db) \subseteq Addressed(cs) \cup lost
<1>1. db' \in Database /\ Existing(db') = Existing(db) /\ events' = events /\ pass' = pass
  BY DEF EndOverride, TypeInv, Database, Existing
<1>2. EventsTyped' /\ PassTyped' /\ EventsPlaced'
  BY <1>1 DEF EndOverride, TypeInv, EventsTyped, PassTyped, EventsPlaced
<1>3. Intended(db', pass') = db'
  BY <1>1, <1>2, IntendedNext DEF EndOverride
<1> DEFINE cs == SwitchOverride(db')
<1>4. /\ cs \in Seq(Order) /\ Addressed(cs) \subseteq Existing(db)
      /\ Existing(db) \ Hidden \subseteq Addressed(cs)
      /\ \A m \in Existing(db) \ Hidden : Final(m, cs, None) = Wanted(db', m)
  BY <1>1, TellSwitch
<1>5. Sends(queue, queue', gap, gap', told, listening, Intended(db', pass'), cs, Hidden)
  BY DEF EndOverride, Enqueue, Sends, Addressed, NotFine, Misled, LastTold, Final, Fine
<1> HIDE DEF cs
<1>6. Hidden \in SUBSET Nodes
  BY DEF Hidden, Existing
<1>7. \A m \in Existing(db') : m \in Addressed(cs) \ Hidden => Fine(Final(m, cs, None), db', m)
  BY <1>1, <1>4, FineWanted
<1>8. Sent(cs, Hidden)
  BY <1>3, <1>4, <1>5, <1>6, <1>7 DEF Sent
<1>9. LinkTyped'
  BY <1>8, SentTyped DEF EndOverride, Others
<1>10. Existing(db) \subseteq Addressed(cs) \cup Hidden
  BY <1>4
<1> QED BY <1>1, <1>2, <1>8, <1>9, <1>10 DEF TypeInv

-----------------------------------------------------------------------------
(* The edits of tariffs, and the hour.                                     *)

EditRecord ==
  {NoEdit} \cup [at : {"read", "saved"}, of : Tariffs, old : Terms, limit : Powers]

EditsTyped == edits \in [Editors -> EditRecord]

(* An edit that is under way is of a tariff that exists.                   *)
LEMMA EditOfTariff ==
  ASSUME EditsTyped, NEW e \in Editors, edits[e].at \in {"read", "saved"}
  PROVE  /\ edits[e] \in [at : {"read", "saved"}, of : Tariffs, old : Terms, limit : Powers]
         /\ edits[e].of \in Tariffs /\ edits[e].old \in Terms
BY DEF EditsTyped, EditRecord, NoEdit

LEMMA ReadTariffTyped ==
  ASSUME TypeInv, NEW e \in Editors, NEW t \in Tariffs, ReadTariff(e, t)
  PROVE  TypeInv' /\ UNCHANGED <<db, events, pass, link, history>>
         /\ Intended(db', pass') = Intended(db, pass)
BY DEF ReadTariff, link, history, TypeInv, EventsTyped, PassTyped, LinkTyped, EventsPlaced

(* A column is written as the form has it, or stays.                       *)
LEMMA ChangedTerms ==
  ASSUME NEW form \in Terms, NEW old, NEW now \in Terms
  PROVE  Changed(form, old, now) \in Terms
BY DEF Changed, Terms

LEMMA SaveTariffTyped ==
  ASSUME TypeInv, EditsTyped, NEW e \in Editors, SaveTariff(e)
  PROVE  /\ TypeInv' /\ Existing(db') = Existing(db) /\ edits[e].of \in Tariffs
         /\ UNCHANGED <<events, pass, link, history>>
         /\ db'.rows = db.rows /\ db'.override = db.override
         /\ db'.voltage = db.voltage /\ db'.hour = db.hour
         /\ \A t \in Tariffs \ {edits[e].of} : db'.tariffs[t] = db.tariffs[t]
<1> DEFINE t == edits[e].of
<1>1. t \in Tariffs /\ db \in Database /\ db.tariffs[t] \in Terms
  BY EditOfTariff DEF SaveTariff, TypeInv, Database
<1>2. PICK form \in Forms : db' = [db EXCEPT !.tariffs[t] = Changed(form, edits[e].old, @)]
  BY DEF SaveTariff
<1> DEFINE terms == Changed(form, edits[e].old, db.tariffs[t])
<1>3. terms \in Terms
  BY <1>1, ChangedTerms, OpsAssumption
<1>4. db' = [db EXCEPT !.tariffs[t] = terms]
  BY <1>2
<1> HIDE DEF terms, t
<1>5. /\ db' \in Database /\ db'.rows = db.rows /\ db'.override = db.override
      /\ db'.voltage = db.voltage /\ db'.hour = db.hour
      /\ \A u \in Tariffs \ {t} : db'.tariffs[u] = db.tariffs[u]
  BY <1>1, <1>3, <1>4 DEF Database
<1>6. Existing(db') = Existing(db)
  BY <1>5 DEF Existing
<1>7. UNCHANGED <<events, pass, link, history>>
  BY DEF SaveTariff
<1>8. EventsTyped' /\ PassTyped' /\ LinkTyped' /\ EventsPlaced'
  BY <1>6, <1>7 DEF TypeInv, EventsTyped, PassTyped, LinkTyped, EventsPlaced, link, history
<1> QED BY <1>1, <1>5, <1>6, <1>7, <1>8 DEF TypeInv, t

(* No command leaves, and the meters of lost are given up.                 *)
LEMMA NothingSent ==
  ASSUME NEW lost \in SUBSET Nodes, Enqueue(<<>>, lost)
  PROVE  Sent(<<>>, lost)
<1>1. <<>> \in Seq(Order) /\ Addressed(<<>>) = {}
  BY DEF Addressed
<1>2. Sends(queue, queue', gap, gap', told, listening, Intended(db', pass'), <<>>, lost)
  BY DEF Enqueue, Sends, Addressed, NotFine, Misled, LastTold, Final, Fine
<1> QED BY <1>1, <1>2 DEF Sent

LEMMA UsersAreMeters ==
  ASSUME NEW t
  PROVE  Users(t) \in SUBSET Nodes /\ Users(t) \in SUBSET Existing(db)
BY DEF Users, Existing

LEMMA TellTariffTyped ==
  ASSUME TypeInv, EditsTyped, NEW e \in Editors, TellTariff(e)
  PROVE  /\ TypeInv' /\ edits[e].of \in Tariffs
         /\ UNCHANGED <<db, pass, listening, recon, told, asked, mixed>>
         /\ events' = events \/ events' = Append(events, DoneEvent("power", edits[e].of))
         /\ \E cs, lost : Sent(cs, lost) /\ Users(edits[e].of) \subseteq Addressed(cs) \cup lost
<1> DEFINE t == edits[e].of
           ms == Users(t)
           lost == IF pass.dirty THEN ms ELSE {}
           cs == SetToSeq({Configure(db, m) : m \in ms})
<1>1. t \in Tariffs /\ db' = db /\ pass' = pass /\ db \in Database /\ PassTyped
  BY EditOfTariff DEF TellTariff, TypeInv
<1>2. UNCHANGED <<listening, allowed, recon, told, gone, asked, mixed>>
  BY DEF TellTariff
<1>3. ms \in SUBSET Nodes /\ ms \in SUBSET Existing(db)
  BY UsersAreMeters
<1>4. CASE LoadLimit(db, t) # edits[e].limit
  <2> DEFINE ev == DoneEvent("power", t)
  <2>1. ev \in EventRecord /\ ~OfMeter(ev)
    BY <1>1, EventIsEvent DEF Kinds, OfMeter
  <2>2. events' = Append(events, ev) /\ Enqueue(cs, lost)
    BY <1>4 DEF TellTariff
  <2>3. EventsTyped' /\ PassTyped' /\ EventsPlaced'
    BY <1>1, <1>2, <2>1, <2>2, TypedByEvent
  <2>4. Tells(cs, db, ms)
    <3> HIDE DEF ms
    <3> QED BY <1>1, <1>3, TellEach
  <2>5. Sends(queue, queue', gap, gap', told, listening, Intended(db', pass'), cs, lost)
    BY <2>2 DEF Enqueue, Sends, Addressed, NotFine, Misled, LastTold, Final, Fine
  <2>6. lost \in SUBSET Nodes /\ (pass.dirty \/ Intended(db', pass') = db)
    BY <1>1, <1>3, <2>3, IntendedNext
  <2> HIDE DEF cs, ev
  <2>7. cs \in Seq(Order) /\ Addressed(cs) = ms
    BY <2>4 DEF Tells
  <2>8. Existing(Intended(db', pass')) = Existing(db)
    BY <1>1, <2>3, IntendedNext
  <2>9. Sent(cs, lost)
    <3>1. CASE pass.dirty
      BY <1>3, <2>5, <2>6, <2>7, <3>1 DEF Sent
    <3>2. CASE ~pass.dirty
      <4>1. \A m \in Existing(db) : m \in Addressed(cs) => Fine(Final(m, cs, None), db, m)
        BY <1>1, <2>4, <2>7, FineWanted DEF Tells
      <4> QED BY <2>5, <2>6, <2>7, <2>8, <3>2, <4>1 DEF Sent
    <3> QED BY <3>1, <3>2
  <2>10. LinkTyped'
    BY <1>2, <2>9, SentTyped
  <2> HIDE DEF ms, lost
  <2>11. \E cs0, lost0 : Sent(cs0, lost0) /\ ms \subseteq Addressed(cs0) \cup lost0
    BY <2>7, <2>9
  <2> QED BY <1>1, <1>2, <2>2, <2>3, <2>10, <2>11 DEF TypeInv, ms, ev
<1>5. CASE LoadLimit(db, t) = edits[e].limit
  <2>1. events' = events /\ Enqueue(<<>>, ms)
    BY <1>5 DEF TellTariff
  <2> HIDE DEF ms
  <2>2. Sent(<<>>, ms)
    BY <1>3, <2>1, NothingSent
  <2>3. LinkTyped'
    BY <1>2, <2>2, SentTyped
  <2>4. \E cs0, lost0 : Sent(cs0, lost0) /\ ms \subseteq Addressed(cs0) \cup lost0
    BY <2>2
  <2> QED BY <1>1, <1>2, <2>1, <2>3, <2>4 DEF TypeInv, EventsTyped, PassTyped, EventsPlaced, ms
<1> QED BY <1>4, <1>5

LEMMA EditFailsTyped ==
  ASSUME TypeInv, NEW e \in Editors, EditFails(e)
  PROVE  /\ TypeInv' /\ UNCHANGED <<db, events, pass, listening, recon, told, asked, mixed>>
         /\ \E cs, lost : Sent(cs, lost) /\ Users(edits[e].of) \subseteq Addressed(cs) \cup lost
<1> DEFINE ms == Users(edits[e].of)
<1>1. UNCHANGED <<db, events, pass, listening, allowed, recon, told, gone, asked, mixed>>
  BY DEF EditFails
<1>2. Sent(<<>>, ms)
  BY UsersAreMeters, NothingSent DEF EditFails
<1> HIDE DEF ms
<1>3. LinkTyped'
  BY <1>1, <1>2, SentTyped
<1>4. \E cs, lost : Sent(cs, lost) /\ ms \subseteq Addressed(cs) \cup lost
  BY <1>2
<1> QED BY <1>1, <1>3, <1>4 DEF TypeInv, EventsTyped, PassTyped, EventsPlaced, ms

(* The meters whose load limit is not that of the new hour.                *)
Untimely == {m \in Existing(db) : LoadLimit(db', db.rows[m].tariff) # LoadLimit(db, db.rows[m].tariff)}

LEMMA HourPassesTyped ==
  ASSUME TypeInv, HourPasses
  PROVE  /\ TypeInv' /\ Existing(db') = Existing(db)
         /\ UNCHANGED <<events, pass, edits, listening, recon, told, asked, mixed>>
         /\ db'.rows = db.rows /\ db'.override = db.override
         /\ db'.voltage = db.voltage /\ db'.tariffs = db.tariffs
         /\ \E cs, lost : Sent(cs, lost) /\ Untimely \subseteq lost
<1>1. PICK h \in Hours : db' = [db EXCEPT !.hour = h]
  BY DEF HourPasses
<1>2. /\ db' \in Database /\ db'.rows = db.rows /\ db'.override = db.override
      /\ db'.voltage = db.voltage /\ db'.tariffs = db.tariffs /\ db \in Database
  BY <1>1 DEF TypeInv, Database
<1>3. Existing(db') = Existing(db)
  BY <1>2 DEF Existing
<1>4. UNCHANGED <<events, pass, edits, listening, allowed, recon, told, gone, asked, mixed>>
  BY DEF HourPasses
<1>5. Sent(<<>>, Untimely)
  <2>1. Untimely \in SUBSET Nodes
    BY DEF Untimely, Existing
  <2>2. Enqueue(<<>>, Untimely)
    BY DEF HourPasses, Untimely
  <2> QED BY <2>1, <2>2, NothingSent
<1>6. LinkTyped'
  BY <1>4, <1>5, SentTyped
<1>7. \E cs, lost : Sent(cs, lost) /\ Untimely \subseteq lost
  BY <1>5
<1> QED BY <1>2, <1>3, <1>4, <1>6, <1>7 DEF TypeInv, EventsTyped, PassTyped, EventsPlaced

(* Every step but those of the edits, and a crash, leaves the edits alone. *)
LEMMA EditsKept ==
  ASSUME Next
  PROVE  \/ edits' = edits \/ Crash
         \/ \E e \in Editors : SaveTariff(e) \/ TellTariff(e) \/ EditFails(e)
         \/ \E e \in Editors, t \in Tariffs : ReadTariff(e, t)
<1>1. CASE Requests
  BY <1>1, ZenonT(60) DEF Requests, SetMode, ResetMeter, RequestZero, RemoveMeter, EditMeter,
     RequestOverride, EndOverride, ChangeVoltage, ProcessTransaction, CreateMeter, Others
<1>2. CASE Pass
  BY <1>2, ZenonT(60) DEF Pass, StartPass, Handle, HandleChanged, HandlePaid, HandleOverride,
     HandleVoltage, HandleZero, Draft, Zeroed, PassEnds, PassFails, Others
<1>3. CASE Dispatch \/ Reconcile \/ Pause \/ GatewayBack \/ Register
  BY <1>3 DEF Dispatch, Reconcile, Load, ReconcileNext, ReconcileEnds, Pause, GatewayBack,
     Register, state
<1>4. CASE HourPasses \/ \E m \in Nodes : Reading(m)
  BY <1>4 DEF HourPasses, Reading
<1>5. CASE Edit \/ \E e \in Editors : EditFails(e)
  BY <1>5 DEF Edit
<1> QED BY <1>1, <1>2, <1>3, <1>4, <1>5 DEF Next

LEMMA EditsNext ==
  ASSUME TypeInv, EditsTyped, Next
  PROVE  EditsTyped'
<1>1. ASSUME NEW e \in Editors, NEW t \in Tariffs, ReadTariff(e, t)
      PROVE  EditsTyped'
  <2> DEFINE r == [at |-> "read", of |-> t, old |-> db.tariffs[t], limit |-> LoadLimit(db, t)]
  <2>1. db.tariffs[t] \in Terms /\ LoadLimit(db, t) \in Powers
    BY LimitIsPower DEF TypeInv, Database
  <2>2. r \in EditRecord
    BY <2>1 DEF EditRecord
  <2>3. edits' = [edits EXCEPT ![e] = r]
    BY <1>1 DEF ReadTariff
  <2> HIDE DEF r
  <2> QED BY <2>2, <2>3 DEF EditsTyped
<1>2. ASSUME NEW e \in Editors, SaveTariff(e)
      PROVE  EditsTyped'
  <2>1. edits[e] \in [at : {"read", "saved"}, of : Tariffs, old : Terms, limit : Powers]
    BY <1>2, EditOfTariff DEF SaveTariff
  <2>2. [edits[e] EXCEPT !.at = "saved"] \in EditRecord
    BY <2>1 DEF EditRecord
  <2>3. edits' = [edits EXCEPT ![e] = [edits[e] EXCEPT !.at = "saved"]]
    BY <1>2 DEF SaveTariff, EditsTyped
  <2> QED BY <2>2, <2>3 DEF EditsTyped
<1>3. ASSUME NEW e \in Editors, TellTariff(e) \/ EditFails(e)
      PROVE  EditsTyped'
  <2>1. NoEdit \in EditRecord
    BY DEF EditRecord
  <2>2. edits' = [edits EXCEPT ![e] = NoEdit]
    BY <1>3 DEF TellTariff, EditFails
  <2> HIDE DEF NoEdit
  <2> QED BY <2>1, <2>2 DEF EditsTyped
<1>4. CASE Crash
  <2>1. NoEdit \in EditRecord
    BY DEF EditRecord
  <2> HIDE DEF NoEdit
  <2> QED BY <1>4, <2>1 DEF Crash, EditsTyped
<1>5. CASE edits' = edits
  BY <1>5 DEF EditsTyped
<1> QED BY <1>1, <1>2, <1>3, <1>4, <1>5, EditsKept

-----------------------------------------------------------------------------
(* The commands of a process without a loop are lost.                      *)
Dropped(m) ==
  /\ queue' = queue
  /\ gap' = gap \cup NotFine({m}, queue, told, Intended(db', pass'))

LEMMA DroppedTyped ==
  ASSUME TypeInv, NEW m \in Nodes, Dropped(m), Others, gone' = gone
  PROVE  LinkTyped'
BY DEF TypeInv, LinkTyped, Dropped, NotFine, Others

LEMMA FundedChanged ==
  ASSUME TypeInv, NEW m \in Existing(db), NEW f \in BOOLEAN,
         db' = [db EXCEPT !.rows[m].funded = f]
  PROVE  /\ db' \in Database /\ Existing(db') = Existing(db)
         /\ db'.rows[m] = [db.rows[m] EXCEPT !.funded = f]
         /\ \A n \in Nodes \ {m} : db'.rows[n] = db.rows[n]
         /\ db'.override = db.override /\ db'.tariffs = db.tariffs
         /\ db'.voltage = db.voltage /\ db'.hour = db.hour
<1> DEFINE r2 == [db.rows[m] EXCEPT !.funded = f]
<1>1. m \in Nodes /\ db.rows[m] \in Row /\ db \in Database
  BY ExistingRow DEF TypeInv
<1>2. r2 \in Row
  BY <1>1 DEF Row
<1>3. db' = [db EXCEPT !.rows[m] = r2]
  BY <1>1 DEF Database
<1> HIDE DEF r2
<1>4. /\ db' \in Database /\ Existing(db') = Existing(db) /\ db'.rows[m] = r2
      /\ \A n \in Nodes \ {m} : db'.rows[n] = db.rows[n]
      /\ db'.override = db.override /\ db'.tariffs = db.tariffs
      /\ db'.voltage = db.voltage /\ db'.hour = db.hour
  BY <1>1, <1>2, <1>3, NoneAssumption DEF Existing, Database
<1> QED BY <1>4 DEF r2

(* A command to a meter whose last reading makes it worth one.             *)
LEMMA WorthSent ==
  ASSUME TypeInv, NEW m \in Existing(db'), db' \in Database, PassTyped', pass'.dirty = pass.dirty,
         Enqueue(SetToSeq({Configure(db', n) : n \in Worth(db', {m})}), Unsure({m}))
  PROVE  \E cs : Sent(cs, Unsure({m})) /\ Addressed(cs) = Worth(db', {m})
<1> DEFINE ms == Worth(db', {m})
           lost == Unsure({m})
           cs == SetToSeq({Configure(db', n) : n \in ms})
<1>1. Tells(cs, db', ms)
  <2>1. ms \in SUBSET Existing(db')
    BY DEF Worth
  <2> HIDE DEF ms
  <2> QED BY <2>1, TellEach
<1>2. Sends(queue, queue', gap, gap', told, listening, Intended(db', pass'), cs, lost)
  BY DEF Enqueue, Sends, Addressed, NotFine, Misled, LastTold, Final, Fine
<1>3. lost \in SUBSET Nodes /\ ms \subseteq {m}
  BY DEF Existing, Unsure, Worth
<1>4. m \in lost \/ Intended(db', pass') = db'
  BY IntendedNext DEF Unsure
<1> HIDE DEF cs
<1>5. cs \in Seq(Order) /\ Addressed(cs) = ms
  BY <1>1 DEF Tells
<1>6. \A n \in Existing(db') : n \in Addressed(cs) => Fine(Final(n, cs, None), db', n)
  BY <1>1, <1>5, FineWanted DEF Tells
<1> HIDE DEF ms, lost
<1>7. Sent(cs, lost)
  BY <1>2, <1>3, <1>4, <1>5, <1>6 DEF Sent
<1>8. \E cs0 : Sent(cs0, lost) /\ Addressed(cs0) = ms
  BY <1>5, <1>7
<1> QED BY <1>8 DEF ms, lost

LEMMA ProcessTransactionTyped ==
  ASSUME TypeInv, NEW m \in Nodes, NEW f \in BOOLEAN, NEW here \in BOOLEAN,
         ProcessTransaction(m, f, here)
  PROVE  /\ TypeInv' /\ Existing(db') = Existing(db)
         /\ \/ \E cs : Sent(cs, Unsure({m})) /\ Addressed(cs) = Worth(db', {m})
            \/ Dropped(m)
<1>1. /\ m \in Existing(db) /\ db' = [db EXCEPT !.rows[m].funded = f]
      /\ db' \in Database /\ Existing(db') = Existing(db)
  BY FundedChanged DEF ProcessTransaction
<1> DEFINE e == Event("paid", m)
<1>2. e \in EventRecord /\ e.of = m
  BY EventIsEvent DEF Kinds
<1>3. EventsTyped' /\ PassTyped' /\ EventsPlaced' /\ pass' = pass /\ gone' = gone /\ Others
  BY <1>1, <1>2, TypedByEvent DEF ProcessTransaction
<1>4. CASE here
  <2>1. Enqueue(SetToSeq({Configure(db', n) : n \in Worth(db', {m})}), Unsure({m}))
    BY <1>4 DEF ProcessTransaction
  <2>2. \E cs : Sent(cs, Unsure({m})) /\ Addressed(cs) = Worth(db', {m})
    BY <1>1, <1>3, <2>1, WorthSent
  <2>3. LinkTyped'
    BY <1>3, <2>2, SentTyped DEF Others
  <2> QED BY <1>1, <1>3, <2>2, <2>3 DEF TypeInv
<1>5. CASE ~here
  <2> DEFINE ms == Worth(db', {m})
             c1 == SetToSeq({Configure(db', n) : n \in ms})
             cs == IF c1 = <<>> THEN <<Configure(db', m)>> ELSE c1
  <2>1. Tells(<<Configure(db', m)>>, db', {m})
    BY <1>1, TellOne
  <2>2. Tells(c1, db', ms)
    <3>1. ms \in SUBSET Existing(db')
      BY <1>1 DEF Worth
    <3> HIDE DEF ms
    <3> QED BY <1>1, <3>1, TellEach
  <2>3. Drop(cs)
    BY <1>5 DEF ProcessTransaction
  <2>4. ms \subseteq {m}
    BY DEF Worth
  <2> HIDE DEF c1, ms
  <2>5. Addressed(cs) = {m}
    <3>1. CASE c1 = <<>>
      BY <2>1, <3>1 DEF Tells
    <3>2. CASE c1 # <<>>
      <4>1. c1 \in Seq(Order) /\ Addressed(c1) = ms
        BY <2>2 DEF Tells
      <4>2. 1 \in DOMAIN c1
        BY <3>2, <4>1
      <4>3. ms # {}
        BY <4>1, <4>2 DEF Addressed
      <4> QED BY <2>4, <3>2, <4>1, <4>3
    <3> QED BY <3>1, <3>2
  <2>6. Existing(Intended(db', pass')) = Existing(db)
    BY <1>1, <1>3, IntendedNext
  <2>7. Dropped(m)
    <3> HIDE DEF cs
    <3>1. Addressed(cs) \cap Existing(Intended(db', pass')) = {m}
      BY <1>1, <2>5, <2>6
    <3> QED BY <2>3, <3>1 DEF Dropped, Drop, Addressed, NotFine, Misled, LastTold, Final, Fine
  <2>8. LinkTyped'
    BY <1>3, <2>7, DroppedTyped
  <2> QED BY <1>1, <1>3, <2>7, <2>8 DEF TypeInv
<1> QED BY <1>4, <1>5

LEMMA RemoveMeterTyped ==
  ASSUME TypeInv, NEW m \in Nodes, RemoveMeter(m)
  PROVE  TypeInv' /\ Existing(db') = Existing(db) \ {m}
<1>1. db' \in Database
  BY RowChanged DEF RemoveMeter, TypeInv
<1>2. Existing(db') = Existing(db) \ {m}
  BY DEF RemoveMeter, TypeInv, Existing, Database
<1>3. EventsPlaced'
  BY <1>2 DEF RemoveMeter, TypeInv, EventsPlaced
<1> QED BY <1>1, <1>2, <1>3
  DEF RemoveMeter, TypeInv, EventsTyped, PassTyped, LinkTyped, Others

LEMMA CreateMeterTyped ==
  ASSUME TypeInv, NEW m \in Nodes, NEW t \in Tariffs, NEW here \in BOOLEAN,
         CreateMeter(m, t, here)
  PROVE  /\ TypeInv' /\ Existing(db') = Existing(db) \cup {m}
         /\ \/ \E cs, lost : Sent(cs, lost) /\ Addressed(cs) = {m}
            \/ Dropped(m)
<1> DEFINE r == [mode |-> NewMode, funded |-> FALSE, running |-> FALSE, used |-> None,
                 tariff |-> t, hidden |-> FALSE, known |-> None]
<1>1. r \in Row
  BY OpsAssumption DEF Row
<1>2. db' = [db EXCEPT !.rows[m] = r] /\ pass' = pass /\ gone' = gone /\ Others
  BY DEF CreateMeter
<1> HIDE DEF r
<1>3. db' \in Database /\ Existing(db') = Existing(db) \cup {m}
  BY <1>1, <1>2, NoneAssumption DEF TypeInv, Database, Existing
<1> DEFINE e == DoneEvent("created", m)
<1>4. e \in EventRecord /\ ~OfMeter(e)
  BY EventIsEvent DEF Kinds, OfMeter
<1>5. EventsTyped' /\ PassTyped' /\ EventsPlaced'
  <2>1. /\ events' \in Seq(EventRecord)
        /\ DOMAIN events' = DOMAIN events \cup {Len(events) + 1}
        /\ \A i \in DOMAIN events : events'[i] = events[i]
        /\ events'[Len(events) + 1] = e
    BY <1>4, Appended DEF TypeInv, EventsTyped, CreateMeter
  <2> HIDE DEF e
  <2>2. EventsTyped'
    BY <1>4, <2>1 DEF TypeInv, EventsTyped
  <2>3. PassTyped'
    BY <1>2, <2>1 DEF TypeInv, PassTyped
  <2>4. EventsPlaced'
    BY <1>2, <1>3, <1>4, <2>1 DEF TypeInv, EventsPlaced
  <2> QED BY <2>2, <2>3, <2>4
<1> DEFINE cs == <<Configure(db', m)>>
           lost == IF pass.dirty THEN {m} ELSE {}
<1>6. Tells(cs, db', {m})
  BY <1>3, TellOne
<1>7. /\ Existing(Intended(db', pass')) = Existing(db')
      /\ pass.dirty \/ Intended(db', pass') = db'
  BY <1>2, <1>3, <1>5, IntendedNext
<1>8. CASE here
  <2>1. Enqueue(cs, lost)
    BY <1>8 DEF CreateMeter
  <2> HIDE DEF cs
  <2>2. Sends(queue, queue', gap, gap', told, listening, Intended(db', pass'), cs, lost)
    BY <2>1 DEF Enqueue, Sends, Addressed, NotFine, Misled, LastTold, Final, Fine
  <2>3. cs \in Seq(Order) /\ Addressed(cs) = {m} /\ Fine(Final(m, cs, None), db', m)
    BY <1>3, <1>6, FineWanted DEF Tells
  <2>4. Sent(cs, lost)
    BY <1>7, <2>2, <2>3 DEF Sent
  <2>5. LinkTyped'
    BY <1>2, <2>4, SentTyped DEF Others
  <2> HIDE DEF lost
  <2> QED BY <1>3, <1>5, <2>3, <2>4, <2>5 DEF TypeInv
<1>9. CASE ~here
  <2>1. Drop(cs)
    BY <1>9 DEF CreateMeter
  <2> HIDE DEF cs
  <2>2. Addressed(cs) \cap Existing(Intended(db', pass')) = {m}
    BY <1>3, <1>6, <1>7 DEF Tells
  <2>3. Dropped(m)
    BY <2>1, <2>2 DEF Dropped, Drop, Addressed, NotFine, Misled, LastTold, Final, Fine
  <2>4. LinkTyped'
    BY <1>2, <2>3, DroppedTyped
  <2> QED BY <1>3, <1>5, <2>3, <2>4 DEF TypeInv
<1> QED BY <1>8, <1>9

LEMMA ReadingTyped ==
  ASSUME TypeInv, NEW m \in Nodes, Reading(m)
  PROVE  /\ TypeInv' /\ Existing(db') = Existing(db) /\ m \in Existing(db)
         /\ Dropped(m) /\ UNCHANGED <<events, pass, queue, listening, recon, told>>
         /\ \A n \in Nodes \ {m} : db'.rows[n] = db.rows[n]
         /\ db'.override = db.override /\ db'.tariffs = db.tariffs
         /\ db'.voltage = db.voltage /\ db'.hour = db.hour
<1>1. m \in Existing(db) /\ db.rows[m] \in Row /\ db \in Database /\ told[m] \in Setting
  BY ExistingRow DEF Reading, TypeInv, LinkTyped
<1>2. PICK f \in BOOLEAN, n \in BOOLEAN, u \in {None} \cup Uses :
        /\ f => db.rows[m].funded
        /\ n => db.rows[m].running \/ db.tariffs[db.rows[m].tariff].planned
        /\ IF db.tariffs[db.rows[m].tariff].cap = None THEN u = None ELSE u \in Uses
        /\ db' = [db EXCEPT !.rows[m].funded = f, !.rows[m].running = n, !.rows[m].used = u,
                            !.rows[m].known = told[m]]
  BY Zenon DEF Reading
<1> DEFINE r2 == [db.rows[m] EXCEPT !.funded = f, !.running = n, !.used = u, !.known = told[m]]
<1>3. r2 \in Row
  BY <1>1 DEF Row
<1>4. db' = [db EXCEPT !.rows[m] = r2]
  BY <1>1, <1>2 DEF Database
<1> HIDE DEF r2
<1>5. /\ db' \in Database /\ Existing(db') = Existing(db)
      /\ \A k \in Nodes \ {m} : db'.rows[k] = db.rows[k]
      /\ db'.override = db.override /\ db'.tariffs = db.tariffs
      /\ db'.voltage = db.voltage /\ db'.hour = db.hour
  BY <1>1, <1>3, <1>4, NoneAssumption DEF Existing, Database
<1>6. UNCHANGED <<events, pass, queue, listening, allowed, recon, told, gone>>
  BY DEF Reading, link
<1>7. Dropped(m)
  BY <1>6 DEF Reading, Dropped, NotFine, Misled, LastTold, Final, Fine
<1>8. LinkTyped'
  BY <1>6, <1>7 DEF TypeInv, LinkTyped, Dropped, NotFine
<1>9. EventsTyped' /\ PassTyped' /\ EventsPlaced'
  BY <1>5, <1>6 DEF TypeInv, EventsTyped, PassTyped, EventsPlaced
<1> QED BY <1>1, <1>5, <1>6, <1>7, <1>8, <1>9 DEF TypeInv

-----------------------------------------------------------------------------
(* The steps of the pass.                                                  *)

LEMMA StartPassTyped ==
  ASSUME TypeInv, StartPass
  PROVE  /\ TypeInv'
         /\ pass = Idle /\ pass'.todo = Unprocessed /\ pass'.drafted = {} /\ pass'.zeroing = 0
         /\ ~pass'.dirty /\ pass'.seen = Idle.seen /\ pass'.on
<1>1. pass = Idle /\ pass' = [Idle EXCEPT !.on = TRUE, !.todo = Unprocessed]
  BY DEF TypeInv, PassTyped, StartPass
<1>2. Unprocessed \subseteq DOMAIN events /\ DOMAIN events \subseteq Nat
  <2>1. DOMAIN events = 1..Len(events) /\ Len(events) \in Nat
    BY DEF TypeInv, EventsTyped
  <2> QED BY <2>1 DEF Unprocessed
<1>3. /\ pass' \in PassRecord /\ pass'.todo = Unprocessed /\ pass'.drafted = {}
      /\ pass'.zeroing = 0 /\ ~pass'.dirty /\ pass'.seen = Idle.seen /\ pass'.on
  <2>1. Unprocessed \in SUBSET Nat
    BY <1>2
  <2> QED BY <1>1, <2>1, IdleIsPass DEF PassRecord, Idle
<1>4. UNCHANGED <<db, events, queue, listening, allowed, recon, told, gone, gap>>
  BY DEF StartPass, link, history
<1>5. PassTyped'
  BY <1>2, <1>3, <1>4 DEF PassTyped
<1> QED BY <1>1, <1>3, <1>4, <1>5 DEF TypeInv, EventsTyped, LinkTyped, EventsPlaced

LEMMA ViewIsDatabase ==
  ASSUME TypeInv
  PROVE  /\ View \in Database /\ Existing(View) = Existing(db)
         /\ View.override = Kept(pass.seen.override, db.override) /\ View.override \in BOOLEAN
         /\ pass.dirty => View.override = pass.seen.override
         /\ \A m \in Existing(db) : View.rows[m] = Kept(pass.seen.rows[m], db.rows[m])
<1> DEFINE rows == [m \in Nodes |-> IF m \in Existing(db) THEN Kept(pass.seen.rows[m], db.rows[m])
                                                        ELSE None]
           terms == [t \in Tariffs |-> Kept(pass.seen.tariffs[t], db.tariffs[t])]
           o == Kept(pass.seen.override, db.override)
<1>1. View = [db EXCEPT !.tariffs = terms, !.rows = rows, !.override = o]
  BY DEF View
<1>2. /\ db \in Database /\ pass.seen.rows \in [Nodes -> {None} \cup Row]
      /\ pass.seen.tariffs \in [Tariffs -> {None} \cup Terms]
      /\ pass.seen.override \in {None} \cup BOOLEAN
      /\ pass.dirty => pass.seen.override \in BOOLEAN
  BY DEF TypeInv, PassTyped, PassRecord, Sighting
<1>3. rows \in [Nodes -> {None} \cup Row] /\ \A m \in Existing(db) : m \in Nodes /\ rows[m] \in Row
  BY <1>2, ExistingRow DEF Kept, Existing
<1>4. o \in BOOLEAN /\ (pass.dirty => o = pass.seen.override)
  BY <1>2, MeterAssumption DEF Kept, Database
<1>5. \A m \in Existing(db) : rows[m] = Kept(pass.seen.rows[m], db.rows[m])
  BY <1>3
<1>6. \A m \in Nodes : rows[m] # None <=> m \in Existing(db)
  BY <1>3, NoneAssumption
<1>t. terms \in [Tariffs -> Terms]
  BY <1>2 DEF Kept, Database
<1> HIDE DEF rows, terms, o
<1>7. View \in Database /\ View.rows = rows /\ View.override = o
  BY <1>1, <1>2, <1>3, <1>4, <1>t DEF Database
<1>8. Existing(View) = Existing(db)
  BY <1>3, <1>6, <1>7 DEF Existing
<1> QED BY <1>4, <1>5, <1>7, <1>8 DEF o

(* What the session remembers: the rows it has read, or none of them.      *)
Forgotten(o) == [Idle.seen EXCEPT !.override = o]

LEMMA SightingKept ==
  ASSUME TypeInv, NEW d \in Database, NEW ms \in SUBSET Existing(d), NEW dirty \in BOOLEAN, NEW s,
         s = Seen(ms, d) \/ s = Forgotten(d.override) \/ (~dirty /\ s = Forgotten(None))
  PROVE  /\ s \in Sighting /\ s.override \in {None, d.override}
         /\ dirty => s.override = d.override
         /\ \A m \in Nodes \ ms : s.rows[m] \in {None, pass.seen.rows[m]}
<1>1. /\ pass.seen.rows \in [Nodes -> {None} \cup Row] /\ d.override \in BOOLEAN
      /\ pass.seen.tariffs \in [Tariffs -> {None} \cup Terms] /\ d.tariffs \in [Tariffs -> Terms]
  BY DEF TypeInv, PassTyped, PassRecord, Sighting, Database
<1>2. ms \subseteq Nodes /\ \A m \in ms : d.rows[m] \in Row
  BY ExistingRow
<1> DEFINE rows == [m \in Nodes |-> IF m \in ms THEN d.rows[m] ELSE pass.seen.rows[m]]
           terms == [t \in Tariffs |-> IF \E m \in ms \cap Existing(d) : d.rows[m].tariff = t
                                       THEN d.tariffs[t] ELSE pass.seen.tariffs[t]]
<1>3. CASE s = Seen(ms, d)
  <2>1. rows \in [Nodes -> {None} \cup Row] /\ \A m \in Nodes \ ms : rows[m] = pass.seen.rows[m]
    BY <1>1, <1>2
  <2>2. s = [rows |-> rows, tariffs |-> terms, override |-> d.override]
    BY <1>3 DEF Seen
  <2>3. terms \in [Tariffs -> {None} \cup Terms]
    BY <1>1
  <2> HIDE DEF rows, terms
  <2> QED BY <1>1, <2>1, <2>2, <2>3 DEF Sighting
<1>4. CASE s # Seen(ms, d)
  <2> DEFINE none == [m \in Nodes |-> None]
             unread == [t \in Tariffs |-> None]
  <2>1. PICK o \in {None, d.override} :
          s = [rows |-> none, tariffs |-> unread, override |-> o] /\ (dirty => o = d.override)
    BY <1>4 DEF Idle, Forgotten
  <2>2. /\ none \in [Nodes -> {None} \cup Row] /\ \A m \in Nodes : none[m] = None
        /\ unread \in [Tariffs -> {None} \cup Terms]
    OBVIOUS
  <2>3. o \in {None} \cup BOOLEAN
    BY <1>1, <2>1
  <2> HIDE DEF none, unread
  <2> QED BY <2>1, <2>2, <2>3 DEF Sighting
<1> QED BY <1>3, <1>4

(* Event i is processed in the session of the pass.                        *)
Drafted(i) ==
  /\ pass.on /\ pass'.on /\ pass'.zeroing = pass.zeroing
  /\ pass'.todo = pass.todo \ {i} /\ pass'.drafted = pass.drafted \cup {i}
  /\ UNCHANGED <<db, events, listening, allowed, recon, told, gone, asked, mixed>>

LEMMA DraftedTyped ==
  ASSUME TypeInv, NEW i \in pass.todo, Drafted(i), pass' \in PassRecord, LinkTyped',
         pass'.dirty => pass'.seen.override \in BOOLEAN
  PROVE  TypeInv'
<1>1. PassTyped'
  BY DEF TypeInv, PassTyped, Drafted
<1> QED BY <1>1 DEF TypeInv, Drafted, EventsTyped, EventsPlaced

LEMMA HandleChangedTyped ==
  ASSUME TypeInv, pass.on, NEW i \in pass.todo, ~Poison(events[i]), HandleChanged(i)
  PROVE  /\ TypeInv' /\ Drafted(i) /\ Intended(db', pass') = Intended(db, pass)
         /\ pass'.dirty = pass.dirty /\ pass'.seen.override \in {None, View.override}
         /\ \A m \in Nodes \ {events[i].of} : pass'.seen.rows[m] \in {None, pass.seen.rows[m]}
         /\ \E cs, lost : Sent(cs, lost) /\ Addressed(cs) = {events[i].of}
<1> DEFINE m == events[i].of
           row == Kept(pass.seen.rows[m], View.rows[m])
           d == [View EXCEPT !.rows[m] = row]
<1>1. /\ i \in DOMAIN events /\ events[i].kind = "changed"
      /\ m \in Nodes /\ m \in Existing(db) \cup gone
      /\ pass \in PassRecord /\ pass.dirty \in BOOLEAN
      /\ pass.seen.rows \in [Nodes -> {None} \cup Row] /\ db \in Database
      /\ pass.dirty => pass.seen.override \in BOOLEAN
  BY DEF TypeInv, PassTyped, PassRecord, Sighting, EventsTyped, EventsPlaced, OfMeter, HandleChanged
<1>2. row \in Row
  <2>1. CASE pass.seen.rows[m] # None
    BY <1>1, <2>1 DEF Kept
  <2>2. CASE pass.seen.rows[m] = None
    <3>1. m \in Existing(db)
      BY <1>1, <2>2 DEF Poison
    <3> QED BY <2>2, <3>1, ViewIsDatabase, ExistingRow DEF Kept
  <2> QED BY <2>1, <2>2
<1>3. /\ d \in Database /\ d.override = View.override /\ m \in Existing(d)
      /\ pass.dirty => d.override = pass.seen.override
  <2>1. View \in Database /\ (pass.dirty => View.override = pass.seen.override)
    BY ViewIsDatabase
  <2> HIDE DEF row, m
  <2>2. d \in Database
    BY <1>1, <1>2, <2>1, RowChanged
  <2> QED BY <1>1, <1>2, <2>1, <2>2, NoneAssumption DEF Existing, Database
<1> DEFINE cs == <<Configure(d, m)>>
           lost == {} \cup {n \in {m} \cap Existing(db) :
                               Wanted(d, n) # Wanted(Intended(db, pass'), n)}
<1> HIDE DEF m, row, d, cs, lost
<1>b. PICK b \in BOOLEAN : b = pass.dirty
  BY <1>1
<1>4. Draft(i, {m}, d, b, cs, {})
  BY <1>b DEF HandleChanged, m, row, d, cs
<1>5. PICK s \in {Seen({m}, d), [Idle.seen EXCEPT !.override = IF b THEN d.override ELSE None]} :
        pass' = [pass EXCEPT !.todo = @ \ {i}, !.drafted = @ \cup {i}, !.dirty = b, !.seen = s]
  BY <1>4 DEF Draft
<1>5s. s = Seen({m}, d) \/ s = Forgotten(d.override) \/ (~b /\ s = Forgotten(None))
  BY <1>5 DEF Forgotten
<1>6. /\ s \in Sighting /\ s.override \in {None, d.override}
      /\ b => s.override = d.override
      /\ \A n \in Nodes \ {m} : s.rows[n] \in {None, pass.seen.rows[n]}
  <2>1. {m} \in SUBSET Existing(d)
    BY <1>3
  <2> QED BY <1>3, <1>5s, <2>1, SightingKept
<1>7. /\ pass' \in PassRecord /\ pass'.on = pass.on /\ pass'.zeroing = pass.zeroing
      /\ pass'.todo = pass.todo \ {i} /\ pass'.drafted = pass.drafted \cup {i}
      /\ pass'.dirty = b /\ pass'.seen = s
  BY <1>1, <1>5, <1>6 DEF PassRecord
<1>8. Drafted(i)
  BY <1>4, <1>7 DEF Draft, Drafted, Others
<1>9. Intended(db', pass') = Intended(db, pass)
  BY <1>b, <1>3, <1>6, <1>7, <1>8 DEF Drafted, Intended
<1>10. Tells(cs, d, {m})
  BY <1>3, TellOne DEF cs
<1>11. Sends(queue, queue', gap, gap', told, listening, Intended(db', pass'), cs, lost)
  BY <1>4 DEF lost, Draft, Enqueue, Sends, Addressed, NotFine, Misled, LastTold, Final, Fine
<1>12. Sent(cs, lost)
  <2>1. cs \in Seq(Order) /\ Addressed(cs) = {m} /\ lost \in SUBSET Nodes
    BY <1>1, <1>10 DEF Tells, lost
  <2>2. Intended(db', pass') \in Database /\ Existing(Intended(db', pass')) = Existing(db)
    BY <1>9, IntendedNow
  <2>3. ASSUME NEW n \in Existing(db), n \in Addressed(cs) \ lost
        PROVE  Fine(Final(n, cs, None), Intended(db', pass'), n)
    <3>1. n = m /\ Final(n, cs, None) = Wanted(d, n)
      BY <1>10, <2>1, <2>3 DEF Tells
    <3>2. Wanted(d, n) = Wanted(Intended(db', pass'), n)
      BY <1>8, <2>3, <3>1 DEF lost, Drafted
    <3> QED BY <2>2, <3>1, <3>2, FineWanted
  <2> QED BY <1>11, <2>1, <2>2, <2>3 DEF Sent
<1>13. LinkTyped'
  BY <1>4, <1>12, SentTyped DEF Draft, Others
<1>14. TypeInv'
  BY <1>b, <1>1, <1>3, <1>6, <1>7, <1>8, <1>13, DraftedTyped
<1>15. \E cs0, lost0 : Sent(cs0, lost0) /\ Addressed(cs0) = {m}
  BY <1>10, <1>12 DEF Tells
<1> QED BY <1>b, <1>3, <1>6, <1>7, <1>8, <1>9, <1>14, <1>15 DEF m

LEMMA HandlePaidTyped ==
  ASSUME TypeInv, pass.on, NEW i \in pass.todo, HandlePaid(i)
  PROVE  /\ TypeInv' /\ Drafted(i) /\ Intended(db', pass') = Intended(db, pass)
         /\ pass'.dirty = pass.dirty /\ pass'.seen = pass.seen
         /\ UNCHANGED <<queue, gap>>
<1>1. pass \in PassRecord /\ i \in Nat
  BY DEF TypeInv, PassTyped, PassRecord
<1>2. /\ pass' \in PassRecord /\ pass'.on = pass.on /\ pass'.zeroing = pass.zeroing
      /\ pass'.todo = pass.todo \ {i} /\ pass'.drafted = pass.drafted \cup {i}
      /\ pass'.dirty = pass.dirty /\ pass'.seen = pass.seen
  BY <1>1 DEF HandlePaid, PassRecord
<1>3. Drafted(i) /\ UNCHANGED <<queue, gap>>
  BY <1>2 DEF HandlePaid, Drafted, link, history
<1>4. LinkTyped'
  BY <1>3 DEF TypeInv, LinkTyped, Drafted
<1>5. TypeInv'
  BY <1>2, <1>3, <1>4, DraftedTyped DEF TypeInv, PassTyped
<1> QED BY <1>2, <1>3, <1>5 DEF Intended, Drafted

LEMMA HandleOverrideTyped ==
  ASSUME TypeInv, pass.on, NEW i \in pass.todo, HandleOverride(i)
  PROVE  /\ TypeInv' /\ Drafted(i) /\ events[i].kind \in {"on", "off"}
         /\ (pass'.dirty <=> pass.dirty \/ (events[i].kind = "on") # View.override)
         /\ pass'.seen.override \in {None, events[i].kind = "on"}
         /\ \E cs, lost : Sent(cs, lost) /\ Existing(db) \subseteq Addressed(cs) \cup lost
<1> DEFINE ms == Existing(db)
<1>1. /\ pass \in PassRecord /\ View \in Database /\ Existing(View) = ms /\ View.override \in BOOLEAN
      /\ pass.dirty \in BOOLEAN /\ (events[i].kind = "on") \in BOOLEAN
  BY ViewIsDatabase DEF TypeInv, PassTyped, PassRecord
<1>2. PICK o \in BOOLEAN, b \in BOOLEAN :
        o = (events[i].kind = "on") /\ b = (pass.dirty \/ o # View.override)
  <2>1. PICK o \in BOOLEAN : o = (events[i].kind = "on")
    BY <1>1
  <2>2. (pass.dirty \/ o # View.override) \in BOOLEAN
    OBVIOUS
  <2> QED BY <2>1, <2>2
<1> DEFINE d == [View EXCEPT !.override = o]
           cs == SwitchOverride(d)
           lost == Hidden \cup {n \in ms \cap Existing(db) :
                                  Wanted(d, n) # Wanted(Intended(db, pass'), n)}
<1>3. d \in Database /\ d.override = o /\ Existing(d) = ms
  BY <1>1 DEF Database, Existing
<1>4. Draft(i, ms, d, b, cs, Hidden) /\ events[i].kind \in {"on", "off"}
  BY <1>2 DEF HandleOverride
<1>5. /\ cs \in Seq(Order) /\ Addressed(cs) \subseteq ms /\ ms \ Hidden \subseteq Addressed(cs)
      /\ \A m \in ms \ Hidden : Final(m, cs, None) = Wanted(d, m)
  <2>1. Existing(db) \subseteq Existing(d)
    BY <1>3
  <2> HIDE DEF d
  <2> QED BY <1>3, <2>1, TellSwitch
<1>6. ms \subseteq Nodes
  BY DEF Existing
<1> HIDE DEF d, cs, lost, ms
<1>7. PICK s \in {Seen(ms, d), [Idle.seen EXCEPT !.override = IF b THEN d.override ELSE None]} :
        pass' = [pass EXCEPT !.todo = @ \ {i}, !.drafted = @ \cup {i}, !.dirty = b, !.seen = s]
  BY <1>4 DEF Draft
<1>8. s = Seen(ms, d) \/ s = Forgotten(d.override) \/ (~b /\ s = Forgotten(None))
  BY <1>7 DEF Forgotten
<1>9. s \in Sighting /\ s.override \in {None, o} /\ (b => s.override = o)
  <2>1. ms \in SUBSET Existing(d)
    BY <1>3
  <2> QED BY <1>3, <1>8, <2>1, SightingKept
<1>10. /\ pass' \in PassRecord /\ pass'.on = pass.on /\ pass'.zeroing = pass.zeroing
       /\ pass'.todo = pass.todo \ {i} /\ pass'.drafted = pass.drafted \cup {i}
       /\ pass'.dirty = b /\ pass'.seen = s
  <2>1. i \in Nat
    BY <1>1 DEF PassRecord
  <2> QED BY <1>1, <1>7, <1>9, <2>1 DEF PassRecord
<1>11. Drafted(i)
  BY <1>4, <1>10 DEF Draft, Drafted, Others
<1>12. Sends(queue, queue', gap, gap', told, listening, Intended(db', pass'), cs, lost)
  BY <1>4 DEF lost, Draft, Enqueue, Sends, Addressed, NotFine, Misled, LastTold, Final, Fine
<1>13. Sent(cs, lost)
  <2>1. Intended(db', pass') \in Database /\ Existing(Intended(db', pass')) = ms
    <3>1. db' = db /\ db \in Database
      BY <1>11 DEF Drafted, TypeInv
    <3>2. pass'.dirty => pass'.seen.override \in BOOLEAN
      BY <1>9, <1>10
    <3> QED BY <1>10, <3>1, <3>2, IntendedIsDatabase DEF ms
  <2>2. Hidden \subseteq Nodes /\ lost \in SUBSET Nodes
    BY <1>6 DEF Hidden, lost, ms
  <2>3. ASSUME NEW n \in ms, n \notin lost
        PROVE  Fine(Final(n, cs, None), Intended(db', pass'), n)
    <3>1. Final(n, cs, None) = Wanted(d, n)
      BY <1>5, <2>3 DEF lost
    <3>2. Wanted(d, n) = Wanted(Intended(db', pass'), n)
      BY <1>11, <2>3 DEF lost, Drafted, ms
    <3> QED BY <2>1, <3>1, <3>2, FineWanted
  <2> QED BY <1>5, <1>12, <2>1, <2>2, <2>3 DEF Sent
<1>14. LinkTyped'
  BY <1>4, <1>13, SentTyped DEF Draft, Others
<1>15. TypeInv'
  BY <1>9, <1>10, <1>11, <1>14, DraftedTyped
<1>16. ms \subseteq Addressed(cs) \cup lost
  BY <1>5 DEF lost
<1>17. \E cs0, lost0 : Sent(cs0, lost0) /\ ms \subseteq Addressed(cs0) \cup lost0
  BY <1>13, <1>16
<1> QED BY <1>2, <1>4, <1>9, <1>10, <1>11, <1>15, <1>17 DEF ms

LEMMA HandleVoltageTyped ==
  ASSUME TypeInv, pass.on, NEW i \in pass.todo, HandleVoltage(i)
  PROVE  /\ TypeInv' /\ Drafted(i) /\ Intended(db', pass') = Intended(db, pass)
         /\ events[i].kind = "voltage"
         /\ pass'.dirty = pass.dirty /\ pass'.seen.override \in {None, View.override}
         /\ \E cs, lost :
              /\ Sent(cs, lost) /\ Addressed(cs) = Worth(View, Existing(db))
              /\ Unsure(Existing(db)) \subseteq lost
              /\ \A m \in Existing(db) \ lost : Wanted(View, m) = Wanted(Intended(db, pass), m)
<1> DEFINE ms == Existing(db)
           w == Worth(View, ms)
           cs == SetToSeq({Configure(View, m) : m \in w})
           lost == Unsure(ms) \cup {n \in ms \cap Existing(db) :
                                      Wanted(View, n) # Wanted(Intended(db, pass'), n)}
<1>1. /\ pass \in PassRecord /\ View \in Database /\ Existing(View) = ms /\ pass.dirty \in BOOLEAN
      /\ pass.dirty => View.override = pass.seen.override /\ pass.seen.override \in BOOLEAN
  BY ViewIsDatabase DEF TypeInv, PassTyped, PassRecord
<1>2. PICK b \in BOOLEAN : b = pass.dirty
  BY <1>1
<1>3. Draft(i, ms, View, b, cs, Unsure(ms)) /\ events[i].kind = "voltage"
  BY <1>2 DEF HandleVoltage
<1>4. Tells(cs, View, w) /\ w \subseteq ms
  <2>1. w \in SUBSET Existing(View)
    BY <1>1 DEF Worth
  <2> HIDE DEF w
  <2> QED BY <1>1, <2>1, TellEach
<1>5. ms \subseteq Nodes /\ Unsure(ms) \subseteq ms
  BY DEF Existing, Unsure
<1> HIDE DEF cs, lost, ms, w
<1>6. PICK s \in {Seen(ms, View), [Idle.seen EXCEPT !.override = IF b THEN View.override ELSE None]} :
        pass' = [pass EXCEPT !.todo = @ \ {i}, !.drafted = @ \cup {i}, !.dirty = b, !.seen = s]
  BY <1>3 DEF Draft
<1>7. s = Seen(ms, View) \/ s = Forgotten(View.override) \/ (~b /\ s = Forgotten(None))
  BY <1>6 DEF Forgotten
<1>8. s \in Sighting /\ s.override \in {None, View.override} /\ (b => s.override = View.override)
  <2>1. ms \in SUBSET Existing(View)
    BY <1>1
  <2> QED BY <1>1, <1>7, <2>1, SightingKept
<1>9. /\ pass' \in PassRecord /\ pass'.on = pass.on /\ pass'.zeroing = pass.zeroing
      /\ pass'.todo = pass.todo \ {i} /\ pass'.drafted = pass.drafted \cup {i}
      /\ pass'.dirty = b /\ pass'.seen = s
  <2>1. i \in Nat
    BY <1>1 DEF PassRecord
  <2> QED BY <1>1, <1>6, <1>8, <2>1 DEF PassRecord
<1>10. Drafted(i)
  BY <1>3, <1>9 DEF Draft, Drafted, Others
<1>11. Intended(db', pass') = Intended(db, pass)
  BY <1>1, <1>2, <1>8, <1>9, <1>10 DEF Drafted, Intended
<1>12. Sends(queue, queue', gap, gap', told, listening, Intended(db', pass'), cs, lost)
  BY <1>3 DEF lost, Draft, Enqueue, Sends, Addressed, NotFine, Misled, LastTold, Final, Fine
<1>13. \A n \in ms \ lost : Wanted(View, n) = Wanted(Intended(db, pass), n)
  BY <1>10, <1>11 DEF lost, ms, Drafted
<1>14. Sent(cs, lost)
  <2>1. Intended(db', pass') \in Database /\ Existing(Intended(db', pass')) = ms
    BY <1>11, IntendedNow DEF ms
  <2>2. lost \in SUBSET Nodes
    BY <1>5 DEF lost
  <2>3. cs \in Seq(Order) /\ Addressed(cs) = w
    BY <1>4 DEF Tells
  <2>4. ASSUME NEW n \in ms, n \in w \ lost
        PROVE  Fine(Final(n, cs, None), Intended(db', pass'), n)
    <3>1. Final(n, cs, None) = Wanted(View, n)
      BY <1>4, <2>4 DEF Tells
    <3> QED BY <1>11, <1>13, <2>1, <2>4, <3>1, FineWanted
  <2> QED BY <1>12, <2>1, <2>2, <2>3, <2>4 DEF Sent
<1>15. LinkTyped'
  BY <1>3, <1>14, SentTyped DEF Draft, Others
<1>16. TypeInv'
  BY <1>1, <1>2, <1>8, <1>9, <1>10, <1>15, DraftedTyped
<1>17. Addressed(cs) = w /\ Unsure(ms) \subseteq lost
  BY <1>4 DEF Tells, lost
<1>18. \E cs0, lost0 : /\ Sent(cs0, lost0) /\ Addressed(cs0) = w /\ Unsure(ms) \subseteq lost0
                       /\ \A m \in ms \ lost0 : Wanted(View, m) = Wanted(Intended(db, pass), m)
  BY <1>13, <1>14, <1>17
<1> QED BY <1>2, <1>3, <1>8, <1>9, <1>10, <1>11, <1>16, <1>18 DEF ms, w

(* A commit: the events stay the same but for their marks and alerts.      *)
LEMMA CommittedTyped ==
  ASSUME TypeInv, Committed, UNCHANGED <<link, history>>, pass' \in PassRecord,
         pass'.todo \subseteq pass.todo, pass'.drafted = {}, ~pass'.dirty,
         pass'.zeroing \in {0} \cup pass.todo, pass'.on \/ pass' = Idle
  PROVE  /\ TypeInv' /\ Intended(db', pass') = Intended(db, pass) /\ db' = Intended(db, pass)
         /\ Existing(db') = Existing(db) /\ DOMAIN events' = DOMAIN events
         /\ \A i \in DOMAIN events :
              /\ events'[i].kind = events[i].kind /\ events'[i].of = events[i].of
              /\ (events'[i].done <=> events[i].done \/ i \in pass.drafted)
              /\ events'[i].alerts = events[i].alerts
                   + IF i \in pass.drafted /\ events[i].kind \in Alerting \ {"zero"} THEN 1
                     ELSE IF i \notin pass.drafted /\ i = pass'.zeroing THEN 1 ELSE 0
<1>1. db' = Intended(db, pass) /\ db' \in Database /\ Existing(db') = Existing(db)
  BY IntendedNow DEF Committed
<1>2. Intended(db', pass') = Intended(db, pass)
  BY <1>1 DEF Intended
<1> DEFINE next(i) ==
       IF i \in pass.drafted
       THEN [events[i] EXCEPT !.done = TRUE,
               !.alerts = @ + IF events[i].kind \in Alerting \ {"zero"} THEN 1 ELSE 0]
       ELSE IF i = pass'.zeroing THEN [events[i] EXCEPT !.alerts = @ + 1]
       ELSE events[i]
<1>3. events' = [i \in DOMAIN events |-> next(i)]
  BY DEF Committed
<1>4. DOMAIN events = 1..Len(events) /\ Len(events) \in Nat /\ \A i \in DOMAIN events : events[i] \in EventRecord
  BY DEF TypeInv, EventsTyped
<1>5. ASSUME NEW i \in DOMAIN events
      PROVE  /\ next(i) \in EventRecord
             /\ next(i).kind = events[i].kind /\ next(i).of = events[i].of
             /\ (next(i).done <=> events[i].done \/ i \in pass.drafted)
             /\ next(i).alerts = events[i].alerts
                   + IF i \in pass.drafted /\ events[i].kind \in Alerting \ {"zero"} THEN 1
                     ELSE IF i \notin pass.drafted /\ i = pass'.zeroing THEN 1 ELSE 0
  <2>1. events[i] \in EventRecord
    BY <1>4, <1>5
  <2>2. CASE i \in pass.drafted
    <3>1. PICK n \in {0, 1} : n = IF events[i].kind \in Alerting \ {"zero"} THEN 1 ELSE 0
      OBVIOUS
    <3>2. next(i) = [events[i] EXCEPT !.done = TRUE, !.alerts = @ + n]
      BY <2>2, <3>1
    <3>3. events[i].alerts \in Nat /\ events[i].alerts + n \in Nat
      BY <2>1 DEF EventRecord
    <3> HIDE DEF next
    <3>4. /\ next(i) \in EventRecord /\ next(i).done /\ next(i).alerts = events[i].alerts + n
          /\ next(i).kind = events[i].kind /\ next(i).of = events[i].of
      BY <2>1, <3>2, <3>3 DEF EventRecord
    <3> QED BY <2>2, <3>1, <3>4
  <2>3. CASE i \notin pass.drafted /\ i = pass'.zeroing
    <3>1. next(i) = [events[i] EXCEPT !.alerts = @ + 1]
      BY <2>3
    <3>2. events[i].alerts \in Nat
      BY <2>1 DEF EventRecord
    <3> HIDE DEF next
    <3> QED BY <2>1, <2>3, <3>1, <3>2 DEF EventRecord
  <2>4. CASE i \notin pass.drafted /\ i # pass'.zeroing
    <3>1. next(i) = events[i]
      BY <2>4
    <3>2. events[i].alerts \in Nat
      BY <2>1 DEF EventRecord
    <3> HIDE DEF next
    <3> QED BY <2>1, <2>4, <3>1, <3>2
  <2> QED BY <2>2, <2>3, <2>4
<1> HIDE DEF next
<1>6. events' \in Seq(EventRecord) /\ DOMAIN events' = DOMAIN events
  BY <1>3, <1>4, <1>5
<1>7. \A i \in DOMAIN events : events'[i] = next(i)
  BY <1>3
<1>8. EventsTyped' /\ EventsPlaced'
  BY <1>1, <1>5, <1>6, <1>7 DEF TypeInv, EventsTyped, EventsPlaced, OfMeter, history
<1>9. PassTyped'
  BY <1>6 DEF TypeInv, PassTyped
<1>10. LinkTyped'
  BY DEF TypeInv, LinkTyped, link, history
<1> QED BY <1>1, <1>2, <1>5, <1>6, <1>7, <1>8, <1>9, <1>10 DEF TypeInv

LEMMA HandleZeroTyped ==
  ASSUME TypeInv, pass.on, NEW i \in pass.todo, HandleZero(i)
  PROVE  /\ TypeInv' /\ Intended(db', pass') = Intended(db, pass) /\ db' = Intended(db, pass)
         /\ Existing(db') = Existing(db) /\ DOMAIN events' = DOMAIN events
         /\ \A j \in DOMAIN events :
              /\ events'[j].kind = events[j].kind /\ events'[j].of = events[j].of
              /\ (events'[j].done <=> events[j].done \/ j \in pass.drafted)
              /\ events'[j].alerts = events[j].alerts
                   + IF j \in pass.drafted /\ events[j].kind \in Alerting \ {"zero"} THEN 1
                     ELSE IF j \notin pass.drafted /\ j = pass'.zeroing THEN 1 ELSE 0
         /\ pass'.todo = pass.todo \ {i} /\ pass'.drafted = {} /\ pass'.zeroing = i
         /\ pass'.on /\ ~pass'.dirty /\ pass'.seen = Idle.seen
<1>1. pass.todo \in SUBSET Nat
  BY DEF TypeInv, PassTyped, PassRecord
<1>2. /\ pass' \in PassRecord /\ pass'.todo = pass.todo \ {i} /\ pass'.drafted = {}
      /\ pass'.zeroing = i /\ pass'.on /\ ~pass'.dirty /\ pass'.seen = Idle.seen
  <2>1. pass' = [Idle EXCEPT !.on = TRUE, !.todo = pass.todo \ {i}, !.zeroing = i]
    BY DEF HandleZero
  <2>2. i \in Nat /\ pass.todo \ {i} \in SUBSET Nat
    BY <1>1
  <2> QED BY <2>1, <2>2, IdleIsPass DEF PassRecord, Idle
<1>3. Committed /\ UNCHANGED <<link, history>>
  BY DEF HandleZero
<1> QED BY <1>2, <1>3, CommittedTyped

LEMMA PassEndsTyped ==
  ASSUME TypeInv, PassEnds
  PROVE  /\ TypeInv' /\ Intended(db', pass') = Intended(db, pass) /\ db' = Intended(db, pass)
         /\ Existing(db') = Existing(db) /\ DOMAIN events' = DOMAIN events
         /\ \A j \in DOMAIN events :
              /\ events'[j].kind = events[j].kind /\ events'[j].of = events[j].of
              /\ (events'[j].done <=> events[j].done \/ j \in pass.drafted)
              /\ events'[j].alerts = events[j].alerts
                   + IF j \in pass.drafted /\ events[j].kind \in Alerting \ {"zero"} THEN 1
                     ELSE IF j \notin pass.drafted /\ j = pass'.zeroing THEN 1 ELSE 0
         /\ pass' = Idle
<1>1. pass' = Idle /\ Committed /\ UNCHANGED <<link, history>>
  BY DEF PassEnds
<1>2. Idle.todo = {} /\ Idle.drafted = {} /\ ~Idle.dirty /\ Idle.zeroing = 0
  BY DEF Idle
<1> HIDE DEF Idle
<1>3. /\ pass' \in PassRecord /\ pass'.todo \subseteq pass.todo /\ pass'.drafted = {}
      /\ ~pass'.dirty /\ pass'.zeroing \in {0} \cup pass.todo
  BY <1>1, <1>2, IdleIsPass
<1> QED BY <1>1, <1>3, CommittedTyped

LEMMA BackToIdle ==
  ASSUME TypeInv, pass' = Idle, UNCHANGED <<db, events, gone>>, LinkTyped'
  PROVE  TypeInv' /\ Intended(db', pass') = db
<1>1. /\ Idle.todo = {} /\ Idle.drafted = {} /\ ~Idle.dirty /\ Idle.zeroing = 0
  BY DEF Idle
<1>2. PassTyped'
  BY <1>1, IdleIsPass DEF PassTyped
<1>3. Intended(db', pass') = db
  BY <1>1 DEF Intended
<1> QED BY <1>2, <1>3 DEF TypeInv, EventsTyped, EventsPlaced

LEMMA PassFailsTyped ==
  ASSUME TypeInv, PassFails
  PROVE  /\ TypeInv' /\ pass' = Idle /\ Intended(db', pass') = db
         /\ UNCHANGED <<db, events, link, history>>
<1>1. pass' = Idle /\ UNCHANGED <<db, events, link, history>>
  BY DEF PassFails
<1>2. LinkTyped' /\ gone' = gone
  BY <1>1 DEF TypeInv, LinkTyped, link, history
<1> QED BY <1>1, <1>2, BackToIdle

LEMMA ZeroedTyped ==
  ASSUME TypeInv, Zeroed
  PROVE  /\ TypeInv' /\ Existing(db') = Existing(db)
         /\ LET i == pass.zeroing
                m == events[i].of
            IN  /\ i # 0 /\ i \in DOMAIN events /\ m \in Existing(db)
                /\ \E f \in BOOLEAN : db' = [db EXCEPT !.rows[m].funded = f]
                /\ events' = Append(events, Event("paid", m)) /\ Event("paid", m) \in EventRecord
                /\ Event("paid", m).kind = "paid"
                /\ Event("paid", m).alerts = 0 /\ ~Event("paid", m).done
                /\ pass'.on = pass.on /\ pass'.todo = pass.todo /\ pass'.drafted = {i}
                /\ pass'.zeroing = 0 /\ pass'.dirty = pass.dirty /\ pass'.seen = pass.seen
                /\ \E cs : Sent(cs, Unsure({m})) /\ Addressed(cs) = Worth(db', {m})
<1> DEFINE i == pass.zeroing
           m == events[i].of
           e == Event("paid", m)
<1>1. i # 0 /\ i \in DOMAIN events /\ m \in Existing(db) /\ m \in Nodes
  BY DEF Zeroed, TypeInv, PassTyped, Existing
<1>2. PICK f \in BOOLEAN : db' = [db EXCEPT !.rows[m].funded = f]
  <2>1. db.rows[m].funded \in BOOLEAN
    BY <1>1, ExistingRow DEF TypeInv, Row
  <2>2. PICK f \in {FALSE, db.rows[m].funded} : db' = [db EXCEPT !.rows[m].funded = f]
    BY DEF Zeroed
  <2> HIDE DEF m
  <2> QED BY <2>1, <2>2
<1>3. /\ events' = Append(events, e) /\ gone' = gone /\ Others
      /\ pass' = [pass EXCEPT !.zeroing = 0, !.drafted = {i}]
      /\ Enqueue(SetToSeq({Configure(db', n) : n \in Worth(db', {m})}), Unsure({m}))
  BY DEF Zeroed
<1> HIDE DEF m
<1>4. db' \in Database /\ Existing(db') = Existing(db)
  BY <1>1, <1>2, FundedChanged
<1>5. e \in EventRecord /\ e.of = m /\ e.kind = "paid" /\ e.alerts = 0 /\ ~e.done
  BY <1>1, EventIsEvent DEF Kinds
<1> HIDE DEF e
<1>6. /\ pass' \in PassRecord /\ pass'.on = pass.on /\ pass'.todo = pass.todo /\ pass'.drafted = {i}
      /\ pass'.zeroing = 0 /\ pass'.dirty = pass.dirty /\ pass'.seen = pass.seen
  <2>1. i \in Nat /\ pass \in PassRecord
    BY DEF TypeInv, PassTyped, PassRecord
  <2> HIDE DEF i
  <2> QED BY <1>3, <2>1 DEF PassRecord
<1>7. /\ events' \in Seq(EventRecord) /\ DOMAIN events \subseteq DOMAIN events'
      /\ \A j \in DOMAIN events : events'[j] = events[j]
      /\ \A j \in DOMAIN events' \ DOMAIN events : events'[j] = e
  BY <1>3, <1>5, Appended DEF TypeInv, EventsTyped
<1>8. EventsTyped' /\ EventsPlaced'
  BY <1>1, <1>3, <1>4, <1>5, <1>7 DEF TypeInv, EventsTyped, EventsPlaced
<1>9. PassTyped'
  <2>1. pass.on
    BY <1>1 DEF TypeInv, PassTyped, Idle
  <2> QED BY <1>1, <1>6, <1>7, <2>1 DEF TypeInv, PassTyped
<1>10. PICK cs : Sent(cs, Unsure({m})) /\ Addressed(cs) = Worth(db', {m})
  BY <1>1, <1>3, <1>4, <1>6, <1>9, WorthSent
<1>11. LinkTyped'
  BY <1>3, <1>10, SentTyped DEF Others
<1>12. TypeInv'
  BY <1>4, <1>8, <1>9, <1>11 DEF TypeInv
<1> QED BY <1>1, <1>2, <1>3, <1>4, <1>5, <1>6, <1>10, <1>12 DEF m, e

-----------------------------------------------------------------------------
(* The steps of the provider's side.                                       *)

LEMMA LinkStepTyped ==
  ASSUME TypeInv, UNCHANGED <<db, events, pass, gone>>, LinkTyped'
  PROVE  TypeInv' /\ Intended(db', pass') = Intended(db, pass)
BY DEF TypeInv, EventsTyped, PassTyped, EventsPlaced

LEMMA DispatchTyped ==
  ASSUME TypeInv, Dispatch
  PROVE  TypeInv' /\ Intended(db', pass') = Intended(db, pass)
<1>1. queue # <<>> /\ queue' = Tail(queue) /\ UNCHANGED <<db, events, pass, listening, allowed, recon, gone>>
  BY DEF Dispatch, state
<1>2. Head(queue) \in Order /\ queue' \in Seq(Order) /\ listening
  BY <1>1, HeadTailProperties DEF TypeInv, LinkTyped
<1>3. told' \in [Nodes -> {None} \cup Setting] /\ gap' \subseteq Nodes
  <2>1. CASE Accepted(Head(queue)) /\ UNCHANGED gap
    BY <1>2, <2>1 DEF TypeInv, LinkTyped, Accepted, Order
  <2>2. CASE Refused(Head(queue).node)
    BY <2>2 DEF TypeInv, LinkTyped, Refused, Misled, Existing
  <2> QED BY <2>1, <2>2 DEF Dispatch
<1>4. LinkTyped'
  BY <1>1, <1>2, <1>3 DEF TypeInv, LinkTyped
<1> QED BY <1>1, <1>4, LinkStepTyped

LEMMA LoadTyped ==
  ASSUME TypeInv, Load
  PROVE  /\ TypeInv' /\ Intended(db', pass') = Intended(db, pass)
         /\ recon'.phase = "sending" /\ DOMAIN recon'.left = Existing(db)
<1>1. /\ recon' = [recon EXCEPT !.phase = "sending", !.left = Loaded(db)]
      /\ recon.phase = "owed"
      /\ gap' \subseteq gap /\ UNCHANGED <<db, events, pass, queue, listening, allowed, told, gone>>
  BY DEF Load, state
<1>2. PICK b \in BOOLEAN : recon' = [phase |-> "sending", resumes |-> b, left |-> Loaded(db)]
  <2>1. recon \in Reconciles
    BY DEF TypeInv, LinkTyped
  <2>2. recon # NoReconcile /\ recon \notin [phase : {"sending"}, resumes : BOOLEAN, left : Rosters]
    BY <1>1 DEF NoReconcile
  <2>3. recon = Owed(TRUE) \/ recon = Owed(FALSE)
    BY <2>1, <2>2 DEF Reconciles
  <2>4. PICK b \in BOOLEAN : recon = Owed(b)
    BY <2>3
  <2> QED BY <1>1, <2>4 DEF Owed
<1>3. /\ DOMAIN Loaded(db) = Existing(db) /\ \A m \in Existing(db) : Loaded(db)[m] \in Setting
      /\ Loaded(db) \in Rosters
  <2>1. \A m \in Existing(db) : Command(db, db.rows[m]) \in Setting
    BY WantedIsSetting DEF TypeInv, Wanted
  <2>2. Existing(db) \in SUBSET Nodes
    BY DEF Existing
  <2>3. Loaded(db) \in [Existing(db) -> Setting]
    BY <2>1 DEF Loaded
  <2> QED BY <2>2, <2>3 DEF Rosters
<1>5. recon' \in Reconciles
  BY <1>2, <1>3 DEF Reconciles
<1>4. LinkTyped'
  BY <1>1, <1>2, <1>3, <1>5 DEF TypeInv, LinkTyped, Existing
<1> QED BY <1>1, <1>2, <1>3, <1>4, LinkStepTyped

LEMMA ReconcileNextTyped ==
  ASSUME TypeInv, ReconcileNext
  PROVE  /\ TypeInv' /\ Intended(db', pass') = Intended(db, pass)
         /\ UNCHANGED <<db, events, pass, queue, listening>>
         /\ \E m \in DOMAIN recon.left :
              /\ recon.left[m] \in Setting
              /\ recon'.phase = "sending" /\ DOMAIN recon'.left = DOMAIN recon.left \ {m}
              /\ \/ /\ told' = [told EXCEPT ![m] = recon.left[m]]
                    /\ gap' = IF m \in Existing(db) /\ Waiting(m, queue) = {}
                                 /\ ~Agree(recon.left[m], Wanted(Intended(db, pass), m))
                              THEN gap \cup {m} ELSE gap
                 \/ Refused(m)
<1>1. PICK m \in DOMAIN recon.left :
        /\ recon' = [recon EXCEPT !.left = [n \in DOMAIN @ \ {m} |-> @[n]]]
        /\ UNCHANGED queue
        /\ \/ /\ told' = [told EXCEPT ![m] = recon.left[m]] /\ UNCHANGED troubles
              /\ gap' = IF m \in Existing(db) /\ Waiting(m, queue) = {}
                           /\ ~Agree(recon.left[m], Wanted(Intended(db, pass), m))
                        THEN gap \cup {m} ELSE gap
           \/ Refused(m)
  BY DEF ReconcileNext
<1>2. UNCHANGED <<db, events, pass, queue, listening, allowed, gone>>
  BY <1>1 DEF ReconcileNext, state
<1>3. m \in Nodes /\ recon.left[m] \in Setting
  BY DEF TypeInv, LinkTyped
<1>4. told' \in [Nodes -> {None} \cup Setting] /\ gap' \subseteq Nodes
  <2>1. CASE Refused(m)
    BY <2>1 DEF TypeInv, LinkTyped, Refused, Misled, Existing
  <2>2. CASE ~Refused(m)
    BY <1>1, <1>3, <2>2 DEF TypeInv, LinkTyped
  <2> QED BY <2>1, <2>2
<1> DEFINE left == [n \in DOMAIN recon.left \ {m} |-> recon.left[n]]
<1>5. /\ DOMAIN left \subseteq Nodes /\ \A n \in DOMAIN left : left[n] \in Setting
      /\ left \in Rosters /\ DOMAIN left = DOMAIN recon.left \ {m}
  <2>1. /\ DOMAIN left \subseteq Nodes /\ \A n \in DOMAIN left : left[n] \in Setting
        /\ DOMAIN left = DOMAIN recon.left \ {m}
    BY DEF TypeInv, LinkTyped
  <2>2. left \in [DOMAIN left -> Setting] /\ DOMAIN left \in SUBSET Nodes
    BY <2>1
  <2> HIDE DEF left
  <2> QED BY <2>1, <2>2 DEF Rosters
<1>7. PICK b \in BOOLEAN : recon' = [phase |-> "sending", resumes |-> b, left |-> left]
  <2>1. recon \in Reconciles /\ recon.phase = "sending"
    BY DEF TypeInv, LinkTyped, ReconcileNext, Reconciling
  <2>2. recon \in [phase : {"sending"}, resumes : BOOLEAN, left : Rosters]
    BY <2>1 DEF Reconciles, NoReconcile, Owed
  <2>3. recon' = [recon EXCEPT !.left = left]
    BY <1>1
  <2> HIDE DEF left
  <2> QED BY <2>2, <2>3
<1> HIDE DEF left
<1>8. recon' \in Reconciles /\ recon'.left = left /\ recon'.phase = "sending"
  BY <1>5, <1>7 DEF Reconciles
<1>6. LinkTyped'
  BY <1>2, <1>4, <1>5, <1>8 DEF TypeInv, LinkTyped
<1> QED BY <1>1, <1>2, <1>3, <1>5, <1>6, <1>8, LinkStepTyped

LEMMA NoReconcileTyped ==
  ASSUME NEW b \in BOOLEAN
  PROVE  /\ DOMAIN NoReconcile.left \subseteq Nodes /\ DOMAIN Owed(b).left \subseteq Nodes
         /\ DOMAIN NoReconcile.left = {} /\ DOMAIN Owed(b).left = {}
         /\ Owed(b).phase = "owed" /\ NoReconcile.phase = "none"
         /\ NoReconcile \in Reconciles /\ Owed(b) \in Reconciles
<1>1. b = TRUE \/ b = FALSE
  OBVIOUS
<1>2. NoReconcile \in Reconciles /\ Owed(b) \in Reconciles
  BY <1>1 DEF Reconciles
<1> QED BY <1>2 DEF NoReconcile, Owed

LEMMA ReconcileEndsTyped ==
  ASSUME TypeInv, ReconcileEnds
  PROVE  TypeInv' /\ Intended(db', pass') = Intended(db, pass)
<1>1. recon' = NoReconcile /\ UNCHANGED <<db, events, pass, queue, listening, told, gone, gap>>
  BY DEF ReconcileEnds, state, history
<1>2. (allowed \/ recon.resumes) \in BOOLEAN
  OBVIOUS
<1>3. allowed' \in BOOLEAN
  BY <1>2 DEF ReconcileEnds
<1>4. LinkTyped'
  BY <1>1, <1>3, NoReconcileTyped DEF TypeInv, LinkTyped
<1> QED BY <1>1, <1>4, LinkStepTyped

LEMMA PauseTyped ==
  ASSUME TypeInv, Pause
  PROVE  /\ TypeInv' /\ Intended(db', pass') = Intended(db, pass)
         /\ UNCHANGED <<db, events, pass, queue, listening, recon, told, gap>>
<1>1. allowed' = FALSE /\ UNCHANGED <<db, events, pass, queue, listening, recon, told, gone, gap>>
  BY DEF Pause, state, history
<1>2. LinkTyped'
  BY <1>1 DEF TypeInv, LinkTyped
<1> QED BY <1>1, <1>2, LinkStepTyped

LEMMA GatewayBackTyped ==
  ASSUME TypeInv, GatewayBack
  PROVE  /\ TypeInv' /\ Intended(db', pass') = Intended(db, pass)
         /\ recon = NoReconcile /\ recon'.phase = "owed"
         /\ UNCHANGED <<db, events, pass, queue, listening, told, gap>>
<1>1. /\ recon = NoReconcile /\ allowed' \in BOOLEAN
      /\ UNCHANGED <<db, events, pass, queue, listening, told, gone, gap>>
  BY DEF GatewayBack, state, history
<1>2. PICK b \in BOOLEAN : recon' = Owed(b)
  <2>1. (~allowed') \in BOOLEAN
    OBVIOUS
  <2> QED BY <2>1 DEF GatewayBack
<1>3. LinkTyped' /\ recon'.phase = "owed"
  BY <1>1, <1>2, NoReconcileTyped DEF TypeInv, LinkTyped
<1> QED BY <1>1, <1>3, LinkStepTyped

LEMMA CrashTyped ==
  ASSUME TypeInv, Crash
  PROVE  /\ TypeInv' /\ pass' = Idle /\ queue' = <<>> /\ ~listening' /\ db' = db
         /\ UNCHANGED <<events, asked, mixed>> /\ Intended(db', pass') = db
<1>1. /\ pass' = Idle /\ queue' = <<>> /\ recon' = NoReconcile /\ listening' = FALSE
      /\ allowed' = TRUE /\ UNCHANGED <<db, events, told, gone, gap, asked, mixed>>
  BY DEF Crash, history
<1>2. queue' \in Seq(Order)
  BY <1>1
<1>3. LinkTyped'
  BY <1>1, <1>2, NoReconcileTyped DEF TypeInv, LinkTyped
<1> QED BY <1>1, <1>3, BackToIdle

LEMMA RegisterTyped ==
  ASSUME TypeInv, Register
  PROVE  /\ TypeInv' /\ Intended(db', pass') = Intended(db, pass)
         /\ recon'.phase = "owed" /\ queue = <<>>
         /\ UNCHANGED <<db, events, pass, queue, told, gap>>
<1>1. /\ ~listening /\ listening' = TRUE /\ recon' = Owed(FALSE)
      /\ UNCHANGED <<db, events, pass, queue, allowed, told, gone, gap>>
  BY DEF Register, state, history
<1>2. LinkTyped' /\ recon'.phase = "owed"
  BY <1>1, NoReconcileTyped DEF TypeInv, LinkTyped
<1> QED BY <1>1, <1>2, LinkStepTyped DEF TypeInv, LinkTyped

-----------------------------------------------------------------------------
LEMMA InitTyped ==
  ASSUME Init
  PROVE  /\ TypeInv /\ events = <<>> /\ pass = Idle /\ queue = <<>> /\ gap = {} /\ ~mixed
         /\ db.override = asked
         /\ \A m \in Existing(db) : Final(m, queue, told[m]) = Wanted(Intended(db, pass), m)
<1> DEFINE plain(m, hides) ==
             [mode |-> "auto", funded |-> TRUE, used |-> None,
              running |-> FirstTerms[FirstTariff].planned,
              tariff |-> FirstTariff, hidden |-> m \in hides, known |-> None]
           D(hides, o) == [rows |-> [m \in Nodes |-> plain(m, hides)], override |-> o,
                           tariffs |-> FirstTerms, voltage |-> FirstVoltage, hour |-> FirstHour]
<1>1. PICK hides \in SUBSET (Nodes \ Spares), o \in BOOLEAN :
        /\ told = [m \in Nodes |-> IF m \in Spares THEN None ELSE Command(D(hides, o), plain(m, hides))]
        /\ db = [D(hides, o) EXCEPT !.rows = [m \in Nodes |->
                   IF m \in Spares THEN None ELSE [plain(m, hides) EXCEPT !.known = told[m]]]]
        /\ asked = o
  BY DEF Init
<1> DEFINE d == D(hides, o)
           p(m) == plain(m, hides)
<1>2. /\ \A m \in Nodes : p(m) \in Row
      /\ d \in Database /\ d.override = o
  <2>0. FirstTerms[FirstTariff].planned \in BOOLEAN
    BY OpsAssumption DEF Terms
  <2>1. \A m \in Nodes : p(m) \in Row
    BY <2>0, OpsAssumption DEF Row, Modes
  <2>2. [m \in Nodes |-> p(m)] \in [Nodes -> {None} \cup Row]
    BY <2>1
  <2> HIDE DEF p
  <2>3. FirstTerms \in [Tariffs -> Terms] /\ FirstVoltage \in Voltages /\ FirstHour \in Hours
    BY OpsAssumption
  <2> HIDE DEF plain
  <2> QED BY <2>1, <2>2, <2>3 DEF Database, p
<1>3. \A m \in Nodes : Command(d, p(m)) \in Setting
  <2> HIDE DEF d, p
  <2> QED BY <1>2, CommandIsSetting
<1>4. told \in [Nodes -> {None} \cup Setting] /\ \A m \in Nodes \ Spares : told[m] \in Setting
  <2> HIDE DEF D, plain
  <2> QED BY <1>1, <1>3
<1> DEFINE r(m) == [p(m) EXCEPT !.known = told[m]]
           rows == [m \in Nodes |-> IF m \in Spares THEN None ELSE r(m)]
<1>5. \A m \in Nodes \ Spares :
        /\ r(m) \in Row /\ r(m).mode = p(m).mode /\ r(m).running = p(m).running
        /\ r(m).funded = p(m).funded /\ r(m).used = p(m).used /\ r(m).tariff = p(m).tariff
  <2> SUFFICES ASSUME NEW m \in Nodes \ Spares
               PROVE  /\ r(m) \in Row /\ r(m).mode = p(m).mode /\ r(m).running = p(m).running
                      /\ r(m).funded = p(m).funded /\ r(m).used = p(m).used
                      /\ r(m).tariff = p(m).tariff
    OBVIOUS
  <2>1. p(m) \in Row /\ told[m] \in Setting
    BY <1>2, <1>4
  <2> HIDE DEF p
  <2> QED BY <2>1 DEF Row
<1>6. db = [d EXCEPT !.rows = rows]
  BY <1>1
<1> HIDE DEF r, p, d, plain, D
<1>7. rows \in [Nodes -> {None} \cup Row] /\ \A m \in Nodes : rows[m] # None <=> m \notin Spares
  BY <1>5, NoneAssumption
<1>8. \A m \in Nodes \ Spares : rows[m] = r(m)
  OBVIOUS
<1> HIDE DEF rows
<1>9. /\ db \in Database /\ db.rows = rows /\ db.override = o
      /\ db.tariffs = d.tariffs /\ db.voltage = d.voltage /\ db.hour = d.hour
  BY <1>2, <1>6, <1>7 DEF Database
<1>10. Existing(db) = Nodes \ Spares
  BY <1>7, <1>9 DEF Existing
<1>11. /\ events = <<>> /\ pass = Idle /\ queue = <<>> /\ gap = {} /\ mixed = FALSE /\ gone = {}
       /\ listening = TRUE /\ allowed = TRUE /\ recon = NoReconcile
  BY DEF Init
<1>12. EventsTyped /\ EventsPlaced
  BY <1>11 DEF EventsTyped, EventsPlaced
<1>13. PassTyped
  <2>1. Idle.todo = {} /\ Idle.drafted = {} /\ ~Idle.dirty /\ Idle.zeroing = 0
    BY DEF Idle
  <2> QED BY <1>11, <2>1, IdleIsPass DEF PassTyped
<1>14. LinkTyped
  BY <1>4, <1>11, NoReconcileTyped DEF LinkTyped
<1>15. TypeInv
  BY <1>9, <1>12, <1>13, <1>14 DEF TypeInv
<1>16. ASSUME NEW m \in Existing(db)
       PROVE  Final(m, queue, told[m]) = Wanted(Intended(db, pass), m)
  <2>1. Waiting(m, queue) = {}
    BY <1>11 DEF Waiting
  <2>2. Intended(db, pass) = db
    BY <1>11 DEF Intended, Idle
  <2>3. told[m] = Command(d, p(m))
    BY <1>1, <1>10 DEF d, p
  <2>4. Command(db, r(m)) = Command(d, p(m))
    <3>1. /\ r(m).mode = p(m).mode /\ r(m).running = p(m).running
          /\ r(m).funded = p(m).funded /\ r(m).used = p(m).used /\ r(m).tariff = p(m).tariff
      BY <1>5, <1>10
    <3>2. StateValue(db, r(m)) <=> StateValue(d, p(m))
      BY <1>9, <3>1, Zenon DEF StateValue
    <3>3. (StateValue(db, r(m)) /\ ~db.override) = (StateValue(d, p(m)) /\ ~d.override)
      BY <1>2, <1>9, <3>2
    <3>4. PowerLimit(db, r(m)) = PowerLimit(d, p(m))
      BY <1>9, <3>1 DEF PowerLimit, LoadLimit
    <3> QED BY <3>3, <3>4 DEF Command
  <2> QED BY <1>8, <1>9, <1>10, <2>1, <2>2, <2>3, <2>4 DEF Wanted, Final
<1> QED BY <1>1, <1>9, <1>11, <1>15, <1>16

LEMMA TypeInvTypeOK ==
  ASSUME TypeInv, EditsTyped
  PROVE  TypeOK
<1>1. \A i \in DOMAIN events : events[i] \in EventRecord
  BY DEF TypeInv, EventsTyped
<1>2. \A i \in DOMAIN queue : queue[i] \in Order
  BY DEF TypeInv, LinkTyped
<1>3. \A e \in Editors : edits[e] = NoEdit \/ edits[e].of \in Tariffs
  BY DEF EditsTyped, EditRecord
<1> QED BY <1>1, <1>2, <1>3 DEF TypeInv, TypeOK, EventRecord, Order, PassTyped, LinkTyped

(* The steps, one by one.                                                  *)
LEMMA NextTyped ==
  ASSUME TypeInv, EditsTyped, Next
  PROVE  TypeInv'
<1>1. ASSUME NEW m \in Nodes, NEW mode \in Modes, SetMode(m, mode) PROVE TypeInv'
  BY <1>1, SetModeTyped
<1>2. ASSUME NEW m \in Nodes, ResetMeter(m) PROVE TypeInv'
  BY <1>2, ResetMeterTyped
<1>3. ASSUME NEW m \in Nodes, RequestZero(m) PROVE TypeInv'
  BY <1>3, RequestZeroTyped
<1>4. ASSUME NEW m \in Nodes, RemoveMeter(m) PROVE TypeInv'
  BY <1>4, RemoveMeterTyped
<1>5. ASSUME NEW m \in Nodes, NEW mode \in Modes, NEW t \in Tariffs, NEW h \in BOOLEAN,
             EditMeter(m, mode, t, h) PROVE TypeInv'
  BY <1>5, EditMeterTyped
<1>6. ASSUME NEW o \in BOOLEAN, RequestOverride(o) PROVE TypeInv'
  BY <1>6, RequestOverrideTyped
<1>7. CASE EndOverride
  BY <1>7, EndOverrideTyped
<1>8. ASSUME NEW e \in Editors, NEW t \in Tariffs, ReadTariff(e, t) PROVE TypeInv'
  BY <1>8, ReadTariffTyped
<1>9. ASSUME NEW v \in Voltages, ChangeVoltage(v) PROVE TypeInv'
  BY <1>9, ChangeVoltageTyped
<1>10. ASSUME NEW m \in Nodes, NEW f \in BOOLEAN, NEW here \in BOOLEAN,
              ProcessTransaction(m, f, here) PROVE TypeInv'
  BY <1>10, ProcessTransactionTyped
<1>11. ASSUME NEW m \in Nodes, NEW t \in Tariffs, NEW here \in BOOLEAN,
              CreateMeter(m, t, here) PROVE TypeInv'
  BY <1>11, CreateMeterTyped
<1>12. CASE Requests
  BY <1>1, <1>2, <1>3, <1>4, <1>5, <1>6, <1>7, <1>8, <1>9, <1>10, <1>11, <1>12 DEF Requests
<1>13. ASSUME NEW m \in Nodes, Reading(m) PROVE TypeInv'
  BY <1>13, ReadingTyped
<1>14. ASSUME NEW i \in pass.todo, pass.on, ~Poison(events[i]),
              HandleChanged(i) \/ HandlePaid(i) \/ HandleOverride(i) \/ HandleVoltage(i) \/ HandleZero(i)
       PROVE  TypeInv'
  BY <1>14, HandleChangedTyped, HandlePaidTyped, HandleOverrideTyped, HandleVoltageTyped,
     HandleZeroTyped
<1>15. CASE Pass
  BY <1>14, <1>15, StartPassTyped, ZeroedTyped, PassEndsTyped, PassFailsTyped DEF Pass, Handle
<1>16. CASE Reconcile
  BY <1>16, LoadTyped, ReconcileNextTyped, ReconcileEndsTyped DEF Reconcile
<1>17. CASE Edit \/ HourPasses \/ \E e \in Editors : EditFails(e)
  BY <1>17, SaveTariffTyped, TellTariffTyped, EditFailsTyped, HourPassesTyped DEF Edit
<1> QED BY <1>12, <1>13, <1>15, <1>16, <1>17, DispatchTyped, PauseTyped, GatewayBackTyped,
           CrashTyped, RegisterTyped DEF Next

LEMMA StutterTyped ==
  ASSUME TypeInv, UNCHANGED vars
  PROVE  TypeInv'
BY DEF TypeInv, EventsTyped, PassTyped, LinkTyped, EventsPlaced, vars, state, link, history

LEMMA TypeInvariance == Spec => [](TypeInv /\ EditsTyped)
<1>1. Init => TypeInv /\ EditsTyped
  BY InitTyped DEF Init, EditsTyped, EditRecord
<1>2. TypeInv /\ EditsTyped /\ [Next]_vars => TypeInv' /\ EditsTyped'
  BY NextTyped, EditsNext, StutterTyped DEF EditsTyped, vars, state
<1> QED BY <1>1, <1>2, PTL DEF Spec

(* Every variable always has its type; in particular a command is only     *)
(* ever made for a meter that has a row, though handlers run for events    *)
(* about meters that were removed.                                         *)
THEOREM TypeCorrect == Spec => []TypeOK
<1>1. TypeInv /\ EditsTyped => TypeOK
  BY TypeInvTypeOK
<1> QED BY <1>1, TypeInvariance, PTL

-----------------------------------------------------------------------------
(* What the requests make of the events: they only add some.               *)

(* An event has had its alert when it is processed, and only then, but for *)
(* one that zeroes a wallet, whose alert comes first.                      *)
EventAlerted(e) ==
  /\ ~e.done /\ e.kind # "zero" => e.alerts = 0
  /\ e.done => e.alerts > 0 \/ e.kind \notin Alerting
  /\ e.kind # "zero" => e.alerts <= 1

Switching(e) == e.kind \in {"on", "off"}

(* New events, and what they may be about.                                 *)
EventsAdded ==
  /\ DOMAIN events \subseteq DOMAIN events'
  /\ \A i \in DOMAIN events : events'[i] = events[i]
  /\ \A i \in DOMAIN events' \ DOMAIN events : EventAlerted(events'[i])

NoSwitch == \A i \in DOMAIN events' \ DOMAIN events : ~Switching(events'[i])

LEMMA EventAdded ==
  ASSUME TypeInv, NEW k \in Kinds, NEW x \in Nodes \cup Tariffs \cup {None},
         events' = Append(events, Event(k, x)) \/ events' = Append(events, DoneEvent(k, x))
  PROVE  /\ EventsAdded /\ (k \notin {"on", "off"} => NoSwitch)
         /\ Len(events) + 1 \in DOMAIN events' \ DOMAIN events
         /\ \A i \in DOMAIN events' \ DOMAIN events : i = Len(events) + 1 /\ events'[i].kind = k
         /\ events' = Append(events, Event(k, x)) => events'[Len(events) + 1] = Event(k, x)
<1>1. PICK e \in {Event(k, x), DoneEvent(k, x)} : events' = Append(events, e)
  OBVIOUS
<1>2. /\ Event(k, x) \in EventRecord /\ DoneEvent(k, x) \in EventRecord
      /\ Event(k, x).kind = k /\ ~Event(k, x).done /\ Event(k, x).alerts = 0
      /\ DoneEvent(k, x).kind = k /\ DoneEvent(k, x).done
      /\ DoneEvent(k, x).alerts = IF k \in Alerting THEN 1 ELSE 0
  BY EventIsEvent
<1>3. e \in EventRecord /\ e.kind = k /\ EventAlerted(e)
  BY <1>2 DEF EventAlerted
<1>4. /\ DOMAIN events' = DOMAIN events \cup {Len(events) + 1}
      /\ \A i \in DOMAIN events : events'[i] = events[i]
      /\ events'[Len(events) + 1] = e /\ Len(events) + 1 \notin DOMAIN events
  BY <1>1, <1>3, Appended DEF TypeInv, EventsTyped
<1>5. events' = Append(events, Event(k, x)) => events'[Len(events) + 1] = Event(k, x)
  BY <1>2, Appended DEF TypeInv, EventsTyped
<1> QED BY <1>3, <1>4, <1>5 DEF EventsAdded, NoSwitch, Switching

LEMMA EditEvents ==
  ASSUME TypeInv, NEW m \in Nodes, NEW mode \in Modes, NEW t \in Tariffs, NEW h \in BOOLEAN,
         EditMeter(m, mode, t, h)
  PROVE  EventsAdded /\ NoSwitch
<1> DEFINE r == db.rows[m]
           n == (IF mode # r.mode THEN 1 ELSE 0) + (IF t # r.tariff THEN 1 ELSE 0)
           e == DoneEvent("changed", m)
           es == [i \in 1..n |-> e]
<1>1. e \in EventRecord /\ e.kind = "changed" /\ EventAlerted(e)
  <2>1. "changed" \in Kinds
    BY DEF Kinds
  <2>2. e \in EventRecord /\ e.kind = "changed" /\ e.done /\ e.alerts = IF "changed" \in Alerting THEN 1 ELSE 0
    BY <2>1, EventIsEvent
  <2>3. e.alerts = 1
    BY <2>2 DEF Alerting
  <2> QED BY <2>2, <2>3 DEF EventAlerted
<1>2. n \in Nat /\ events' = events \o es
  BY DEF EditMeter
<1> HIDE DEF n, e
<1>3. es \in Seq(EventRecord) /\ \A i \in DOMAIN es : es[i] = e
  BY <1>1, <1>2, Copies
<1> HIDE DEF es
<1>4. events \in Seq(EventRecord)
  BY DEF TypeInv, EventsTyped
<1>5. /\ events' \in Seq(EventRecord) /\ Len(events') = Len(events) + Len(es)
      /\ \A i \in 1..(Len(events) + Len(es)) :
           events'[i] = IF i <= Len(events) THEN events[i] ELSE es[i - Len(events)]
  BY <1>2, <1>3, <1>4, ConcatProperties
<1>6. /\ Len(events) \in Nat /\ Len(es) \in Nat /\ DOMAIN events = 1..Len(events)
      /\ DOMAIN es = 1..Len(es) /\ DOMAIN events' = 1..Len(events')
  BY <1>3, <1>4, <1>5, LenProperties
<1>7. ASSUME NEW i \in DOMAIN events' \ DOMAIN events
      PROVE  events'[i] = e
  <2>1. i - Len(events) \in DOMAIN es /\ events'[i] = es[i - Len(events)]
    BY <1>5, <1>6, <1>7
  <2> QED BY <1>3, <2>1
<1> QED BY <1>1, <1>5, <1>6, <1>7 DEF EventsAdded, NoSwitch, Switching

(* Any request but those about the override leaves it alone.               *)
LEMMA RequestEvents ==
  ASSUME TypeInv, Requests
  PROVE  /\ pass' = pass /\ EventsAdded
         /\ \/ \E o \in BOOLEAN : RequestOverride(o)
            \/ EndOverride
            \/ NoSwitch /\ db'.override = db.override /\ UNCHANGED <<asked, mixed>>
<1>k. \A k \in {"changed", "paid", "zero", "created", "power", "voltage"} :
        k \in Kinds /\ k \notin {"on", "off"}
  BY DEF Kinds
<1>d. db \in Database
  BY DEF TypeInv
<1>1. ASSUME NEW m \in Nodes, NEW mode \in Modes, SetMode(m, mode)
      PROVE  /\ pass' = pass /\ EventsAdded
             /\ NoSwitch /\ db'.override = db.override /\ UNCHANGED <<asked, mixed>>
  BY <1>1, <1>d, <1>k, EventAdded DEF SetMode, Database
<1>2. ASSUME NEW m \in Nodes, ResetMeter(m) \/ RequestZero(m) \/ RemoveMeter(m)
      PROVE  /\ pass' = pass /\ EventsAdded
             /\ NoSwitch /\ db'.override = db.override /\ UNCHANGED <<asked, mixed>>
  <2>1. CASE ResetMeter(m)
    BY <2>1, <1>k, EventAdded DEF ResetMeter
  <2>2. CASE RequestZero(m)
    BY <2>2, <1>k, EventAdded DEF RequestZero
  <2>3. CASE RemoveMeter(m)
    BY <2>3, <1>d DEF RemoveMeter, EventsAdded, NoSwitch, Database
  <2> QED BY <1>2, <2>1, <2>2, <2>3
<1>3. ASSUME NEW m \in Nodes, NEW mode \in Modes, NEW t \in Tariffs, NEW h \in BOOLEAN,
             EditMeter(m, mode, t, h)
      PROVE  /\ pass' = pass /\ EventsAdded
             /\ NoSwitch /\ db'.override = db.override /\ UNCHANGED <<asked, mixed>>
  <2>1. db'.override = db.override
    BY <1>3, <1>d DEF EditMeter, Database
  <2>2. pass' = pass /\ UNCHANGED <<asked, mixed>>
    BY <1>3 DEF EditMeter
  <2> QED BY <1>3, <2>1, <2>2, EditEvents
<1>4. ASSUME NEW o \in BOOLEAN, RequestOverride(o)
      PROVE  pass' = pass /\ EventsAdded
  <2>1. (IF o THEN "on" ELSE "off") \in Kinds
    BY DEF Kinds
  <2> QED BY <1>4, <2>1, EventAdded DEF RequestOverride
<1>5. ASSUME EndOverride
      PROVE  pass' = pass /\ EventsAdded
  BY <1>5 DEF EndOverride, EventsAdded
<1>6. ASSUME NEW e \in Editors, NEW t \in Tariffs, ReadTariff(e, t)
      PROVE  /\ pass' = pass /\ EventsAdded
             /\ NoSwitch /\ db'.override = db.override /\ UNCHANGED <<asked, mixed>>
  BY <1>6 DEF ReadTariff, EventsAdded, NoSwitch, history
<1>7. ASSUME NEW v \in Voltages, ChangeVoltage(v)
      PROVE  /\ pass' = pass /\ EventsAdded
             /\ NoSwitch /\ db'.override = db.override /\ UNCHANGED <<asked, mixed>>
  BY <1>7, <1>d, <1>k, EventAdded DEF ChangeVoltage, Database
<1>8. ASSUME NEW m \in Nodes, NEW f \in BOOLEAN, NEW here \in BOOLEAN, ProcessTransaction(m, f, here)
      PROVE  /\ pass' = pass /\ EventsAdded
             /\ NoSwitch /\ db'.override = db.override /\ UNCHANGED <<asked, mixed>>
  BY <1>8, <1>d, <1>k, EventAdded DEF ProcessTransaction, Database
<1>9. ASSUME NEW m \in Nodes, NEW t \in Tariffs, NEW here \in BOOLEAN, CreateMeter(m, t, here)
      PROVE  /\ pass' = pass /\ EventsAdded
             /\ NoSwitch /\ db'.override = db.override /\ UNCHANGED <<asked, mixed>>
  BY <1>9, <1>d, <1>k, EventAdded DEF CreateMeter, Database
<1> QED BY <1>1, <1>2, <1>3, <1>4, <1>5, <1>6, <1>7, <1>8, <1>9 DEF Requests

(* So do the later steps of an edit and the change of the hour.            *)
LEMMA EditSteps ==
  ASSUME TypeInv, EditsTyped, Edit \/ HourPasses \/ \E e \in Editors : EditFails(e)
  PROVE  /\ pass' = pass /\ EventsAdded /\ NoSwitch
         /\ db'.override = db.override /\ UNCHANGED <<asked, mixed>>
<1>1. events' = events => EventsAdded /\ NoSwitch
  BY DEF EventsAdded, NoSwitch
<1>2. ASSUME NEW e \in Editors, SaveTariff(e)
      PROVE  /\ pass' = pass /\ events' = events
             /\ db'.override = db.override /\ UNCHANGED <<asked, mixed>>
  BY <1>2, SaveTariffTyped DEF history
<1>3. ASSUME NEW e \in Editors, TellTariff(e)
      PROVE  /\ pass' = pass /\ EventsAdded /\ NoSwitch
             /\ db'.override = db.override /\ UNCHANGED <<asked, mixed>>
  <2>1. "power" \in Kinds /\ "power" \notin {"on", "off"}
    BY DEF Kinds
  <2>2. /\ edits[e].of \in Tariffs /\ UNCHANGED <<db, pass, asked, mixed>>
        /\ events' = events \/ events' = Append(events, DoneEvent("power", edits[e].of))
    BY <1>3, TellTariffTyped
  <2>3. EventsAdded /\ NoSwitch
    BY <1>1, <2>1, <2>2, EventAdded
  <2> QED BY <2>2, <2>3
<1>4. ASSUME NEW e \in Editors, EditFails(e)
      PROVE  UNCHANGED <<db, events, pass, asked, mixed>>
  BY <1>4, EditFailsTyped
<1>5. ASSUME HourPasses
      PROVE  /\ pass' = pass /\ events' = events
             /\ db'.override = db.override /\ UNCHANGED <<asked, mixed>>
  BY <1>5, HourPassesTyped
<1> QED BY <1>1, <1>2, <1>3, <1>4, <1>5 DEF Edit

-----------------------------------------------------------------------------
(* The alerts.  What a pass has in hand is not processed yet; an event     *)
(* that zeroes a wallet has its alert when the session commits in the      *)
(* middle, the others get theirs with the commit that marks them.          *)
AlertInv ==
  /\ \A i \in pass.todo \cup pass.drafted : ~events[i].done
  /\ pass.zeroing # 0 =>
       /\ ~events[pass.zeroing].done /\ events[pass.zeroing].kind = "zero"
       /\ events[pass.zeroing].alerts > 0
       /\ pass.drafted = {} /\ pass.zeroing \notin pass.todo
  /\ pass.todo \cap pass.drafted = {}
  /\ \A i \in pass.drafted : events[i].kind = "zero" => events[i].alerts > 0
  /\ \A i \in DOMAIN events : EventAlerted(events[i])

LEMMA AlertAdded ==
  ASSUME TypeInv, AlertInv, EventsAdded, pass' = pass
  PROVE  AlertInv'
BY DEF TypeInv, PassTyped, AlertInv, EventsAdded

LEMMA AlertSame ==
  ASSUME AlertInv, UNCHANGED <<events, pass>>
  PROVE  AlertInv'
BY DEF AlertInv

LEMMA AlertIdle ==
  ASSUME AlertInv, events' = events, pass' = Idle
  PROVE  AlertInv'
BY DEF AlertInv, Idle

LEMMA AlertDrafted ==
  ASSUME TypeInv, AlertInv, NEW i \in pass.todo, Drafted(i), pass.zeroing = 0,
         events[i].kind # "zero"
  PROVE  AlertInv'
BY DEF AlertInv, Drafted

LEMMA AlertCommitted ==
  ASSUME TypeInv, AlertInv, DOMAIN events' = DOMAIN events, pass.zeroing = 0,
         \A j \in DOMAIN events :
           /\ events'[j].kind = events[j].kind
           /\ (events'[j].done <=> events[j].done \/ j \in pass.drafted)
           /\ events'[j].alerts = events[j].alerts
                + IF j \in pass.drafted /\ events[j].kind \in Alerting \ {"zero"} THEN 1
                  ELSE IF j \notin pass.drafted /\ j = pass'.zeroing THEN 1 ELSE 0,
         pass'.todo \subseteq pass.todo, pass'.drafted = {},
         pass'.zeroing # 0 => /\ pass'.zeroing \in pass.todo /\ pass'.zeroing \notin pass'.todo
                              /\ events[pass'.zeroing].kind = "zero"
  PROVE  AlertInv'
<1>1. \A j \in DOMAIN events : events[j] \in EventRecord
  BY DEF TypeInv, EventsTyped
<1>2. pass.todo \subseteq DOMAIN events /\ 0 \notin DOMAIN events
  <2>1. DOMAIN events = 1..Len(events) /\ Len(events) \in Nat
    BY DEF TypeInv, EventsTyped
  <2> QED BY <2>1 DEF TypeInv, PassTyped
<1>3. \A j \in pass.todo : j \notin pass.drafted /\ ~events[j].done
  BY DEF AlertInv
<1>4. ASSUME NEW j \in DOMAIN events
      PROVE  EventAlerted(events'[j])
  <2>1. events[j].alerts \in Nat /\ EventAlerted(events[j])
    BY <1>1 DEF EventRecord, AlertInv
  <2>2. CASE j \in pass.drafted /\ events[j].kind \in Alerting \ {"zero"}
    <3>1. events'[j].alerts = events[j].alerts + 1 /\ events[j].alerts = 0 /\ events'[j].done
      BY <2>1, <2>2 DEF AlertInv, EventAlerted
    <3> QED BY <2>2, <3>1 DEF EventAlerted
  <2>3. CASE j \in pass.drafted /\ events[j].kind \notin Alerting \ {"zero"}
    <3>1. events'[j].alerts = events[j].alerts /\ events'[j].done /\ events'[j].kind = events[j].kind
      BY <2>1, <2>3
    <3>2. events[j].kind = "zero" => events[j].alerts > 0
      BY <2>3 DEF AlertInv
    <3> QED BY <2>1, <2>3, <3>1, <3>2 DEF EventAlerted
  <2>4. CASE j \notin pass.drafted /\ j = pass'.zeroing
    <3>1. events[j].kind = "zero" /\ ~events[j].done
      BY <1>2, <1>3, <2>4
    <3>2. events'[j].kind = "zero" /\ ~events'[j].done
      BY <2>4, <3>1
    <3> QED BY <3>2 DEF EventAlerted
  <2>5. CASE j \notin pass.drafted /\ j # pass'.zeroing
    <3>1. /\ events'[j].alerts = events[j].alerts /\ (events'[j].done <=> events[j].done)
          /\ events'[j].kind = events[j].kind
      BY <2>1, <2>5
    <3> QED BY <2>1, <3>1 DEF EventAlerted
  <2> QED BY <2>2, <2>3, <2>4, <2>5
<1>5. \A j \in pass'.todo : ~events'[j].done
  BY <1>2, <1>3
<1>6. pass'.zeroing # 0 =>
        /\ ~events'[pass'.zeroing].done /\ events'[pass'.zeroing].kind = "zero"
        /\ events'[pass'.zeroing].alerts > 0
  <2> SUFFICES ASSUME pass'.zeroing # 0
               PROVE  /\ ~events'[pass'.zeroing].done /\ events'[pass'.zeroing].kind = "zero"
                      /\ events'[pass'.zeroing].alerts > 0
    OBVIOUS
  <2> DEFINE j == pass'.zeroing
  <2>1. j \in DOMAIN events /\ j \notin pass.drafted /\ ~events[j].done /\ events[j].kind = "zero"
    BY <1>2, <1>3
  <2>2. events[j].alerts \in Nat /\ events'[j].alerts = events[j].alerts + 1
    BY <1>1, <2>1 DEF EventRecord
  <2> QED BY <2>1, <2>2
<1> QED BY <1>4, <1>5, <1>6 DEF AlertInv

LEMMA AlertNext ==
  ASSUME TypeInv, EditsTyped, AlertInv, Next
  PROVE  AlertInv'
<1>1. CASE Requests
  BY <1>1, RequestEvents, AlertAdded
<1>2. ASSUME NEW m \in Nodes, Reading(m)
      PROVE  AlertInv'
  BY <1>2, ReadingTyped, AlertSame
<1>3. CASE StartPass
  <2>1. /\ events' = events /\ pass'.todo = Unprocessed /\ pass'.drafted = {} /\ pass'.zeroing = 0
    BY <1>3, StartPassTyped DEF StartPass
  <2> QED BY <2>1 DEF AlertInv, Unprocessed
<1>4. ASSUME NEW i \in pass.todo, pass.on, pass.zeroing = 0, ~Poison(events[i]),
             HandleChanged(i) \/ HandlePaid(i) \/ HandleOverride(i) \/ HandleVoltage(i) \/ HandleZero(i)
      PROVE  AlertInv'
  <2>1. CASE HandleChanged(i)
    BY <1>4, <2>1, HandleChangedTyped, AlertDrafted DEF HandleChanged
  <2>2. CASE HandlePaid(i)
    BY <1>4, <2>2, HandlePaidTyped, AlertDrafted DEF HandlePaid
  <2>3. CASE HandleOverride(i)
    BY <1>4, <2>3, HandleOverrideTyped, AlertDrafted
  <2>4. CASE HandleVoltage(i)
    BY <1>4, <2>4, HandleVoltageTyped, AlertDrafted
  <2>5. CASE HandleZero(i)
    <3>1. events[i].kind = "zero"
      BY <2>5 DEF HandleZero
    <3> QED BY <1>4, <2>5, <3>1, HandleZeroTyped, AlertCommitted
  <2> QED BY <1>4, <2>1, <2>2, <2>3, <2>4, <2>5
<1>5. CASE Zeroed
  <2> DEFINE i == pass.zeroing
             m == events[i].of
  <2>1. /\ i # 0 /\ i \in DOMAIN events /\ m \in Nodes
        /\ events' = Append(events, Event("paid", m))
        /\ pass'.todo = pass.todo /\ pass'.drafted = {i} /\ pass'.zeroing = 0
    BY <1>5, ZeroedTyped DEF Existing
  <2>2. EventsAdded
    <3>1. "paid" \in Kinds
      BY DEF Kinds
    <3> HIDE DEF m
    <3> QED BY <2>1, <3>1, EventAdded
  <2> QED BY <2>1, <2>2 DEF TypeInv, PassTyped, AlertInv, EventsAdded
<1>6. CASE PassEnds
  <2>1. pass.zeroing = 0 /\ Idle.todo = {} /\ Idle.drafted = {} /\ Idle.zeroing = 0
    BY <1>6 DEF PassEnds, Idle
  <2> QED BY <1>6, <2>1, PassEndsTyped, AlertCommitted
<1>7. CASE PassFails
  BY <1>7, PassFailsTyped, AlertIdle
<1>8. CASE Crash
  BY <1>8, CrashTyped, AlertIdle
<1>9. CASE Dispatch \/ Reconcile \/ Pause \/ GatewayBack \/ Register
  BY <1>9, AlertSame DEF Dispatch, Reconcile, Load, ReconcileNext, ReconcileEnds, Pause,
     GatewayBack, Register, state
<1>10. CASE Pass
  BY <1>3, <1>4, <1>5, <1>6, <1>7, <1>10 DEF Pass, Handle
<1>11. CASE Edit \/ HourPasses \/ \E e \in Editors : EditFails(e)
  BY <1>11, EditSteps, AlertAdded
<1> QED BY <1>1, <1>2, <1>8, <1>9, <1>10, <1>11 DEF Next

LEMMA AlertInvariance == Spec => []AlertInv
<1>1. Init => AlertInv
  <2>1. Init => events = <<>> /\ pass = Idle
    BY InitTyped
  <2>2. Idle.todo = {} /\ Idle.drafted = {} /\ Idle.zeroing = 0
    BY DEF Idle
  <2>3. \A s : s = <<>> => DOMAIN s = {}
    OBVIOUS
  <2> QED BY <2>1, <2>2, <2>3 DEF AlertInv
<1>2. TypeInv /\ EditsTyped /\ AlertInv /\ [Next]_vars => AlertInv'
  BY AlertNext, AlertSame DEF vars, state
<1> QED BY <1>1, <1>2, TypeInvariance, PTL DEF Spec

(* An event that process_events has marked has had its alert, and no event *)
(* but the one that zeroes a wallet ever has a second: through passes that *)
(* fail and are taken up again, and the commit in the middle of a pass.    *)
THEOREM AlertsOnce == Spec => []AlertedOnce
<1>1. AlertInv => AlertedOnce
  BY DEF AlertInv, EventAlerted, AlertedOnce
<1> QED BY <1>1, AlertInvariance, PTL

-----------------------------------------------------------------------------
(* The override.  A pass that has written it has the event about it in     *)
(* hand; and while the requests do not overlap there is one such event at  *)
(* most, which says what was last asked.                                   *)
Open == {i \in Unprocessed : Switching(events[i])}

Says(e) == IF e.kind = "on" THEN TRUE ELSE FALSE

OverrideInv ==
  /\ pass.dirty => \E i \in Open : i \in pass.drafted
  /\ ~mixed =>
       /\ ~pass.dirty => pass.seen.override \in {None, db.override}
       /\ \A i, j \in Open : i = j
       /\ Open = {} => db.override = asked
       /\ \A i \in Open : asked = Says(events[i])
       /\ \A i \in Open : i \in pass.drafted => Intended(db, pass).override = asked

(* Nothing about the override happens.                                     *)
LEMMA OverrideKept ==
  ASSUME TypeInv, TypeInv', OverrideInv, UNCHANGED <<asked, mixed>>, db'.override = db.override,
         Open' = Open, \A i \in Open : events'[i] = events[i],
         pass'.dirty <=> pass.dirty,
         pass.dirty => pass'.seen.override = pass.seen.override,
         ~pass.dirty => pass'.seen.override \in {None, pass.seen.override, db.override},
         \A i \in Open : i \in pass'.drafted <=> i \in pass.drafted
  PROVE  OverrideInv'
<1>1. Intended(db', pass').override = Intended(db, pass).override
  <2>1. /\ Intended(db, pass).override = IF pass.dirty THEN pass.seen.override ELSE db.override
        /\ Intended(db', pass').override = IF pass'.dirty THEN pass'.seen.override ELSE db'.override
    BY IntendedNow, IntendedNext DEF TypeInv
  <2> QED BY <2>1
<1>2. pass.dirty => \E i \in Open : i \in pass.drafted
  BY DEF OverrideInv
<1>3. CASE mixed
  BY <1>2, <1>3 DEF OverrideInv
<1>4. CASE ~mixed
  <2>1. /\ ~pass.dirty => pass.seen.override \in {None, db.override}
        /\ \A i, j \in Open : i = j
        /\ Open = {} => db.override = asked
        /\ \A i \in Open : asked = Says(events[i])
        /\ \A i \in Open : i \in pass.drafted => Intended(db, pass).override = asked
    BY <1>4 DEF OverrideInv
  <2>2. ~pass'.dirty => pass'.seen.override \in {None, db'.override}
    BY <2>1
  <2>3. \A i \in Open : Says(events[i])' = Says(events[i])
    BY DEF Says
  <2>4. \A i \in Open : i \in pass'.drafted => Intended(db', pass').override = asked'
    BY <1>1, <2>1
  <2>5. pass'.dirty => \E i \in Open : i \in pass'.drafted
    BY <1>2
  <2> QED BY <2>1, <2>2, <2>3, <2>4, <2>5 DEF OverrideInv
<1> QED BY <1>3, <1>4

LEMMA OpenKept ==
  ASSUME EventsAdded, NoSwitch
  PROVE  Open' = Open /\ \A i \in Open : events'[i] = events[i]
BY DEF EventsAdded, NoSwitch, Open, Unprocessed

LEMMA OverrideRequest ==
  ASSUME TypeInv, TypeInv', OverrideInv, Requests
  PROVE  OverrideInv'
<1>1. pass' = pass /\ EventsAdded
  BY RequestEvents
<1>2. ASSUME NEW o \in BOOLEAN, RequestOverride(o)
      PROVE  OverrideInv'
  <2> DEFINE n == Len(events) + 1
  <2>k. PICK k \in Kinds : k = IF o THEN "on" ELSE "off"
    BY DEF Kinds
  <2>1. /\ events' = Append(events, Event(k, None)) /\ db' = db /\ asked' = o
        /\ mixed' = (mixed \/ \E i \in DOMAIN events : events[i].kind \in {"on", "off"} /\ ~events[i].done)
    BY <1>2, <2>k DEF RequestOverride
  <2>2. /\ n \in DOMAIN events' \ DOMAIN events /\ events'[n] = Event(k, None)
        /\ \A i \in DOMAIN events' \ DOMAIN events : i = n
    BY <2>1, EventAdded
  <2>3. Event(k, None).kind = k /\ ~Event(k, None).done
    BY EventIsEvent
  <2> HIDE DEF n
  <2>4. Open' = Open \cup {n} /\ \A i \in Open : events'[i] = events[i]
    BY <1>1, <2>k, <2>2, <2>3 DEF Open, Unprocessed, Switching, EventsAdded
  <2>5. pass'.dirty => \E i \in Open' : i \in pass'.drafted
    BY <1>1, <2>4 DEF OverrideInv
  <2>6. ASSUME ~mixed'
        PROVE  /\ ~pass'.dirty => pass'.seen.override \in {None, db'.override}
               /\ Open = {} /\ asked' = Says(events'[n]) /\ n \notin pass'.drafted
    <3>1. ~mixed /\ Open = {}
      BY <2>1, <2>6 DEF Open, Unprocessed, Switching
    <3>2. n \notin pass.drafted
      BY <2>2 DEF TypeInv, PassTyped
    <3> QED BY <1>1, <2>k, <2>1, <2>2, <2>3, <3>1, <3>2 DEF OverrideInv, Says
  <2> QED BY <2>4, <2>5, <2>6 DEF OverrideInv
<1>3. CASE EndOverride
  <2>1. /\ Existing(db') = Existing(db) /\ ~pass.dirty /\ events' = events /\ asked' = FALSE
        /\ mixed' = (mixed \/ pass.on
                     \/ \E i \in DOMAIN events : events[i].kind \in {"on", "off"} /\ ~events[i].done)
        /\ db' = [db EXCEPT !.override = FALSE]
    BY <1>3, EndOverrideTyped DEF EndOverride
  <2>2. db'.override = FALSE
    BY <2>1 DEF TypeInv, Database
  <2>3. Open' = Open
    BY <2>1 DEF Open, Unprocessed
  <2>4. ASSUME ~mixed'
        PROVE  Open = {} /\ pass.seen.override = None
    <3>1. Open = {} /\ ~pass.on
      BY <2>1, <2>4 DEF Open, Unprocessed, Switching
    <3>2. pass = Idle
      BY <3>1 DEF TypeInv, PassTyped
    <3> QED BY <3>1, <3>2 DEF Idle
  <2> QED BY <1>1, <2>1, <2>2, <2>3, <2>4 DEF OverrideInv
<1>4. CASE NoSwitch /\ db'.override = db.override /\ UNCHANGED <<asked, mixed>>
  BY <1>1, <1>4, OpenKept, OverrideKept
<1> QED BY <1>2, <1>3, <1>4, RequestEvents

LEMMA OverrideDrafted ==
  ASSUME TypeInv, TypeInv', OverrideInv, NEW i \in pass.todo, Drafted(i), ~Switching(events[i]),
         pass'.dirty <=> pass.dirty, pass'.seen.override \in {None, pass.seen.override, View.override}
  PROVE  OverrideInv'
<1>1. i \notin Open /\ Open' = Open
  BY DEF Open, Unprocessed, Drafted
<1>2. pass.dirty => View.override = pass.seen.override
  BY ViewIsDatabase
<1>3. pass.dirty => pass'.seen.override = pass.seen.override
  BY <1>2, NoneAssumption, MeterAssumption DEF TypeInv, PassTyped
<1>4. ~pass.dirty => View.override \in {pass.seen.override, db.override}
  BY ViewIsDatabase DEF Kept
<1> QED BY <1>1, <1>3, <1>4, OverrideKept DEF Drafted

LEMMA OverrideSwitched ==
  ASSUME TypeInv, TypeInv', AlertInv, OverrideInv, pass.on, NEW i \in pass.todo, HandleOverride(i)
  PROVE  OverrideInv'
<1>1. /\ Drafted(i) /\ Switching(events[i])
      /\ (pass'.dirty <=> pass.dirty \/ (events[i].kind = "on") # View.override)
      /\ pass'.seen.override \in {None, events[i].kind = "on"}
  BY HandleOverrideTyped DEF Switching
<1>2. i \in DOMAIN events /\ ~events[i].done /\ i \notin pass.drafted
  BY DEF AlertInv, TypeInv, PassTyped
<1>3. i \in Open /\ Open' = Open /\ i \in pass'.drafted
  BY <1>1, <1>2 DEF Open, Unprocessed, Drafted
<1>4. ASSUME ~mixed
      PROVE  /\ ~pass'.dirty => pass'.seen.override \in {None, db'.override}
             /\ Intended(db', pass').override = asked
  <2>1. /\ \A j \in Open : j = i
        /\ asked = Says(events[i])
        /\ ~pass.dirty => pass.seen.override \in {None, db.override}
        /\ pass.dirty => \E j \in Open : j \in pass.drafted
    BY <1>3, <1>4 DEF OverrideInv
  <2>2. ~pass.dirty
    BY <1>2, <2>1
  <2>3. View.override = db.override
    BY <2>1, <2>2, ViewIsDatabase DEF Kept
  <2>4. db.override \in BOOLEAN
    BY DEF TypeInv, Database
  <2>5. (events[i].kind = "on") = asked
    BY <2>1 DEF Says
  <2>6. (pass'.dirty <=> asked # db.override) /\ pass'.seen.override \in {None, asked}
    BY <1>1, <2>2, <2>3, <2>5
  <2>7. pass'.dirty => pass'.seen.override = asked
    BY <2>6, MeterAssumption DEF TypeInv, PassTyped
  <2>8. Intended(db', pass').override = IF pass'.dirty THEN pass'.seen.override ELSE db'.override
    BY IntendedNext DEF TypeInv
  <2> QED BY <1>1, <2>6, <2>7, <2>8 DEF Drafted
<1> QED BY <1>1, <1>3, <1>4 DEF OverrideInv, Drafted

LEMMA OverrideCommitted ==
  ASSUME TypeInv, OverrideInv, Intended(db', pass') = Intended(db, pass), db' = Intended(db, pass),
         DOMAIN events' = DOMAIN events,
         \A j \in DOMAIN events :
           /\ events'[j].kind = events[j].kind
           /\ (events'[j].done <=> events[j].done \/ j \in pass.drafted),
         pass'.drafted = {}, ~pass'.dirty, pass'.seen.override = None,
         UNCHANGED <<asked, mixed>>
  PROVE  OverrideInv'
<1>1. Open' = Open \ pass.drafted
  BY DEF Open, Unprocessed, Switching
<1>2. ASSUME ~mixed
      PROVE  /\ \A i, j \in Open' : i = j
             /\ Open' = {} => db'.override = asked
             /\ \A i \in Open' : asked = Says(events[i])
  <2>1. /\ \A i, j \in Open : i = j
        /\ Open = {} => db.override = asked
        /\ \A i \in Open : asked = Says(events[i])
        /\ \A i \in Open : i \in pass.drafted => Intended(db, pass).override = asked
        /\ Open = {} => ~pass.dirty
    BY <1>2 DEF OverrideInv
  <2>2. ~pass.dirty => Intended(db, pass) = db
    BY IntendedNow
  <2> QED BY <1>1, <2>1, <2>2
<1>3. \A i \in Open' : Says(events'[i]) = Says(events[i])
  BY DEF Open, Unprocessed, Says
<1> QED BY <1>1, <1>2, <1>3 DEF OverrideInv

LEMMA OverrideIdle ==
  ASSUME TypeInv, OverrideInv, UNCHANGED <<events, asked, mixed>>, db' = db, pass' = Idle
  PROVE  OverrideInv'
<1>1. ~Idle.dirty /\ Idle.drafted = {} /\ Idle.seen.override = None
  BY DEF Idle
<1>2. Open' = Open
  BY DEF Open, Unprocessed
<1> QED BY <1>1, <1>2 DEF OverrideInv, Says

LEMMA OverrideNext ==
  ASSUME TypeInv, TypeInv', EditsTyped, AlertInv, OverrideInv, Next
  PROVE  OverrideInv'
<1>1. CASE Requests
  BY <1>1, OverrideRequest
<1>2. ASSUME NEW m \in Nodes, Reading(m)
      PROVE  OverrideInv'
  <2>1. UNCHANGED <<events, pass, asked, mixed>> /\ db'.override = db.override
    BY <1>2, ReadingTyped DEF Reading
  <2>2. Open' = Open
    BY <2>1 DEF Open, Unprocessed
  <2> QED BY <2>1, <2>2, OverrideKept
<1>3. CASE StartPass
  <2>1. /\ UNCHANGED <<db, events, asked, mixed>> /\ pass = Idle /\ pass'.drafted = {}
        /\ ~pass'.dirty /\ pass'.seen = Idle.seen
    BY <1>3, StartPassTyped DEF StartPass, history
  <2>2. Open' = Open
    BY <2>1 DEF Open, Unprocessed
  <2>3. ~Idle.dirty /\ Idle.drafted = {} /\ Idle.seen.override = None
    BY DEF Idle
  <2> QED BY <2>1, <2>2, <2>3, OverrideKept
<1>4. ASSUME NEW i \in pass.todo, pass.on, pass.zeroing = 0, ~Poison(events[i]),
             HandleChanged(i) \/ HandlePaid(i) \/ HandleOverride(i) \/ HandleVoltage(i) \/ HandleZero(i)
      PROVE  OverrideInv'
  <2>1. CASE HandleChanged(i)
    <3>1. ~Switching(events[i])
      BY <2>1 DEF HandleChanged, Switching
    <3> QED BY <1>4, <2>1, <3>1, HandleChangedTyped, OverrideDrafted
  <2>2. CASE HandlePaid(i)
    <3>1. ~Switching(events[i])
      BY <2>2 DEF HandlePaid, Switching
    <3> QED BY <1>4, <2>2, <3>1, HandlePaidTyped, OverrideDrafted
  <2>3. CASE HandleOverride(i)
    BY <1>4, <2>3, OverrideSwitched
  <2>4. CASE HandleVoltage(i)
    <3>1. ~Switching(events[i])
      BY <2>4 DEF HandleVoltage, Switching
    <3> QED BY <1>4, <2>4, <3>1, HandleVoltageTyped, OverrideDrafted
  <2>5. CASE HandleZero(i)
    <3>1. UNCHANGED <<asked, mixed>> /\ Idle.seen.override = None
      BY <2>5 DEF HandleZero, history, Idle
    <3> QED BY <1>4, <2>5, <3>1, HandleZeroTyped, OverrideCommitted
  <2> QED BY <1>4, <2>1, <2>2, <2>3, <2>4, <2>5
<1>5. CASE Zeroed
  <2> DEFINE i == pass.zeroing
             m == events[i].of
  <2>1. /\ i # 0 /\ i \in DOMAIN events /\ m \in Nodes /\ m \in Existing(db)
        /\ events' = Append(events, Event("paid", m))
        /\ pass'.drafted = {i} /\ pass'.seen = pass.seen /\ (pass'.dirty <=> pass.dirty)
        /\ UNCHANGED <<asked, mixed>>
    BY <1>5, ZeroedTyped DEF Existing, Zeroed
  <2>2. PICK f \in BOOLEAN : db' = [db EXCEPT !.rows[m].funded = f]
    BY <1>5, ZeroedTyped
  <2>3. db'.override = db.override
    BY <2>1, <2>2, FundedChanged
  <2>4. EventsAdded /\ NoSwitch
    <3>1. "paid" \in Kinds /\ "paid" \notin {"on", "off"}
      BY DEF Kinds
    <3> HIDE DEF m
    <3> QED BY <2>1, <3>1, EventAdded
  <2>5. ~Switching(events[i]) /\ pass.drafted = {}
    BY <2>1 DEF AlertInv, Switching
  <2>6. i \notin Open
    BY <2>5 DEF Open
  <2> QED BY <2>1, <2>3, <2>4, <2>5, <2>6, OpenKept, OverrideKept
<1>6. CASE PassEnds
  <2>1. UNCHANGED <<asked, mixed>>
    BY <1>6 DEF PassEnds, history
  <2>2. ~Idle.dirty /\ Idle.drafted = {} /\ Idle.seen.override = None
    BY DEF Idle
  <2> QED BY <1>6, <2>1, <2>2, PassEndsTyped, OverrideCommitted
<1>7. CASE PassFails
  <2>1. UNCHANGED <<asked, mixed>>
    BY <1>7 DEF PassFails, history
  <2> QED BY <1>7, <2>1, PassFailsTyped, OverrideIdle
<1>8. CASE Crash
  <2>1. db' = db /\ UNCHANGED <<events, asked, mixed>> /\ pass' = Idle
    BY <1>8, CrashTyped
  <2> QED BY <2>1, OverrideIdle
<1>9. CASE Dispatch \/ Reconcile \/ Pause \/ GatewayBack \/ Register
  <2>1. UNCHANGED <<db, events, pass, asked, mixed>>
    BY <1>9 DEF Dispatch, Reconcile, Load, ReconcileNext, ReconcileEnds, Pause,
       GatewayBack, Register, state, history
  <2>2. Open' = Open
    BY <2>1 DEF Open, Unprocessed
  <2> QED BY <2>1, <2>2, OverrideKept
<1>10. CASE Pass
  BY <1>3, <1>4, <1>5, <1>6, <1>7, <1>10 DEF Pass, Handle
<1>11. CASE Edit \/ HourPasses \/ \E e \in Editors : EditFails(e)
  BY <1>11, EditSteps, OpenKept, OverrideKept
<1> QED BY <1>1, <1>2, <1>8, <1>9, <1>10, <1>11 DEF Next

LEMMA OverrideInvariance == Spec => []OverrideInv
<1>1. Init => OverrideInv
  <2> SUFFICES ASSUME Init PROVE OverrideInv
    OBVIOUS
  <2>1. events = <<>> /\ pass = Idle /\ ~mixed /\ db.override = asked
    BY InitTyped
  <2>2. ~Idle.dirty /\ Idle.drafted = {} /\ Idle.seen.override = None
    BY DEF Idle
  <2>3. \A s : s = <<>> => DOMAIN s = {}
    OBVIOUS
  <2>4. Open = {}
    BY <2>1, <2>3 DEF Open, Unprocessed
  <2> QED BY <2>1, <2>2, <2>4 DEF OverrideInv
<1>2. TypeInv /\ EditsTyped /\ AlertInv /\ OverrideInv /\ [Next]_vars => OverrideInv'
  <2>1. TypeInv /\ OverrideInv /\ UNCHANGED vars => OverrideInv'
    <3> SUFFICES ASSUME TypeInv, OverrideInv, UNCHANGED vars PROVE OverrideInv'
      OBVIOUS
    <3>1. UNCHANGED <<db, events, pass, asked, mixed>>
      BY DEF vars, state, history
    <3>2. TypeInv' /\ Open' = Open
      BY <3>1, StutterTyped DEF Open, Unprocessed
    <3> QED BY <3>1, <3>2, OverrideKept
  <2>2. TypeInv /\ EditsTyped /\ Next => TypeInv'
    BY NextTyped
  <2> QED BY <2>1, <2>2, OverrideNext
<1> QED BY <1>1, <1>2, TypeInvariance, AlertInvariance, PTL DEF Spec

(* When nothing is under way the override is what was last requested,      *)
(* through passes that fail or lose their view of the row, if no request   *)
(* overlapped another.                                                     *)
THEOREM OverrideAsAsked == Spec => []OverrideFollowsRequest
<1>1. OverrideInv => OverrideFollowsRequest
  BY DEF OverrideInv, OverrideFollowsRequest, Quiet, Open
<1> QED BY <1>1, OverrideInvariance, PTL

-----------------------------------------------------------------------------
(* The settings.  What the provider will have been told of a meter that is *)
(* not lost sight of is right, or an event that will send the meter a      *)
(* command is still to be processed, or the reconcile is still to come to  *)
(* it, or an edit of its tariff is saved and has not come to its end.      *)
Right(m) == Fine(Final(m, queue, told[m]), Intended(db, pass), m)

(* The event i will send meter m a command: the change of the voltage does *)
(* so where the last reading of the meter is read again.                   *)
Covers(i, m) ==
  \/ events[i].kind = "changed" /\ events[i].of = m
  \/ Switching(events[i])
  \/ events[i].kind = "voltage" /\ (i \notin pass.todo \/ pass.seen.rows[m] = None)

Covered(m) == \E i \in Unprocessed \ pass.drafted : Covers(i, m)

Owing(m) ==
  /\ Waiting(m, queue) = {}
  /\ \/ ~listening
     \/ recon.phase = "owed"
     \/ recon.phase = "sending" /\ m \in DOMAIN recon.left

Editing(m) == \E e \in Editors : edits[e].at = "saved" /\ edits[e].of = db.rows[m].tariff

Follows(m) == Right(m) \/ Covered(m) \/ Owing(m) \/ Editing(m)

FollowInv == \A m \in Existing(db) \ gap : Follows(m)

(* What the ground asks for depends on the row, the terms of its tariff,   *)
(* the limit of the hour and the ground.                                   *)
LEMMA WantedOf ==
  ASSUME TypeInv, TypeInv', NEW m \in Existing(db), db'.rows[m] = db.rows[m],
         db'.override = db.override, db'.voltage = db.voltage,
         db'.tariffs[db.rows[m].tariff] = db.tariffs[db.rows[m].tariff],
         LoadLimit(db', db.rows[m].tariff) = LoadLimit(db, db.rows[m].tariff),
         pass'.dirty <=> pass.dirty, pass.dirty => pass'.seen.override = pass.seen.override
  PROVE  Wanted(Intended(db', pass'), m) = Wanted(Intended(db, pass), m)
<1> DEFINE d == Intended(db, pass)
           e == Intended(db', pass')
           row == db.rows[m]
<1>1. d.rows = db.rows /\ e.rows = db'.rows /\ e.override = d.override
  BY IntendedNow, IntendedNext DEF TypeInv
<1>2. /\ d.voltage = db.voltage /\ d.tariffs = db.tariffs /\ d.hour = db.hour
      /\ e.voltage = db'.voltage /\ e.tariffs = db'.tariffs /\ e.hour = db'.hour
  BY DEF Intended, TypeInv, Database
<1> HIDE DEF d, e
<1>3. PowerLimit(e, row) = PowerLimit(d, row)
  BY <1>2 DEF PowerLimit, LoadLimit
<1>4. StateValue(e, row) <=> StateValue(d, row)
  BY <1>2, Zenon DEF StateValue
<1>5. (StateValue(e, row) /\ ~e.override) = (StateValue(d, row) /\ ~d.override)
  BY <1>1, <1>4
<1> QED BY <1>1, <1>3, <1>5 DEF Wanted, Command, d, e

LEMMA WantedKept ==
  ASSUME TypeInv, TypeInv', NEW m \in Existing(db), db'.rows[m] = db.rows[m],
         db'.override = db.override, db'.voltage = db.voltage,
         db'.tariffs = db.tariffs, db'.hour = db.hour,
         pass'.dirty <=> pass.dirty, pass.dirty => pass'.seen.override = pass.seen.override
  PROVE  Wanted(Intended(db', pass'), m) = Wanted(Intended(db, pass), m)
<1>1. LoadLimit(db', db.rows[m].tariff) = LoadLimit(db, db.rows[m].tariff)
  BY DEF LoadLimit
<1> QED BY <1>1, WantedOf

(* The edits of the tariff of a meter stay when none of them ends and the  *)
(* meter stays with its tariff.                                            *)
LEMMA EditingKept ==
  ASSUME NEW m, edits' = edits, db'.rows[m] = db.rows[m]
  PROVE  Editing(m) => Editing(m)'
BY DEF Editing

(* A meter about which nothing happens.                                    *)
LEMMA FollowKept ==
  ASSUME FollowInv, NEW m \in Existing(db) \ gap,
         Final(m, queue', told'[m]) = Final(m, queue, told[m]),
         Waiting(m, queue) = {} => Waiting(m, queue') = {},
         Wanted(Intended(db', pass'), m) = Wanted(Intended(db, pass), m),
         Covered(m) => Covered(m)',
         Editing(m) => Editing(m)',
         ~listening => ~listening',
         recon' = recon
  PROVE  Follows(m)'
<1>1. Right(m) => Right(m)'
  BY DEF Right, Fine
<1>2. Owing(m) => Owing(m)'
  BY DEF Owing
<1> QED BY <1>1, <1>2 DEF FollowInv, Follows

LEMMA CoveredByMore ==
  ASSUME TypeInv, EventsAdded, pass' = pass, NEW m \in Nodes
  PROVE  Covered(m) => Covered(m)'
BY DEF EventsAdded, Covered, Covers, Unprocessed, Switching

(* The commands reach a meter, or they do not concern it.                  *)
LEMMA SentReaches ==
  ASSUME TypeInv, TypeInv', NEW cs, NEW lost, Sent(cs, lost), UNCHANGED <<listening, told>>,
         NEW m \in Existing(db') \ gap'
  PROVE  \/ Follows(m)'
         \/ /\ m \notin gap /\ m \notin lost /\ m \notin Addressed(cs)
            /\ Final(m, queue', told'[m]) = Final(m, queue, told[m])
            /\ Waiting(m, queue') = Waiting(m, queue)
<1> DEFINE D == Intended(db', pass')
<1>1. /\ cs \in Seq(Order) /\ Sends(queue, queue', gap, gap', told, listening, D, cs, lost)
      /\ \A n \in Existing(D) : n \in Addressed(cs) \ lost => Fine(Final(n, cs, None), D, n)
  BY DEF Sent
<1>2. queue \in Seq(Order) /\ listening \in BOOLEAN
  BY DEF TypeInv, LinkTyped
<1>3. m \in Existing(D)
  BY IntendedNext DEF TypeInv
<1> HIDE DEF D
<1>4. \/ Fine(Final(m, queue', told[m]), D, m)
      \/ ~listening
      \/ /\ m \notin gap /\ m \notin lost /\ m \notin Addressed(cs)
         /\ Final(m, queue', told[m]) = Final(m, queue, told[m])
         /\ Waiting(m, queue') = Waiting(m, queue)
  BY <1>1, <1>2, <1>3, SendsTells
<1>5. CASE Fine(Final(m, queue', told[m]), D, m)
  BY <1>5 DEF Follows, Right, D
<1>6. CASE ~listening
  <2>1. ~listening' /\ queue' = <<>>
    BY <1>6 DEF TypeInv, LinkTyped
  <2>2. Waiting(m, queue') = {}
    BY <2>1 DEF Waiting
  <2> QED BY <2>1, <2>2 DEF Follows, Owing
<1> QED BY <1>4, <1>5, <1>6

(* A command that was not found worth sending, to a meter whose last       *)
(* reading says what it will have been told.                               *)
LEMMA SkippedFollows ==
  ASSUME TypeInv, TypeInv', NEW m \in Existing(db'), NEW d \in Database, m \in Existing(d),
         Wanted(d, m) = Wanted(Intended(db', pass'), m),
         ~NeedsUpdate(d, d.rows[m]), d.rows[m].known = Final(m, queue', told'[m])
  PROVE  Follows(m)'
<1>1. d.rows[m] \in Row
  BY ExistingRow
<1>2. d.rows[m].known \in Setting /\ Agree(d.rows[m].known, Command(d, d.rows[m]))
  BY <1>1, SkippedIsInForce
<1>3. Fine(d.rows[m].known, Intended(db', pass'), m)
  BY <1>2, NoneAssumption DEF Fine, Wanted
<1> QED BY <1>3 DEF Follows, Right

(* The meter of a transaction, whose command is sent if it is worth it.    *)
LEMMA WorthFollows ==
  ASSUME TypeInv, TypeInv', NEW m \in Existing(db), m \in Existing(db') \ gap',
         db'.rows[m].known = db.rows[m].known, pass'.dirty <=> pass.dirty,
         UNCHANGED <<listening, told>>,
         NEW cs, Sent(cs, Unsure({m})), Addressed(cs) = Worth(db', {m})
  PROVE  Follows(m)'
<1>1. CASE Follows(m)'
  BY <1>1
<1>2. CASE ~Follows(m)'
  <2>1. /\ m \notin Unsure({m}) /\ m \notin Addressed(cs)
        /\ Final(m, queue', told'[m]) = Final(m, queue, told[m])
    BY <1>2, SentReaches
  <2>2. ~pass.dirty /\ db.rows[m].known = LastTold(m, queue)
    BY <2>1 DEF Unsure
  <2>3. ~NeedsUpdate(db', db'.rows[m])
    BY <2>1 DEF Worth
  <2>4. db'.rows[m].known = Final(m, queue', told'[m])
    BY <2>1, <2>2 DEF LastTold, Final
  <2>5. Intended(db', pass') = db' /\ db' \in Database
    BY <2>2, IntendedNext DEF TypeInv
  <2> QED BY <2>3, <2>4, <2>5, SkippedFollows
<1> QED BY <1>1, <1>2

LEMMA DroppedFollows ==
  ASSUME NEW m \in Nodes, Dropped(m), m \notin gap', told' = told
  PROVE  Follows(m)'
BY DEF Dropped, NotFine, Follows, Right

(* The commands of a request that leaves the meters of no command and of   *)
(* no doubt alone.                                                         *)
LEMMA SentFollows ==
  ASSUME TypeInv, TypeInv', FollowInv, NEW cs, NEW lost, Sent(cs, lost),
         UNCHANGED <<listening, told, recon>>, NEW m \in Existing(db') \ gap',
         m \notin Addressed(cs) \cup lost =>
           /\ m \in Existing(db)
           /\ Wanted(Intended(db', pass'), m) = Wanted(Intended(db, pass), m)
           /\ Covered(m) => Covered(m)'
           /\ Editing(m) => Editing(m)'
  PROVE  Follows(m)'
<1>1. CASE Follows(m)'
  BY <1>1
<1>2. CASE ~Follows(m)'
  <2>1. /\ m \notin gap /\ m \notin lost /\ m \notin Addressed(cs)
        /\ Final(m, queue', told'[m]) = Final(m, queue, told[m])
        /\ Waiting(m, queue') = Waiting(m, queue)
    BY <1>2, SentReaches
  <2> QED BY <2>1, FollowKept
<1> QED BY <1>1, <1>2

(* A request that sends nothing.                                           *)
LEMMA SilentFollows ==
  ASSUME TypeInv, FollowInv, UNCHANGED <<pass, edits, queue, listening, told, recon>>, EventsAdded,
         NEW m \in Existing(db) \ gap, db'.rows[m] = db.rows[m],
         Wanted(Intended(db', pass'), m) = Wanted(Intended(db, pass), m)
  PROVE  Follows(m)'
<1>1. m \in Nodes
  BY DEF Existing
<1> QED BY <1>1, CoveredByMore, EditingKept, FollowKept

(* Nothing but the reconcile or the loop changes, and what was owed still  *)
(* is.                                                                     *)
LEMMA FollowLink ==
  ASSUME FollowInv, UNCHANGED <<db, events, pass, queue, told, gap>>,
         \A m \in Nodes : (Owing(m) => Owing(m)') /\ (Editing(m) => Editing(m)')
  PROVE  FollowInv'
<1> SUFFICES ASSUME NEW m \in Existing(db') \ gap' PROVE Follows(m)'
  BY DEF FollowInv
<1>1. m \in Existing(db) \ gap /\ m \in Nodes
  BY DEF Existing
<1>2. Follows(m) /\ (Right(m) => Right(m)') /\ (Covered(m) => Covered(m)')
  BY <1>1 DEF FollowInv, Right, Covered, Covers, Unprocessed
<1> QED BY <1>1, <1>2 DEF Follows

LEMMA FollowRequests ==
  ASSUME TypeInv, TypeInv', EditsTyped, FollowInv, Requests
  PROVE  FollowInv'
<1>a. pass' = pass /\ EventsAdded
  BY RequestEvents
<1>o. \A m \in Existing(db') : m \in Nodes
  BY DEF Existing
<1>c. \A m \in Nodes : Covered(m) => Covered(m)'
  BY <1>a, CoveredByMore
<1>k. {"changed", "on", "off", "voltage"} \subseteq Kinds
  BY DEF Kinds
(* A new event that is not in the hands of the pass.                       *)
<1>n. ASSUME NEW k \in Kinds, NEW x \in Nodes \cup Tariffs \cup {None},
             events' = Append(events, Event(k, x)), NEW m \in Nodes,
             (k = "changed" /\ x = m) \/ k \in {"on", "off", "voltage"}
      PROVE  Follows(m)'
  <2>1. PICK n \in DOMAIN events' \ DOMAIN events : events'[n] = Event(k, x)
    BY <1>n, EventAdded
  <2>2. Event(k, x).kind = k /\ Event(k, x).of = x /\ ~Event(k, x).done
    BY EventIsEvent
  <2>3. n \notin pass.drafted /\ n \notin pass.todo
    BY <2>1 DEF TypeInv, PassTyped
  <2>4. n \in Unprocessed' \ pass'.drafted
    BY <1>a, <2>1, <2>2, <2>3 DEF Unprocessed
  <2>5. Covers(n, m)'
    BY <1>a, <1>n, <2>1, <2>2, <2>3 DEF Covers, Switching
  <2> QED BY <2>4, <2>5 DEF Follows, Covered
<1>1. ASSUME NEW m0 \in Nodes, NEW mode \in Modes, SetMode(m0, mode)
      PROVE  FollowInv'
  <2>1. /\ events' = Append(events, Event("changed", m0)) /\ db' = [db EXCEPT !.rows[m0].mode = mode]
        /\ UNCHANGED <<edits, queue, gap, listening, told, recon>> /\ m0 \in Existing(db)
    BY <1>1 DEF SetMode, NoCommand, Others
  <2>2. /\ \A m \in Nodes \ {m0} : db'.rows[m] = db.rows[m]
        /\ db'.override = db.override /\ db'.voltage = db.voltage
        /\ db'.tariffs = db.tariffs /\ db'.hour = db.hour
    BY <2>1 DEF TypeInv, Database
  <2> SUFFICES ASSUME NEW m \in Existing(db') \ gap' PROVE Follows(m)'
    BY DEF FollowInv
  <2>3. CASE m = m0
    BY <1>k, <1>n, <2>1, <2>3
  <2>4. CASE m # m0
    <3>1. m \in Existing(db) \ gap /\ db'.rows[m] = db.rows[m]
      BY <2>1, <2>2, <2>4 DEF Existing
    <3>2. Wanted(Intended(db', pass'), m) = Wanted(Intended(db, pass), m)
      BY <1>a, <2>2, <3>1, WantedKept
    <3> QED BY <1>a, <2>1, <3>1, <3>2, SilentFollows
  <2> QED BY <2>3, <2>4
<1>2. ASSUME NEW m0 \in Nodes, ResetMeter(m0) \/ RequestZero(m0)
      PROVE  FollowInv'
  <2>1. UNCHANGED <<db, edits, queue, gap, listening, told, recon>>
    BY <1>2 DEF ResetMeter, RequestZero, NoCommand, Others
  <2>2. Existing(db') = Existing(db) /\ Intended(db', pass') = Intended(db, pass)
    BY <1>a, <2>1
  <2>3. \A m : Wanted(Intended(db', pass'), m) = Wanted(Intended(db, pass), m)
    BY <2>2
  <2> QED BY <1>a, <2>1, <2>2, <2>3, SilentFollows DEF FollowInv
<1>3. ASSUME NEW m0 \in Nodes, RemoveMeter(m0)
      PROVE  FollowInv'
  <2>1. /\ db' = [db EXCEPT !.rows[m0] = None] /\ gap' = gap \ {m0}
        /\ UNCHANGED <<edits, queue, listening, told, recon>> /\ Existing(db') = Existing(db) \ {m0}
    BY <1>3, RemoveMeterTyped DEF RemoveMeter, Others
  <2>2. /\ \A m \in Nodes \ {m0} : db'.rows[m] = db.rows[m]
        /\ db'.override = db.override /\ db'.voltage = db.voltage
        /\ db'.tariffs = db.tariffs /\ db'.hour = db.hour
    BY <2>1 DEF TypeInv, Database
  <2> SUFFICES ASSUME NEW m \in Existing(db') \ gap' PROVE Follows(m)'
    BY DEF FollowInv
  <2>3. m \in Existing(db) \ gap /\ db'.rows[m] = db.rows[m]
    BY <1>o, <2>1, <2>2
  <2>4. Wanted(Intended(db', pass'), m) = Wanted(Intended(db, pass), m)
    BY <1>a, <2>2, <2>3, WantedKept
  <2> QED BY <1>a, <2>1, <2>3, <2>4, SilentFollows
<1>4. ASSUME NEW m0 \in Nodes, NEW mode \in Modes, NEW t \in Tariffs, NEW h \in BOOLEAN,
             EditMeter(m0, mode, t, h)
      PROVE  FollowInv'
  <2>1. /\ db' = [db EXCEPT !.rows[m0].mode = mode, !.rows[m0].tariff = t, !.rows[m0].hidden = h]
        /\ UNCHANGED <<edits, listening, told, recon>> /\ Existing(db') = Existing(db)
    BY <1>4, EditMeterTyped DEF EditMeter, Others
  <2>2. PICK cs : Sent(cs, {m0}) /\ Addressed(cs) \subseteq {m0}
    BY <1>4, EditMeterTyped
  <2>3. /\ \A m \in Nodes \ {m0} : db'.rows[m] = db.rows[m]
        /\ db'.override = db.override /\ db'.voltage = db.voltage
        /\ db'.tariffs = db.tariffs /\ db'.hour = db.hour
    BY <2>1 DEF TypeInv, Database
  <2> SUFFICES ASSUME NEW m \in Existing(db') \ gap' PROVE Follows(m)'
    BY DEF FollowInv
  <2>4. m \notin {m0} => Wanted(Intended(db', pass'), m) = Wanted(Intended(db, pass), m)
    BY <1>a, <1>o, <2>1, <2>3, WantedKept
  <2>5. m \notin {m0} => (Editing(m) => Editing(m)')
    BY <1>o, <2>1, <2>3, EditingKept
  <2> QED BY <1>c, <1>o, <2>1, <2>2, <2>4, <2>5, SentFollows
<1>5. ASSUME NEW o \in BOOLEAN, RequestOverride(o)
      PROVE  FollowInv'
  <2>1. PICK k \in {"on", "off"} : events' = Append(events, Event(k, None))
    BY <1>5 DEF RequestOverride
  <2>2. k \in Kinds
    BY <1>k
  <2> QED BY <1>n, <1>o, <2>1, <2>2 DEF FollowInv
<1>6. CASE EndOverride
  <2>1. Existing(db') = Existing(db) /\ UNCHANGED <<listening, told, recon>>
    BY <1>6, EndOverrideTyped DEF EndOverride, Others
  <2>2. PICK cs, lost : Sent(cs, lost) /\ Existing(db) \subseteq Addressed(cs) \cup lost
    BY <1>6, EndOverrideTyped
  <2> QED BY <2>1, <2>2, SentFollows DEF FollowInv
<1>7. ASSUME NEW e \in Editors, NEW t \in Tariffs, ReadTariff(e, t)
      PROVE  FollowInv'
  <2>1. UNCHANGED <<db, events, pass, queue, listening, recon, told, gap>>
    BY <1>7 DEF ReadTariff, link, history
  <2>2. \A m \in Nodes : Editing(m) => Editing(m)'
    <3>1. edits' = [edits EXCEPT ![e] =
             [at |-> "read", of |-> t, old |-> db.tariffs[t], limit |-> LoadLimit(db, t)]]
          /\ edits[e] = NoEdit
      BY <1>7 DEF ReadTariff
    <3>2. edits[e].at # "saved"
      BY <3>1 DEF NoEdit
    <3>3. ASSUME NEW u \in Editors, u # e
          PROVE  edits'[u] = edits[u]
      BY <3>1, <3>3 DEF EditsTyped
    <3> QED BY <2>1, <3>2, <3>3 DEF Editing
  <2> QED BY <2>1, <2>2, FollowLink DEF Owing
<1>8. ASSUME NEW v \in Voltages, ChangeVoltage(v)
      PROVE  FollowInv'
  <2>1. events' = Append(events, Event("voltage", None))
    BY <1>8 DEF ChangeVoltage
  <2> QED BY <1>k, <1>n, <1>o, <2>1 DEF FollowInv
<1>9. ASSUME NEW m0 \in Nodes, NEW f \in BOOLEAN, NEW here \in BOOLEAN,
             ProcessTransaction(m0, f, here)
      PROVE  FollowInv'
  <2>1. /\ m0 \in Existing(db) /\ db' = [db EXCEPT !.rows[m0].funded = f]
        /\ UNCHANGED <<edits, listening, told, recon>>
    BY <1>9 DEF ProcessTransaction, Others
  <2>2. /\ Existing(db') = Existing(db) /\ db'.rows[m0] = [db.rows[m0] EXCEPT !.funded = f]
        /\ \A m \in Nodes \ {m0} : db'.rows[m] = db.rows[m]
        /\ db'.override = db.override /\ db'.tariffs = db.tariffs
      /\ db'.voltage = db.voltage /\ db'.hour = db.hour
    BY <2>1, FundedChanged
  <2>3. db'.rows[m0].known = db.rows[m0].known
    BY <2>1, <2>2, ExistingRow DEF TypeInv, Row
  <2>4. \/ \E cs : Sent(cs, Unsure({m0})) /\ Addressed(cs) = Worth(db', {m0})
        \/ Dropped(m0)
    BY <1>9, ProcessTransactionTyped
  <2> SUFFICES ASSUME NEW m \in Existing(db') \ gap' PROVE Follows(m)'
    BY DEF FollowInv
  <2>5. m # m0 => Wanted(Intended(db', pass'), m) = Wanted(Intended(db, pass), m)
    BY <1>a, <1>o, <2>2, WantedKept
  <2>e. m # m0 => db'.rows[m] = db.rows[m] /\ (Editing(m) => Editing(m)')
    BY <1>o, <2>1, <2>2, EditingKept
  <2>6. CASE Dropped(m0)
    <3>1. queue' = queue /\ m \notin gap
      BY <2>6 DEF Dropped
    <3>2. CASE m = m0
      BY <2>1, <2>6, <3>2, DroppedFollows
    <3>3. CASE m # m0
      BY <1>a, <2>1, <2>2, <2>5, <2>e, <3>1, <3>3, SilentFollows
    <3> QED BY <3>2, <3>3
  <2>7. ASSUME NEW cs, Sent(cs, Unsure({m0})), Addressed(cs) = Worth(db', {m0})
        PROVE  Follows(m)'
    <3>1. CASE m = m0
      BY <1>a, <2>1, <2>3, <2>7, <3>1, WorthFollows
    <3>2. CASE m # m0
      BY <1>c, <1>o, <2>1, <2>2, <2>5, <2>e, <2>7, <3>2, SentFollows
    <3> QED BY <3>1, <3>2
  <2> QED BY <2>4, <2>6, <2>7
<1>10. ASSUME NEW m0 \in Nodes, NEW t \in Tariffs, NEW here \in BOOLEAN, CreateMeter(m0, t, here)
       PROVE  FollowInv'
  <2>1. /\ m0 \notin Existing(db) /\ UNCHANGED <<edits, listening, told, recon>>
        /\ db' = [db EXCEPT !.rows[m0] =
                    [mode |-> NewMode, funded |-> FALSE, running |-> FALSE, used |-> None,
                     tariff |-> t, hidden |-> FALSE, known |-> None]]
    BY <1>10 DEF CreateMeter, Others
  <2>a. PICK r : db' = [db EXCEPT !.rows[m0] = r]
    BY <2>1
  <2>b. Existing(db') = Existing(db) \cup {m0}
    BY <1>10, CreateMeterTyped
  <2>2. /\ \A m \in Nodes \ {m0} : db'.rows[m] = db.rows[m]
        /\ db'.override = db.override /\ db'.tariffs = db.tariffs
      /\ db'.voltage = db.voltage /\ db'.hour = db.hour
    BY <2>a DEF TypeInv, Database
  <2>3. (\E cs, lost : Sent(cs, lost) /\ Addressed(cs) = {m0}) \/ Dropped(m0)
    BY <1>10, CreateMeterTyped
  <2> SUFFICES ASSUME NEW m \in Existing(db') \ gap' PROVE Follows(m)'
    BY DEF FollowInv
  <2>4. m # m0 => /\ m \in Existing(db) /\ db'.rows[m] = db.rows[m]
                  /\ Wanted(Intended(db', pass'), m) = Wanted(Intended(db, pass), m)
    BY <1>a, <1>o, <2>b, <2>2, WantedKept
  <2>e. m # m0 => (Editing(m) => Editing(m)')
    BY <2>1, <2>4, EditingKept
  <2>5. CASE Dropped(m0)
    <3>1. queue' = queue /\ m \notin gap
      BY <2>5 DEF Dropped
    <3>2. CASE m = m0
      BY <2>1, <2>5, <3>2, DroppedFollows
    <3>3. CASE m # m0
      BY <1>a, <2>1, <2>4, <3>1, <3>3, SilentFollows
    <3> QED BY <3>2, <3>3
  <2>6. ASSUME NEW cs, NEW lost, Sent(cs, lost), Addressed(cs) = {m0}
        PROVE  Follows(m)'
    BY <1>c, <1>o, <2>b, <2>1, <2>4, <2>e, <2>6, SentFollows
  <2> QED BY <2>3, <2>5, <2>6
<1> QED BY <1>1, <1>2, <1>3, <1>4, <1>5, <1>6, <1>7, <1>8, <1>9, <1>10 DEF Requests

LEMMA FollowReading ==
  ASSUME TypeInv, TypeInv', FollowInv, NEW m0 \in Nodes, Reading(m0)
  PROVE  FollowInv'
<1>1. /\ Existing(db') = Existing(db) /\ Dropped(m0)
      /\ UNCHANGED <<events, pass, queue, listening, recon, told>>
      /\ \A n \in Nodes \ {m0} : db'.rows[n] = db.rows[n]
      /\ db'.override = db.override /\ db'.tariffs = db.tariffs
      /\ db'.voltage = db.voltage /\ db'.hour = db.hour
  BY ReadingTyped
<1> SUFFICES ASSUME NEW m \in Existing(db') \ gap' PROVE Follows(m)'
  BY DEF FollowInv
<1>2. CASE m = m0
  BY <1>1, <1>2, DroppedFollows
<1>3. CASE m # m0
  <2>1. m \in Existing(db) \ gap /\ m \in Nodes
    BY <1>1 DEF Dropped, Existing
  <2>2. Wanted(Intended(db', pass'), m) = Wanted(Intended(db, pass), m)
    BY <1>1, <1>3, <2>1, WantedKept
  <2>3. Covered(m) => Covered(m)'
    BY <1>1 DEF Covered, Covers, Unprocessed
  <2>4. Editing(m) => Editing(m)'
    BY <1>1, <1>3, <2>1, EditingKept DEF Reading
  <2> QED BY <1>1, <2>1, <2>2, <2>3, <2>4, FollowKept
<1> QED BY <1>2, <1>3

(* A saved edit: the meters of the tariff wait for it to come to its end.  *)
LEMMA FollowSave ==
  ASSUME TypeInv, TypeInv', EditsTyped, FollowInv, NEW e \in Editors, SaveTariff(e)
  PROVE  FollowInv'
<1> DEFINE t == edits[e].of
<1>1. /\ Existing(db') = Existing(db) /\ UNCHANGED <<events, pass, queue, listening, recon, told, gap>>
      /\ db'.rows = db.rows /\ db'.override = db.override
      /\ db'.voltage = db.voltage /\ db'.hour = db.hour
      /\ \A u \in Tariffs \ {t} : db'.tariffs[u] = db.tariffs[u]
  BY SaveTariffTyped DEF link, history
<1>2. edits' = [edits EXCEPT ![e].at = "saved"] /\ edits[e].at = "read"
  BY DEF SaveTariff
<1>3. \A u \in Editors \ {e} : edits'[u] = edits[u]
  BY <1>2 DEF EditsTyped
<1>4. edits'[e].at = "saved" /\ edits'[e].of = t
  <2>1. edits[e] \in [at : {"read", "saved"}, of : Tariffs, old : Terms, limit : Powers]
    BY <1>2, EditOfTariff
  <2> QED BY <1>2, <2>1 DEF EditsTyped
<1> HIDE DEF t
<1> SUFFICES ASSUME NEW m \in Existing(db') \ gap' PROVE Follows(m)'
  BY DEF FollowInv
<1>5. m \in Existing(db) \ gap /\ db.rows[m] \in Row
  BY <1>1, ExistingRow DEF TypeInv
<1>6. CASE db.rows[m].tariff = t
  BY <1>1, <1>4, <1>6 DEF Follows, Editing
<1>7. CASE db.rows[m].tariff # t
  <2>1. db'.tariffs[db.rows[m].tariff] = db.tariffs[db.rows[m].tariff]
    BY <1>1, <1>5, <1>7 DEF Row
  <2>2. LoadLimit(db', db.rows[m].tariff) = LoadLimit(db, db.rows[m].tariff)
    BY <1>1, <2>1 DEF LoadLimit
  <2>3. Wanted(Intended(db', pass'), m) = Wanted(Intended(db, pass), m)
    BY <1>1, <1>5, <2>1, <2>2, WantedOf
  <2>4. Covered(m) => Covered(m)'
    BY <1>1 DEF Covered, Covers, Unprocessed
  <2>5. Editing(m) => Editing(m)'
    BY <1>1, <1>2, <1>3 DEF Editing
  <2> QED BY <1>1, <1>5, <2>3, <2>4, <2>5, FollowKept
<1> QED BY <1>6, <1>7

(* Its end: the meters of the tariff are told, or given up.                *)
LEMMA FollowSaved ==
  ASSUME TypeInv, TypeInv', EditsTyped, FollowInv, NEW e \in Editors, TellTariff(e) \/ EditFails(e)
  PROVE  FollowInv'
<1> DEFINE t == edits[e].of
<1>1. UNCHANGED <<db, pass, listening, recon, told>> /\ EventsAdded
  <2>1. Edit \/ \E u \in Editors : EditFails(u)
    BY DEF Edit
  <2> QED BY <2>1, TellTariffTyped, EditFailsTyped, EditSteps
<1>2. PICK cs, lost : Sent(cs, lost) /\ Users(t) \subseteq Addressed(cs) \cup lost
  BY TellTariffTyped, EditFailsTyped
<1>3. \A u \in Editors \ {e} : edits'[u] = edits[u]
  BY DEF EditsTyped, TellTariff, EditFails
<1> HIDE DEF t
<1> SUFFICES ASSUME NEW m \in Existing(db') \ gap' PROVE Follows(m)'
  BY DEF FollowInv
<1>4. m \in Existing(db) /\ m \in Nodes
  BY <1>1 DEF Existing
<1>5. Wanted(Intended(db', pass'), m) = Wanted(Intended(db, pass), m)
  BY <1>1
<1>6. Covered(m) => Covered(m)'
  BY <1>1, <1>4, CoveredByMore
<1>7. ASSUME m \notin Addressed(cs) \cup lost
      PROVE  Editing(m) => Editing(m)'
  <2>1. db.rows[m].tariff # t
    BY <1>2, <1>4, <1>7 DEF Users
  <2> QED BY <1>1, <1>3, <2>1 DEF Editing, t
<1> QED BY <1>1, <1>2, <1>4, <1>5, <1>6, <1>7, SentFollows

(* The hour: the meters whose limit is another one now are given up.       *)
LEMMA FollowHour ==
  ASSUME TypeInv, TypeInv', FollowInv, HourPasses
  PROVE  FollowInv'
<1>1. /\ Existing(db') = Existing(db)
      /\ UNCHANGED <<events, pass, edits, listening, recon, told>>
      /\ db'.rows = db.rows /\ db'.override = db.override
      /\ db'.voltage = db.voltage /\ db'.tariffs = db.tariffs
  BY HourPassesTyped
<1>2. PICK cs, lost : Sent(cs, lost) /\ Untimely \subseteq lost
  BY HourPassesTyped
<1> SUFFICES ASSUME NEW m \in Existing(db') \ gap' PROVE Follows(m)'
  BY DEF FollowInv
<1>3. ASSUME m \notin Untimely
      PROVE  Wanted(Intended(db', pass'), m) = Wanted(Intended(db, pass), m)
  <2>1. LoadLimit(db', db.rows[m].tariff) = LoadLimit(db, db.rows[m].tariff)
    BY <1>1, <1>3 DEF Untimely
  <2> QED BY <1>1, <2>1, WantedOf
<1>4. Covered(m) => Covered(m)'
  BY <1>1 DEF Covered, Covers, Unprocessed
<1>5. Editing(m) => Editing(m)'
  BY <1>1, EditingKept
<1> QED BY <1>1, <1>2, <1>3, <1>4, <1>5, SentFollows

LEMMA FollowStart ==
  ASSUME TypeInv, TypeInv', FollowInv, StartPass
  PROVE  FollowInv'
<1>1. /\ UNCHANGED <<db, events, queue, listening, recon, told, gap>>
      /\ pass = Idle /\ pass'.drafted = {} /\ ~pass'.dirty /\ pass'.seen = Idle.seen
  BY StartPassTyped DEF StartPass, link, history
<1>2. ~Idle.dirty /\ Idle.drafted = {} /\ \A m \in Nodes : Idle.seen.rows[m] = None
  BY DEF Idle
<1> SUFFICES ASSUME NEW m \in Existing(db') \ gap' PROVE Follows(m)'
  BY DEF FollowInv
<1>3. m \in Existing(db) \ gap /\ m \in Nodes
  BY <1>1 DEF Existing
<1>4. Wanted(Intended(db', pass'), m) = Wanted(Intended(db, pass), m)
  BY <1>1, <1>2, <1>3, WantedKept
<1>5. Covered(m) => Covered(m)'
  BY <1>1, <1>2, <1>3 DEF Covered, Covers, Unprocessed
<1>6. Editing(m) => Editing(m)'
  BY <1>1, EditingKept DEF StartPass
<1> QED BY <1>1, <1>3, <1>4, <1>5, <1>6, FollowKept

(* An event that is drafted no longer covers a meter, the others do.       *)
LEMMA CoveredDrafted ==
  ASSUME TypeInv, NEW i \in pass.todo, Drafted(i), NEW m \in Nodes, ~Covers(i, m),
         pass'.seen.rows[m] \in {None, pass.seen.rows[m]}
  PROVE  Covered(m) => Covered(m)'
BY DEF Drafted, Covered, Covers, Unprocessed, Switching

LEMMA FollowHandle ==
  ASSUME TypeInv, TypeInv', FollowInv, pass.on, NEW i \in pass.todo, ~Poison(events[i]),
         HandleChanged(i) \/ HandlePaid(i) \/ HandleOverride(i) \/ HandleVoltage(i)
  PROVE  FollowInv'
<1>o. \A m \in Existing(db') : m \in Nodes
  BY DEF Existing
<1>e. db' = db /\ edits' = edits
  BY DEF HandleChanged, HandlePaid, HandleOverride, HandleVoltage, Draft, Others
<1>f. \A m : Editing(m) => Editing(m)'
  BY <1>e DEF Editing
<1>1. CASE HandleChanged(i)
  <2> DEFINE m0 == events[i].of
  <2>1. /\ Drafted(i) /\ Intended(db', pass') = Intended(db, pass) /\ events[i].kind = "changed"
        /\ \A m \in Nodes \ {m0} : pass'.seen.rows[m] \in {None, pass.seen.rows[m]}
    BY <1>1, HandleChangedTyped DEF HandleChanged
  <2>2. PICK cs, lost : Sent(cs, lost) /\ Addressed(cs) = {m0}
    BY <1>1, HandleChangedTyped
  <2>3. UNCHANGED <<db, listening, told, recon>>
    BY <2>1 DEF Drafted
  <2> SUFFICES ASSUME NEW m \in Existing(db') \ gap' PROVE Follows(m)'
    BY DEF FollowInv
  <2>4. m # m0 => ~Covers(i, m)
    BY <2>1 DEF Covers, Switching
  <2>5. m # m0 => (Covered(m) => Covered(m)')
    BY <1>o, <2>1, <2>4, CoveredDrafted
  <2>6. Wanted(Intended(db', pass'), m) = Wanted(Intended(db, pass), m) /\ m \in Existing(db)
    BY <2>1, <2>3
  <2> HIDE DEF m0
  <2> QED BY <1>f, <2>2, <2>3, <2>5, <2>6, SentFollows
<1>2. CASE HandlePaid(i)
  <2>1. /\ Drafted(i) /\ Intended(db', pass') = Intended(db, pass) /\ events[i].kind = "paid"
        /\ pass'.seen = pass.seen /\ UNCHANGED <<queue, gap>>
    BY <1>2, HandlePaidTyped DEF HandlePaid
  <2>3. UNCHANGED <<db, listening, told, recon>>
    BY <2>1 DEF Drafted
  <2> SUFFICES ASSUME NEW m \in Existing(db') \ gap' PROVE Follows(m)'
    BY DEF FollowInv
  <2>4. ~Covers(i, m)
    BY <2>1 DEF Covers, Switching
  <2>5. Covered(m) => Covered(m)'
    BY <1>o, <2>1, <2>4, CoveredDrafted
  <2>6. /\ Wanted(Intended(db', pass'), m) = Wanted(Intended(db, pass), m) /\ m \in Existing(db) \ gap
    BY <2>1, <2>3
  <2> QED BY <1>f, <2>1, <2>3, <2>5, <2>6, FollowKept
<1>3. CASE HandleOverride(i)
  <2>1. Drafted(i)
    BY <1>3, HandleOverrideTyped
  <2>2. PICK cs, lost : Sent(cs, lost) /\ Existing(db) \subseteq Addressed(cs) \cup lost
    BY <1>3, HandleOverrideTyped
  <2>3. UNCHANGED <<db, listening, told, recon>>
    BY <2>1 DEF Drafted
  <2> QED BY <2>2, <2>3, SentFollows DEF FollowInv
<1>4. CASE HandleVoltage(i)
  <2>1. /\ Drafted(i) /\ Intended(db', pass') = Intended(db, pass) /\ events[i].kind = "voltage"
    BY <1>4, HandleVoltageTyped
  <2>2. PICK cs, lost :
          /\ Sent(cs, lost) /\ Addressed(cs) = Worth(View, Existing(db))
          /\ Unsure(Existing(db)) \subseteq lost
          /\ \A m \in Existing(db) \ lost : Wanted(View, m) = Wanted(Intended(db, pass), m)
    BY <1>4, HandleVoltageTyped
  <2>3. UNCHANGED <<db, listening, told, recon>>
    BY <2>1 DEF Drafted
  <2> SUFFICES ASSUME NEW m \in Existing(db') \ gap', ~Follows(m)' PROVE FALSE
    BY DEF FollowInv
  <2>4. /\ m \notin gap /\ m \notin lost /\ m \notin Addressed(cs)
        /\ Final(m, queue', told'[m]) = Final(m, queue, told[m])
        /\ Waiting(m, queue') = Waiting(m, queue)
    BY <2>2, <2>3, SentReaches
  <2>5. m \in Existing(db) /\ m \in Nodes
    BY <1>o, <2>3
  <2>6. ~NeedsUpdate(View, View.rows[m])
    BY <2>2, <2>4, <2>5 DEF Worth
  <2>7. db.rows[m].known = Final(m, queue', told'[m])
    BY <2>2, <2>4, <2>5 DEF Unsure, LastTold, Final
  <2>8. CASE pass.seen.rows[m] = None
    <3>1. View \in Database /\ m \in Existing(View) /\ View.rows[m] = db.rows[m]
      BY <2>5, <2>8, ViewIsDatabase DEF Kept
    <3>2. Wanted(View, m) = Wanted(Intended(db', pass'), m)
      BY <2>1, <2>2, <2>4, <2>5
    <3> QED BY <2>4, <2>6, <2>7, <3>1, <3>2, SkippedFollows
  <2>9. CASE pass.seen.rows[m] # None
    <3>1. ~Covers(i, m)
      BY <2>1, <2>9 DEF Covers, Switching
    <3>3. Covered(m) => Covered(m)'
      BY <2>1, <3>1, <2>9 DEF Drafted, Covered, Covers, Unprocessed, Switching
    <3>4. Wanted(Intended(db', pass'), m) = Wanted(Intended(db, pass), m)
      BY <2>1
    <3> QED BY <1>f, <2>3, <2>4, <2>5, <3>3, <3>4, FollowKept
  <2> QED BY <2>8, <2>9
<1> QED BY <1>1, <1>2, <1>3, <1>4

(* What the pass has done is committed.                                    *)
LEMMA FollowCommitted ==
  ASSUME TypeInv, FollowInv, Intended(db', pass') = Intended(db, pass),
         db' = Intended(db, pass), edits' = edits,
         DOMAIN events' = DOMAIN events,
         \A j \in DOMAIN events :
           /\ events'[j].kind = events[j].kind /\ events'[j].of = events[j].of
           /\ (events'[j].done <=> events[j].done \/ j \in pass.drafted),
         pass'.todo \subseteq pass.todo, pass'.drafted = {}, pass'.seen = Idle.seen,
         UNCHANGED <<queue, listening, told, recon, gap>>
  PROVE  FollowInv'
<1> SUFFICES ASSUME NEW m \in Existing(db') \ gap' PROVE Follows(m)'
  BY DEF FollowInv
<1>1. m \in Existing(db) \ gap /\ m \in Nodes /\ db'.rows = db.rows
  BY IntendedNow DEF Existing
<1>2. Idle.seen.rows[m] = None
  BY <1>1 DEF Idle
<1>3. Covered(m) => Covered(m)'
  BY <1>2 DEF Covered, Covers, Unprocessed, Switching
<1>4. Wanted(Intended(db', pass'), m) = Wanted(Intended(db, pass), m)
  OBVIOUS
<1>5. Editing(m) => Editing(m)'
  BY <1>1, EditingKept
<1> QED BY <1>1, <1>3, <1>4, <1>5, FollowKept

LEMMA FollowFails ==
  ASSUME TypeInv, TypeInv', OverrideInv, FollowInv, PassFails
  PROVE  FollowInv'
<1>1. /\ pass' = Idle /\ Intended(db', pass') = db
      /\ UNCHANGED <<db, events, edits, queue, listening, told, recon, gap>>
  BY PassFailsTyped DEF PassFails, link, history
<1> SUFFICES ASSUME NEW m \in Existing(db') \ gap' PROVE Follows(m)'
  BY DEF FollowInv
<1>2. Idle.drafted = {} /\ Idle.todo = {}
  BY DEF Idle
<1>3. CASE pass.dirty
  <2>1. PICK i \in Open : TRUE
    BY <1>3 DEF OverrideInv
  <2>2. i \in Unprocessed' \ pass'.drafted /\ Covers(i, m)'
    BY <1>1, <1>2, <2>1 DEF Open, Unprocessed, Covers, Switching
  <2> QED BY <2>2 DEF Follows, Covered
<1>4. CASE ~pass.dirty
  <2>1. Intended(db, pass) = db
    BY <1>4, IntendedNow
  <2>2. Wanted(Intended(db', pass'), m) = Wanted(Intended(db, pass), m)
    BY <1>1, <2>1
  <2>3. Covered(m) => Covered(m)'
    BY <1>1, <1>2 DEF Covered, Covers, Unprocessed, Switching
  <2>4. Editing(m) => Editing(m)'
    BY <1>1, EditingKept
  <2> QED BY <1>1, <2>2, <2>3, <2>4, FollowKept
<1> QED BY <1>3, <1>4

LEMMA FollowZeroed ==
  ASSUME TypeInv, TypeInv', AlertInv, FollowInv, Zeroed
  PROVE  FollowInv'
<1> DEFINE i == pass.zeroing
           m0 == events[i].of
<1>1. /\ i # 0 /\ i \in DOMAIN events /\ m0 \in Existing(db) /\ m0 \in Nodes
      /\ events' = Append(events, Event("paid", m0))
      /\ pass'.todo = pass.todo /\ pass'.drafted = {i}
      /\ (pass'.dirty <=> pass.dirty) /\ pass'.seen = pass.seen
      /\ UNCHANGED <<edits, listening, told, recon>>
  BY ZeroedTyped DEF Existing, Zeroed, Others
<1>2. PICK f \in BOOLEAN : db' = [db EXCEPT !.rows[m0].funded = f]
  BY ZeroedTyped
<1>3. PICK cs : Sent(cs, Unsure({m0})) /\ Addressed(cs) = Worth(db', {m0})
  BY ZeroedTyped
<1>4. EventsAdded
  <2>1. "paid" \in Kinds
    BY DEF Kinds
  <2> HIDE DEF m0
  <2> QED BY <1>1, <2>1, EventAdded
<1>5. events[i].kind = "zero" /\ pass.drafted = {}
  BY <1>1 DEF AlertInv
<1>6. PICK n \in Existing(db) : n = m0
  BY <1>1
<1>7. /\ Existing(db') = Existing(db) /\ db'.rows[n] = [db.rows[n] EXCEPT !.funded = f]
      /\ \A m \in Nodes \ {n} : db'.rows[m] = db.rows[m]
      /\ db'.override = db.override /\ db'.tariffs = db.tariffs
      /\ db'.voltage = db.voltage /\ db'.hour = db.hour
  BY <1>2, <1>6, FundedChanged
<1>8. db'.rows[n].known = db.rows[n].known
  BY <1>6, <1>7, ExistingRow DEF TypeInv, Row
<1> HIDE DEF m0
<1> SUFFICES ASSUME NEW m \in Existing(db') \ gap' PROVE Follows(m)'
  BY DEF FollowInv
<1>9. CASE m = n
  BY <1>1, <1>3, <1>6, <1>7, <1>8, <1>9, WorthFollows
<1>10. CASE m # n
  <2>1. m \in Existing(db) /\ m \in Nodes
    BY <1>7 DEF Existing
  <2>2. Wanted(Intended(db', pass'), m) = Wanted(Intended(db, pass), m)
    BY <1>1, <1>7, <1>10, <2>1, WantedKept
  <2>3. ASSUME Covered(m)
        PROVE  Covered(m)'
    <3>1. PICK j \in Unprocessed \ pass.drafted : Covers(j, m)
      BY <2>3 DEF Covered
    <3>2. j # i
      BY <1>5, <3>1 DEF Covers, Switching
    <3>3. j \in Unprocessed' \ pass'.drafted /\ events'[j] = events[j]
      BY <1>1, <1>4, <3>1, <3>2 DEF Unprocessed, EventsAdded
    <3>4. Covers(j, m)'
      BY <1>1, <3>1, <3>3 DEF Covers, Switching
    <3> QED BY <3>3, <3>4 DEF Covered
  <2>4. Editing(m) => Editing(m)'
    BY <1>1, <1>7, <1>10, <2>1, EditingKept
  <2> QED BY <1>1, <1>3, <1>6, <1>10, <2>1, <2>2, <2>3, <2>4, SentFollows DEF Worth
<1> QED BY <1>9, <1>10

LEMMA FollowDispatch ==
  ASSUME TypeInv, TypeInv', FollowInv, Dispatch
  PROVE  FollowInv'
<1> DEFINE c == Head(queue)
<1>1. /\ queue # <<>> /\ queue' = Tail(queue)
      /\ UNCHANGED <<db, events, pass, edits, listening, recon>>
      /\ (Accepted(c) /\ UNCHANGED gap) \/ Refused(c.node)
  BY DEF Dispatch, state
<1>2. queue \in Seq(Order) /\ told \in [Nodes -> {None} \cup Setting]
  BY DEF TypeInv, LinkTyped
<1>3. Intended(db', pass') = Intended(db, pass)
  BY DispatchTyped
<1> SUFFICES ASSUME NEW m \in Existing(db') \ gap' PROVE Follows(m)'
  BY DEF FollowInv
<1>4. /\ m \in Nodes /\ m \in Existing(db) \ gap
      /\ Wanted(Intended(db', pass'), m) = Wanted(Intended(db, pass), m)
      /\ Covered(m) => Covered(m)'
      /\ Editing(m) => Editing(m)'
  BY <1>1, <1>3 DEF Existing, Refused, Covered, Covers, Unprocessed, Editing
<1>5. /\ Final(m, queue', IF c.node = m THEN c.set ELSE told[m]) = Final(m, queue, told[m])
      /\ Waiting(m, queue) = {} => Waiting(m, queue') = {}
  BY <1>1, <1>2, LastTaken
<1>6. CASE Accepted(c)
  <2>1. told'[m] = IF c.node = m THEN c.set ELSE told[m]
    BY <1>2, <1>4, <1>6 DEF Accepted
  <2> HIDE DEF c
  <2> QED BY <1>1, <1>4, <1>5, <2>1, FollowKept
<1>7. CASE Refused(c.node) /\ c.node # m
  <2>1. told'[m] = told[m]
    BY <1>7 DEF Refused
  <2> HIDE DEF c
  <2> QED BY <1>1, <1>4, <1>5, <1>7, <2>1, FollowKept
<1>8. CASE Refused(c.node) /\ c.node = m
  <2>1. m \notin Misled({m} \cap Existing(db), Intended(db, pass), queue')
    BY <1>8 DEF Refused
  <2>2. Fine(Final(m, queue', told[m]), Intended(db, pass), m)
    BY <1>4, <2>1 DEF Misled, Fine, LastTold, Final
  <2>3. told' = told
    BY <1>8 DEF Refused
  <2> QED BY <1>3, <2>2, <2>3 DEF Follows, Right
<1> QED BY <1>1, <1>6, <1>7, <1>8

LEMMA FollowLoad ==
  ASSUME TypeInv, TypeInv', FollowInv, Load
  PROVE  FollowInv'
<1>1. /\ UNCHANGED <<db, events, pass, edits, queue, listening, told>> /\ recon.phase = "owed"
      /\ gap' = gap \ {m \in Existing(db) : Waiting(m, queue) = {} /\ ~pass.dirty}
  BY DEF Load, state
<1>2. recon'.phase = "sending" /\ DOMAIN recon'.left = Existing(db)
  BY LoadTyped
<1> SUFFICES ASSUME NEW m \in Existing(db') \ gap' PROVE Follows(m)'
  BY DEF FollowInv
<1>3. CASE Waiting(m, queue) = {}
  BY <1>1, <1>2, <1>3 DEF Follows, Owing
<1>4. CASE Waiting(m, queue) # {}
  <2>1. Follows(m) /\ ~Owing(m)
    BY <1>1, <1>4 DEF FollowInv, Owing
  <2>2. (Right(m) => Right(m)') /\ (Covered(m) => Covered(m)') /\ (Editing(m) => Editing(m)')
    BY <1>1 DEF Right, Covered, Covers, Unprocessed, Editing
  <2> QED BY <2>1, <2>2 DEF Follows
<1> QED BY <1>3, <1>4

LEMMA FollowReconcile ==
  ASSUME TypeInv, TypeInv', FollowInv, ReconcileNext
  PROVE  FollowInv'
<1>1. UNCHANGED <<db, events, pass, queue, listening>> /\ Intended(db', pass') = Intended(db, pass)
  BY ReconcileNextTyped
<1>2. PICK m0 \in DOMAIN recon.left :
        /\ recon.left[m0] \in Setting
        /\ recon'.phase = "sending" /\ DOMAIN recon'.left = DOMAIN recon.left \ {m0}
        /\ \/ /\ told' = [told EXCEPT ![m0] = recon.left[m0]]
              /\ gap' = IF m0 \in Existing(db) /\ Waiting(m0, queue) = {}
                           /\ ~Agree(recon.left[m0], Wanted(Intended(db, pass), m0))
                        THEN gap \cup {m0} ELSE gap
           \/ Refused(m0)
  BY ReconcileNextTyped
<1>3. recon.phase = "sending" /\ told \in [Nodes -> {None} \cup Setting]
  BY DEF ReconcileNext, Reconciling, TypeInv, LinkTyped
<1> SUFFICES ASSUME NEW m \in Existing(db') \ gap' PROVE Follows(m)'
  BY DEF FollowInv
<1>4. m \in Nodes /\ m \in Existing(db) \ gap
  <2>1. gap \subseteq gap'
    BY <1>2 DEF Refused
  <2> QED BY <1>1, <2>1 DEF Existing
<1>5. Follows(m) /\ (Covered(m) => Covered(m)') /\ (Editing(m) => Editing(m)')
  <2>1. edits' = edits
    BY DEF ReconcileNext, state
  <2> QED BY <1>1, <1>4, <2>1 DEF FollowInv, Covered, Covers, Unprocessed, Editing
<1>6. Final(m, queue', told'[m]) = Final(m, queue, told[m]) => (Right(m) => Right(m)')
  BY <1>1 DEF Right, Fine
<1>7. CASE m # m0
  <2>1. told'[m] = told[m]
    BY <1>2, <1>3, <1>4, <1>7 DEF Refused
  <2>2. Owing(m) => Owing(m)'
    BY <1>1, <1>2, <1>3, <1>7 DEF Owing
  <2> QED BY <1>1, <1>5, <1>6, <2>1, <2>2 DEF Follows
<1>8. CASE m = m0 /\ Waiting(m, queue) # {}
  <2>1. Final(m, queue', told'[m]) = Final(m, queue, told[m]) /\ ~Owing(m)
    BY <1>1, <1>8 DEF Final, Owing
  <2> QED BY <1>5, <1>6, <2>1 DEF Follows
<1>9. CASE m = m0 /\ Waiting(m, queue) = {}
  <2>1. CASE Refused(m0)
    <3>1. m \notin Misled({m} \cap Existing(db), Intended(db, pass), queue') /\ told' = told
      BY <1>9, <2>1 DEF Refused
    <3>2. Fine(Final(m, queue', told'[m]), Intended(db, pass), m)
      BY <1>4, <3>1 DEF Misled, Fine, LastTold, Final
    <3> QED BY <1>1, <3>2 DEF Follows, Right
  <2>2. CASE ~Refused(m0)
    <3>1. told'[m] = recon.left[m] /\ Agree(recon.left[m], Wanted(Intended(db, pass), m))
      BY <1>2, <1>3, <1>4, <1>9, <2>2
    <3>2. Final(m, queue', told'[m]) = recon.left[m]
      BY <1>1, <1>9, <3>1 DEF Final
    <3> QED BY <1>1, <1>2, <1>9, <3>1, <3>2, NoneAssumption DEF Follows, Right, Fine
  <2> QED BY <2>1, <2>2
<1> QED BY <1>7, <1>8, <1>9

LEMMA FollowNext ==
  ASSUME TypeInv, TypeInv', EditsTyped, AlertInv, OverrideInv, FollowInv, Next
  PROVE  FollowInv'
<1>1. CASE Requests
  BY <1>1, FollowRequests
<1>2. CASE \E m \in Nodes : Reading(m)
  BY <1>2, FollowReading
<1>3. ASSUME NEW i \in pass.todo, pass.on, ~Poison(events[i]),
             HandleChanged(i) \/ HandlePaid(i) \/ HandleOverride(i) \/ HandleVoltage(i) \/ HandleZero(i)
      PROVE  FollowInv'
  <2>1. CASE HandleZero(i)
    <3>1. /\ UNCHANGED <<edits, queue, listening, told, recon, gap>> /\ pass'.todo \subseteq pass.todo
          /\ pass'.drafted = {} /\ pass'.seen = Idle.seen
      BY <1>3, <2>1, HandleZeroTyped DEF HandleZero, link, history
    <3> QED BY <1>3, <2>1, <3>1, HandleZeroTyped, FollowCommitted
  <2> QED BY <1>3, <2>1, FollowHandle
<1>4. CASE PassEnds
  <2>1. /\ UNCHANGED <<edits, queue, listening, told, recon, gap>> /\ Idle.todo = {} /\ Idle.drafted = {}
    BY <1>4 DEF PassEnds, link, history, Idle
  <2> QED BY <1>4, <2>1, PassEndsTyped, FollowCommitted
<1>5. CASE Pass
  BY <1>3, <1>4, <1>5, FollowStart, FollowZeroed, FollowFails DEF Pass, Handle
<1>6. CASE Crash
  <2>1. queue' = <<>> /\ ~listening'
    BY <1>6, CrashTyped
  <2>2. \A m \in Nodes : Waiting(m, queue') = {}
    BY <2>1 DEF Waiting
  <2> QED BY <2>1, <2>2 DEF FollowInv, Follows, Owing, Existing
<1>e. ASSUME edits' = edits, db' = db
      PROVE  \A m : Editing(m) => Editing(m)'
  BY <1>e DEF Editing
<1>7. CASE Register
  <2>1. recon'.phase = "owed" /\ queue = <<>> /\ UNCHANGED <<db, events, pass, edits, queue, told, gap>>
    BY <1>7, RegisterTyped DEF Register, state
  <2> QED BY <1>e, <2>1, FollowLink DEF Owing
<1>8. CASE GatewayBack
  <2>1. recon'.phase = "owed" /\ UNCHANGED <<db, events, pass, edits, queue, listening, told, gap>>
    BY <1>8, GatewayBackTyped DEF GatewayBack, state
  <2> QED BY <1>e, <2>1, FollowLink DEF Owing
<1>9. CASE Pause
  <2>1. UNCHANGED <<db, events, pass, edits, queue, listening, recon, told, gap>>
    BY <1>9, PauseTyped DEF Pause, state
  <2> QED BY <1>e, <2>1, FollowLink DEF Owing
<1>10. CASE ReconcileEnds
  <2>1. /\ UNCHANGED <<db, events, pass, edits, queue, listening, told, gap>>
        /\ recon.phase = "sending" /\ DOMAIN recon.left = {}
    BY <1>10 DEF ReconcileEnds, Reconciling, state, history
  <2>2. \A m : Owing(m) => Owing(m)'
    BY <2>1 DEF Owing
  <2> QED BY <1>e, <2>1, <2>2, FollowLink
<1>11. CASE Edit \/ \E e \in Editors : EditFails(e)
  BY <1>11, FollowSave, FollowSaved DEF Edit
<1> QED BY <1>1, <1>2, <1>5, <1>6, <1>7, <1>8, <1>9, <1>10, <1>11, FollowDispatch, FollowLoad,
           FollowReconcile, FollowHour DEF Next, Reconcile

LEMMA FollowInvariance == Spec => []FollowInv
<1>1. Init => FollowInv
  <2> SUFFICES ASSUME Init, NEW m \in Existing(db) \ gap PROVE Right(m)
    BY DEF FollowInv, Follows
  <2>1. TypeInv /\ Final(m, queue, told[m]) = Wanted(Intended(db, pass), m)
    BY InitTyped
  <2>2. Intended(db, pass) \in Database /\ m \in Existing(Intended(db, pass))
    BY <2>1, IntendedNow
  <2> QED BY <2>1, <2>2, FineWanted DEF Right
<1>2. TypeInv /\ EditsTyped /\ AlertInv /\ OverrideInv /\ FollowInv /\ [Next]_vars => FollowInv'
  <2>1. FollowInv /\ UNCHANGED vars => FollowInv'
    <3> SUFFICES ASSUME FollowInv, UNCHANGED vars PROVE FollowInv'
      OBVIOUS
    <3>1. UNCHANGED <<db, events, pass, edits, queue, listening, recon, told, gap>>
      BY DEF vars, state, link, history
    <3> QED BY <3>1, FollowLink DEF Owing, Editing
  <2>2. TypeInv /\ EditsTyped /\ Next => TypeInv'
    BY NextTyped
  <2> QED BY <2>1, <2>2, FollowNext
<1> QED BY <1>1, <1>2, TypeInvariance, AlertInvariance, OverrideInvariance, PTL DEF Spec

(* When nothing is under way the provider was last told, of every meter    *)
(* that the code has not lost sight of, what the rows ask for: whatever    *)
(* the order of requests, readings and passes, and through passes that     *)
(* fail, pauses, reconciles and restarts.                                  *)
THEOREM CommandsFollow == Spec => []CommandsFollowDatabase
<1>1. TypeInv /\ FollowInv => CommandsFollowDatabase
  <2> SUFFICES ASSUME TypeInv, FollowInv, Quiet, NEW m \in Existing(db) \ gap
               PROVE  LastTold(m, queue) # None /\ Agree(LastTold(m, queue), Wanted(db, m))
    BY DEF CommandsFollowDatabase, Misled
  <2>1. ~Covered(m) /\ ~Owing(m) /\ ~Editing(m)
    <3>1. ~Covered(m)
      BY DEF Quiet, Covered
    <3>2. ~Owing(m)
      BY NoReconcileTyped DEF Quiet, Owing
    <3>3. \A e \in Editors : edits[e].at # "saved"
      BY DEF Quiet, NoEdit
    <3> QED BY <3>1, <3>2, <3>3 DEF Editing
  <2>2. Right(m)
    BY <2>1 DEF FollowInv, Follows
  <2>3. Intended(db, pass) = db
    <3>1. ~pass.dirty
      BY DEF Quiet, TypeInv, PassTyped, Idle
    <3> QED BY <3>1, IntendedNow
  <2> QED BY <2>2, <2>3 DEF Right, Fine, LastTold, Final
<1> QED BY <1>1, TypeInvariance, FollowInvariance, PTL
=============================================================================
