------------------------------ MODULE GroundOps ------------------------------
(***************************************************************************)
(* How the settings of the ground's meters reach the metering provider:    *)
(* the requests that change rows and leave events, the pass of             *)
(* process_events that runs once a minute over them, the queue of commands *)
(* with its dispatcher, the reconcile, and the restart of the process.     *)
(*                                                                         *)
(* A request is one database transaction and one step.  A pass is one      *)
(* transaction too, with a step per event: it commits at its end, or in    *)
(* the middle of the event that zeroes a wallet, and its commands leave    *)
(* before that.  The edit of a tariff is two transactions, after a read.   *)
(***************************************************************************)
EXTENDS MeterState, Sequences, FiniteSets, SequencesExt

CONSTANTS
  Broadcast,       \* the parameter SEND_BROADCAST_SIGNAL
  Spares,          \* meters that are created later
  NewMode,         \* NEW_METER_STATE
  Editors,         \* the requests that may be editing tariffs at one time
  Forms,           \* the terms that the forms of these may ask for
  FirstTariff, FirstTerms, FirstHour, FirstVoltage,   \* the values at the beginning
  MaxRequests,     \* bound
  MaxTroubles,     \* bound: readings, hours, refusals, failures, pauses, crashes
  MaxQueue         \* bound: commands waiting when a pass starts

ASSUME OpsAssumption ==
  /\ IsFiniteSet(Nodes)
  /\ Broadcast \in BOOLEAN /\ Spares \subseteq Nodes /\ NewMode \in Modes
  /\ FirstTariff \in Tariffs /\ FirstVoltage \in Voltages /\ FirstHour \in Hours
  /\ FirstTerms \in [Tariffs -> Terms] /\ Forms \subseteq Terms
  /\ MaxRequests \in Nat /\ MaxTroubles \in Nat /\ MaxQueue \in Nat

VARIABLES
  db,         \* the committed rows
  events,     \* every event: what it is, whether it is processed, its alerts
  pass,       \* the pass of process_events, or Idle
  edits,      \* the edits of tariffs: what each has read and saved, or NoEdit
  queue,      \* the commands for the dispatcher
  listening,  \* is the loop registered with dispatch
  allowed,    \* commands_allowed
  recon,      \* the reconcile: its phase, whether commands wait for it, what is left
  told,       \* the last setting the provider took for a meter
  gone,       \* the meters that were removed
  gap,        \* history: meters the code is known to lose sight of, see below
  asked,      \* history: the override last requested
  mixed,      \* history: were requests for it under way at the same time
  requests, troubles

state   == <<db, events, pass, edits>>
link    == <<queue, listening, allowed, recon, told>>
history == <<gone, gap, asked, mixed>>
bounds  == <<requests, troubles>>
vars    == <<state, link, history, bounds>>

Kinds == {"changed", "paid", "on", "off", "voltage", "zero", "power", "created"}

Alerting == {"changed", "paid", "zero", "created"}

Idle == [on |-> FALSE, todo |-> {}, drafted |-> {}, zeroing |-> 0, dirty |-> FALSE,
         seen |-> [rows |-> [m \in Nodes |-> None], tariffs |-> [t \in Tariffs |-> None],
                   override |-> None]]

NoEdit == [at |-> "none", of |-> None, old |-> None, limit |-> None]

NoReconcile == [phase |-> "none", resumes |-> FALSE, left |-> <<>>]

(* A reconcile that begins next, and whether commands wait for its end.    *)
Owed(resumes) == [phase |-> "owed", resumes |-> resumes, left |-> <<>>]

Existing(d) == {m \in Nodes : d.rows[m] # None}

Event(k, x) == [kind |-> k, of |-> x, done |-> FALSE, alerts |-> 0]

(* An event that is processed by the request that creates it.              *)
DoneEvent(k, x) ==
  [Event(k, x) EXCEPT !.done = TRUE, !.alerts = IF k \in Alerting THEN 1 ELSE 0]

Configure(d, m) == [node |-> m, set |-> Command(d, d.rows[m])]

Disable(m) == [node |-> m, set |-> [on |-> FALSE, limit |-> Broadest]]

Init ==
  /\ \E hides \in SUBSET (Nodes \ Spares), o \in BOOLEAN :
       LET plain(m) == [mode |-> "auto", funded |-> TRUE, used |-> None,
                        running |-> FirstTerms[FirstTariff].planned,
                        tariff |-> FirstTariff, hidden |-> m \in hides, known |-> None]
           d == [rows |-> [m \in Nodes |-> plain(m)], override |-> o,
                 tariffs |-> FirstTerms, voltage |-> FirstVoltage, hour |-> FirstHour]
       IN  /\ told = [m \in Nodes |-> IF m \in Spares THEN None ELSE Command(d, plain(m))]
           /\ db = [d EXCEPT !.rows = [m \in Nodes |->
                      IF m \in Spares THEN None ELSE [plain(m) EXCEPT !.known = told[m]]]]
           /\ asked = o
  /\ events = <<>> /\ pass = Idle /\ edits = [e \in Editors |-> NoEdit]
  /\ queue = <<>> /\ listening = TRUE /\ allowed = TRUE /\ recon = NoReconcile
  /\ gone = {} /\ gap = {} /\ mixed = FALSE
  /\ requests = 0 /\ troubles = 0

-----------------------------------------------------------------------------
(* Commands.                                                               *)

(* What the ground will ask for when the pass that runs commits.           *)
Intended(d, p) == IF p.dirty THEN [d EXCEPT !.override = p.seen.override] ELSE d

Wanted(d, m) == Command(d, d.rows[m])

(* The places in the queue q of the commands for meter m.                  *)
Waiting(m, q) == {i \in DOMAIN q : q[i].node = m}

(* What meter m will have been told when the queue q is empty.             *)
LastTold(m, q) == IF Waiting(m, q) = {} THEN told[m] ELSE q[Max(Waiting(m, q))].set

Misled(ms, d, q) ==
  {m \in ms : LastTold(m, q) = None \/ ~Agree(LastTold(m, q), Wanted(d, m))}

(* enqueue_command of cs.  The meters of "lost" may now be told something  *)
(* else than the rows ask for, and no event or command is left to repair   *)
(* it; those that cs sets right no longer are.  Without a registered loop  *)
(* the commands are dropped, and the caller does not know; but then the    *)
(* reconcile of the start is still to come.                                *)
Enqueue(cs, lost) ==
  LET d == Intended(db', pass')
      reached == {cs[i].node : i \in DOMAIN cs} \cap Existing(d)
  IN  /\ queue' = IF listening THEN queue \o cs ELSE queue
      /\ gap' = (gap \ (reached \ Misled(reached, d, queue')))
                \cup Misled(lost, d, queue')

(* A process of the command line has no loop.                              *)
Drop(cs) ==
  LET d == Intended(db', pass')
  IN  /\ UNCHANGED queue
      /\ gap' = gap \cup Misled({cs[i].node : i \in DOMAIN cs} \cap Existing(d), d, queue)

(* The meters that have been told something since their last reading, or   *)
(* whose override is being changed: what a request believes of them may be *)
(* wrong.                                                                  *)
Unsure(ms) ==
  IF pass.dirty THEN ms ELSE {m \in ms : db.rows[m].known # LastTold(m, queue)}

(* The sends based on system info that are worth it.                       *)
Worth(d, ms) == {m \in ms : NeedsUpdate(d, d.rows[m])}

-----------------------------------------------------------------------------
(* Requests.                                                               *)

Request == requests < MaxRequests /\ requests' = requests + 1

(* What else happens: a reading, or something that goes wrong.             *)
Trouble == troubles < MaxTroubles /\ troubles' = troubles + 1

Others == UNCHANGED <<edits, listening, allowed, recon, told, troubles>>

NoCommand == UNCHANGED <<queue, gap>>

(* Meter.set_state, by the power button or the API.                        *)
SetMode(m, mode) ==
  /\ Request /\ m \in Existing(db) /\ mode # db.rows[m].mode
  /\ db' = [db EXCEPT !.rows[m].mode = mode]
  /\ events' = Append(events, Event("changed", m))
  /\ NoCommand /\ Others /\ UNCHANGED <<pass, gone, asked, mixed>>

ResetMeter(m) ==
  /\ Request /\ m \in Existing(db)
  /\ events' = Append(events, Event("changed", m))
  /\ NoCommand /\ Others /\ UNCHANGED <<db, pass, gone, asked, mixed>>

(* The edit of a meter or a customer: an event for a new mode and one for  *)
(* a new tariff.  They are processed at once, before the new values are in *)
(* the rows, so that the meter is sent what it has.                        *)
EditMeter(m, mode, t, hidden) ==
  LET r == db.rows[m]
      changes == (IF mode # r.mode THEN 1 ELSE 0) + (IF t # r.tariff THEN 1 ELSE 0)
  IN  /\ Request /\ m \in Existing(db)
      /\ changes > 0 \/ hidden # r.hidden
      /\ db' = [db EXCEPT !.rows[m].mode = mode, !.rows[m].tariff = t, !.rows[m].hidden = hidden]
      /\ events' = events \o [i \in 1..changes |-> DoneEvent("changed", m)]
      /\ UNCHANGED pass
      /\ Enqueue([i \in 1..changes |-> Configure(db, m)], {m})
      /\ Others /\ UNCHANGED <<gone, asked, mixed>>

RequestOverride(o) ==
  /\ Request
  /\ events' = Append(events, Event(IF o THEN "on" ELSE "off", None))
  /\ asked' = o
  /\ mixed' = (mixed \/ \E i \in DOMAIN events : events[i].kind \in {"on", "off"} /\ ~events[i].done)
  /\ NoCommand /\ Others /\ UNCHANGED <<db, pass, gone>>

Hidden == {m \in Existing(db) : db.rows[m].hidden}

(* A faulty UpdateAll: the meters whose last reading is right are left out.*)
UpdateAllWorth(d) ==
  SetToSeq({Configure(d, m) : m \in Worth(d, Existing(db) \ Hidden)})

(* update_all_active_customer_meters: those that need it and then the rest,*)
(* but for the hidden ones.                                                *)
UpdateAll(d) ==
  LET active == Existing(db) \ Hidden
  IN  SetToSeq({Configure(d, m) : m \in Worth(d, active)})
      \o SetToSeq({Configure(d, m) : m \in active \ Worth(d, active)})

(* set_override_meter_state(True) begins with a broadcast to every meter.  *)
SwitchOverride(d) ==
  (IF d.override /\ Broadcast THEN SetToSeq({Disable(m) : m \in Existing(db)}) ELSE <<>>)
  \o UpdateAll(d)

(* manual_override: the operator's page ends an override at once.  It waits*)
(* for the row when a pass has written it.                                 *)
EndOverride ==
  /\ Request /\ db.override /\ ~pass.dirty
  /\ db' = [db EXCEPT !.override = FALSE]
  /\ UNCHANGED <<events, pass>>
  /\ Enqueue(SwitchOverride(db'), Hidden)
  /\ asked' = FALSE
  /\ mixed' = (mixed \/ pass.on
               \/ \E i \in DOMAIN events : events[i].kind \in {"on", "off"} /\ ~events[i].done)
  /\ Others /\ UNCHANGED gone

(* A page for a tariff is posted: the row is read, and the limit in force. *)
ReadTariff(e, t) ==
  /\ Request /\ edits[e] = NoEdit
  /\ edits' = [edits EXCEPT ![e] =
       [at |-> "read", of |-> t, old |-> db.tariffs[t], limit |-> LoadLimit(db, t)]]
  /\ UNCHANGED <<db, events, pass, link, history, troubles>>

(* The columns that a form changes are written, and no others.             *)
Changed(form, old, now) ==
  [limits  |-> IF form.limits = old.limits THEN now.limits ELSE form.limits,
   planned |-> IF form.planned = old.planned THEN now.planned ELSE form.planned,
   cap     |-> IF form.cap = old.cap THEN now.cap ELSE form.cap]

SaveTariff(e) ==
  /\ edits[e].at = "read"
  /\ \E form \in Forms :
       db' = [db EXCEPT !.tariffs[edits[e].of] = Changed(form, edits[e].old, @)]
  /\ edits' = [edits EXCEPT ![e].at = "saved"]
  /\ UNCHANGED <<events, pass, link, history, bounds>>

Users(t) == {m \in Existing(db) : db.rows[m].tariff = t}

(* After the commit the limit in force is compared with the one before.    *)
(* update_meters sends commands if it is another one.                      *)
TellTariff(e) ==
  LET t == edits[e].of
  IN  /\ edits[e].at = "saved"
      /\ edits' = [edits EXCEPT ![e] = NoEdit]
      /\ UNCHANGED <<db, pass>>
      /\ \/ /\ LoadLimit(db, t) # edits[e].limit
            /\ events' = Append(events, DoneEvent("power", t))
            /\ Enqueue(SetToSeq({Configure(db, m) : m \in Users(t)}),
                       IF pass.dirty THEN Users(t) ELSE {})
         \/ /\ LoadLimit(db, t) = edits[e].limit
            /\ UNCHANGED events
            /\ Enqueue(<<>>, Users(t))
      /\ UNCHANGED <<listening, allowed, recon, told, gone, asked, mixed, bounds>>

(* The request ends after its first commit with an error.                  *)
EditFails(e) ==
  /\ Trouble /\ edits[e].at = "saved"
  /\ edits' = [edits EXCEPT ![e] = NoEdit]
  /\ UNCHANGED <<db, events, pass>>
  /\ Enqueue(<<>>, Users(edits[e].of))
  /\ UNCHANGED <<listening, allowed, recon, told, gone, asked, mixed, requests>>

(* Another part of the day, with the load limits that are scheduled for it *)
(* in the tariffs.  Nothing is sent.                                       *)
HourPasses ==
  /\ Trouble
  /\ \E h \in Hours \ {db.hour} : db' = [db EXCEPT !.hour = h]
  /\ UNCHANGED <<events, pass>>
  /\ Enqueue(<<>>, {m \in Existing(db) : LoadLimit(db', db.rows[m].tariff) # LoadLimit(db, db.rows[m].tariff)})
  /\ UNCHANGED <<edits, listening, allowed, recon, told, gone, asked, mixed, requests>>

ChangeVoltage(v) ==
  /\ Request /\ v # db.voltage
  /\ db' = [db EXCEPT !.voltage = v]
  /\ events' = Append(events, Event("voltage", None))
  /\ NoCommand /\ Others /\ UNCHANGED <<pass, gone, asked, mixed>>

(* Transaction.process of a payment or of a reversal, in this process or   *)
(* from the command line: a command if the last reading makes it worth one,*)
(* and an event that is only good for an alert.                            *)
ProcessTransaction(m, funded, here) ==
  /\ Request /\ m \in Existing(db)
  /\ db' = [db EXCEPT !.rows[m].funded = funded]
  /\ events' = Append(events, Event("paid", m)) /\ UNCHANGED pass
  /\ LET cs == SetToSeq({Configure(db', n) : n \in Worth(db', {m})})
     IN  IF here THEN Enqueue(cs, Unsure({m})) ELSE Drop(IF cs = <<>> THEN <<Configure(db', m)>> ELSE cs)
  /\ Others /\ UNCHANGED <<gone, asked, mixed>>

RequestZero(m) ==
  /\ Request /\ m \in Existing(db)
  /\ events' = Append(events, Event("zero", m))
  /\ NoCommand /\ Others /\ UNCHANGED <<db, pass, gone, asked, mixed>>

(* Meter.remove: the events about the meter stay, and the provider is not  *)
(* told.                                                                   *)
RemoveMeter(m) ==
  /\ Request /\ m \in Existing(db)
  /\ db' = [db EXCEPT !.rows[m] = None]
  /\ gone' = gone \cup {m} /\ gap' = gap \ {m}
  /\ Others /\ UNCHANGED <<events, pass, queue, asked, mixed>>

(* create_meter and finish_creation.                                       *)
CreateMeter(m, t, here) ==
  /\ Request /\ m \in Spares \ (gone \cup Existing(db))
  /\ db' = [db EXCEPT !.rows[m] =
              [mode |-> NewMode, funded |-> FALSE, running |-> FALSE, used |-> None,
               tariff |-> t, hidden |-> FALSE, known |-> None]]
  /\ events' = Append(events, DoneEvent("created", m)) /\ UNCHANGED pass
  /\ IF here THEN Enqueue(<<Configure(db', m)>>, IF pass.dirty THEN {m} ELSE {})
             ELSE Drop(<<Configure(db', m)>>)
  /\ Others /\ UNCHANGED <<gone, asked, mixed>>

(* A reading is billed: it may use up the money, end a plan or buy one,    *)
(* reach the limit of the day or begin a new one, and it says what the     *)
(* meter does.                                                             *)
(* It sends no command (add_reading is called with update_meter_state off).*)
Reading(m) ==
  /\ Trouble
  /\ m \in Existing(db) /\ told[m] # None
  /\ \E f \in BOOLEAN, n \in BOOLEAN, u \in {None} \cup Uses :
       /\ f => db.rows[m].funded
       /\ n => db.rows[m].running \/ db.tariffs[db.rows[m].tariff].planned
       /\ IF db.tariffs[db.rows[m].tariff].cap = None THEN u = None ELSE u \in Uses
       /\ db' = [db EXCEPT !.rows[m].funded = f, !.rows[m].running = n, !.rows[m].used = u,
                           !.rows[m].known = told[m]]
  /\ gap' = gap \cup Misled({m}, Intended(db', pass), queue)
  /\ UNCHANGED <<events, pass, edits, link, gone, asked, mixed, requests>>

-----------------------------------------------------------------------------
(* process_events.  Its session may keep the rows it has read until it     *)
(* commits, and then later changes of others are not seen.                 *)

Unprocessed == {i \in DOMAIN events : ~events[i].done}

StartPass ==
  /\ ~pass.on /\ Unprocessed # {} /\ Len(queue) <= MaxQueue
  /\ pass' = [Idle EXCEPT !.on = TRUE, !.todo = Unprocessed]
  /\ UNCHANGED <<db, events, edits, link, history, bounds>>

Kept(x, y) == IF x = None THEN y ELSE x

(* The rows as the session has them once it has read those of ms.          *)
View == [db EXCEPT
  !.tariffs = [t \in Tariffs |-> Kept(pass.seen.tariffs[t], db.tariffs[t])],
  !.rows = [m \in Nodes |-> IF m \in Existing(db) THEN Kept(pass.seen.rows[m], db.rows[m]) ELSE None],
  !.override = Kept(pass.seen.override, db.override)]

Seen(ms, d) ==
  [rows |-> [m \in Nodes |-> IF m \in ms THEN d.rows[m] ELSE pass.seen.rows[m]],
   tariffs |-> [t \in Tariffs |-> IF \E m \in ms \cap Existing(d) : d.rows[m].tariff = t
                                  THEN d.tariffs[t] ELSE pass.seen.tariffs[t]],
   override |-> d.override]

(* The event about a removed meter that raises an exception, for a meter   *)
(* that the session has not read before.                                   *)
Poison(e) ==
  /\ e.of \in gone
  /\ \/ e.kind \in {"paid", "zero"}
     \/ e.kind = "changed" /\ pass.seen.rows[e.of] = None

(* Event i is processed in the session, which now sees d, and the commands *)
(* cs leave; those the session sees wrongly may be misled by them.         *)
Draft(i, ms, d, dirty, cs, lost) ==
  /\ \E s \in {Seen(ms, d), [Idle.seen EXCEPT !.override = IF dirty THEN d.override ELSE None]} :
       pass' = [pass EXCEPT !.todo = @ \ {i}, !.drafted = @ \cup {i}, !.dirty = dirty, !.seen = s]
  /\ UNCHANGED <<db, events>>
  /\ Enqueue(cs, lost \cup {m \in ms \cap Existing(db) :
                             Wanted(d, m) # Wanted(Intended(db, pass'), m)})
  /\ Others /\ UNCHANGED <<gone, asked, mixed, requests>>

HandleChanged(i) ==
  LET m == events[i].of
      d == [View EXCEPT !.rows[m] = Kept(pass.seen.rows[m], @)]
  IN  /\ events[i].kind = "changed"
      /\ Draft(i, {m}, d, pass.dirty, <<Configure(d, m)>>, {})

HandlePaid(i) ==
  /\ events[i].kind = "paid"
  /\ pass' = [pass EXCEPT !.todo = @ \ {i}, !.drafted = @ \cup {i}]
  /\ UNCHANGED <<db, events, edits, link, history, bounds>>

(* A faulty HandleOverride: what it sets is not in its transaction.        *)
HandleOverrideUnsaved(i) ==
  LET o == events[i].kind = "on"
      d == [View EXCEPT !.override = o]
  IN  /\ events[i].kind \in {"on", "off"}
      /\ Draft(i, Existing(db), d, pass.dirty, SwitchOverride(d), Hidden)

HandleOverride(i) ==
  LET o == events[i].kind = "on"
      d == [View EXCEPT !.override = o]
  IN  /\ events[i].kind \in {"on", "off"}
      /\ Draft(i, Existing(db), d, pass.dirty \/ o # View.override,
               SwitchOverride(d), Hidden)

(* All the meters, hidden or not, by what their last readings said.        *)
HandleVoltage(i) ==
  /\ events[i].kind = "voltage"
  /\ Draft(i, Existing(db), View, pass.dirty,
           SetToSeq({Configure(View, m) : m \in Worth(View, Existing(db))}),
           Unsure(Existing(db)))

(* A faulty Committed: the events are marked at the end of the pass.       *)
CommittedUnmarked ==
  /\ db' = Intended(db, pass)
  /\ events' = [i \in DOMAIN events |->
       IF i \in pass.drafted
       THEN [events[i] EXCEPT !.done = ~pass'.on,
               !.alerts = @ + IF events[i].kind \in Alerting \ {"zero"} THEN 1 ELSE 0]
       ELSE IF i = pass'.zeroing THEN [events[i] EXCEPT !.alerts = @ + 1]
       ELSE events[i]]

(* What the pass has done becomes visible: the override, the marks of the  *)
(* events and their alerts.                                                *)
Committed ==
  /\ db' = Intended(db, pass)
  /\ events' = [i \in DOMAIN events |->
       IF i \in pass.drafted
       THEN [events[i] EXCEPT !.done = TRUE,
               !.alerts = @ + IF events[i].kind \in Alerting \ {"zero"} THEN 1 ELSE 0]
       ELSE IF i = pass'.zeroing THEN [events[i] EXCEPT !.alerts = @ + 1]
       ELSE events[i]]

(* zero_balance: the alert, and a commit for the pending transaction.      *)
HandleZero(i) ==
  /\ events[i].kind = "zero"
  /\ pass' = [Idle EXCEPT !.on = TRUE, !.todo = pass.todo \ {i}, !.zeroing = i]
  /\ Committed
  /\ UNCHANGED <<edits, link, history, bounds>>

(* process_transaction of it, in a transaction of its own.                 *)
Zeroed ==
  LET i == pass.zeroing
      m == events[i].of
  IN  /\ pass.zeroing # 0 /\ m \in Existing(db)
      /\ \E f \in {FALSE, db.rows[m].funded} : db' = [db EXCEPT !.rows[m].funded = f]
      /\ events' = Append(events, Event("paid", m))
      /\ pass' = [pass EXCEPT !.zeroing = 0, !.drafted = {i}]
      /\ Enqueue(SetToSeq({Configure(db', n) : n \in Worth(db', {m})}), Unsure({m}))
      /\ Others /\ UNCHANGED <<gone, asked, mixed, requests>>

Handle ==
  /\ pass.on /\ pass.zeroing = 0
  /\ \E i \in pass.todo :
       /\ ~Poison(events[i])
       /\ HandleChanged(i) \/ HandlePaid(i) \/ HandleOverride(i) \/ HandleVoltage(i) \/ HandleZero(i)

PassEnds ==
  /\ pass.on /\ pass.todo = {} /\ pass.zeroing = 0
  /\ pass' = Idle
  /\ Committed
  /\ UNCHANGED <<edits, link, history, bounds>>

(* An exception: the transaction is rolled back, the commands are out.     *)
PassFails ==
  /\ pass.on
  /\ \/ \E i \in pass.todo : Poison(events[i]) /\ pass.zeroing = 0 /\ UNCHANGED troubles
     \/ pass.zeroing # 0 /\ events[pass.zeroing].of \in gone /\ UNCHANGED troubles
     \/ Trouble
  /\ pass' = Idle
  /\ UNCHANGED <<db, events, edits, link, history, requests>>

-----------------------------------------------------------------------------
(* The provider's side.                                                    *)

(* A command of the dispatcher, or of the reconcile, is refused: that is   *)
(* logged and forgotten.                                                   *)
Refused(m) ==
  /\ Trouble
  /\ UNCHANGED told
  /\ gap' = gap \cup Misled({m} \cap Existing(db), Intended(db, pass), queue')

Accepted(c) ==
  /\ told' = [told EXCEPT ![c.node] = c.set]
  /\ UNCHANGED troubles

Dispatch ==
  /\ queue # <<>> /\ allowed
  /\ queue' = Tail(queue)
  /\ \/ Accepted(Head(queue)) /\ UNCHANGED gap
     \/ Refused(Head(queue).node)
  /\ UNCHANGED <<state, listening, allowed, recon, gone, asked, mixed, requests>>

Loaded(d) == [m \in Existing(d) |-> Command(d, d.rows[m])]

(* _load_meters.  A meter for which no command waits is now sent what the  *)
(* rows ask for, so nothing misleads it.                                   *)
Load ==
  /\ recon.phase = "owed"
  /\ recon' = [recon EXCEPT !.phase = "sending", !.left = Loaded(db)]
  /\ gap' = gap \ {m \in Existing(db) : Waiting(m, queue) = {} /\ ~pass.dirty}
  /\ UNCHANGED <<state, queue, listening, allowed, told, gone, asked, mixed, bounds>>

Reconciling == recon.phase = "sending"

(* A meter of the roster is configured as it was when the roster was       *)
(* loaded, though it may have been told something newer since.             *)
ReconcileNext ==
  /\ Reconciling
  /\ \E m \in DOMAIN recon.left :
       /\ recon' = [recon EXCEPT !.left = [n \in DOMAIN @ \ {m} |-> @[n]]]
       /\ UNCHANGED queue
       /\ \/ /\ told' = [told EXCEPT ![m] = recon.left[m]] /\ UNCHANGED troubles
             /\ gap' = IF m \in Existing(db) /\ Waiting(m, queue) = {}
                          /\ ~Agree(recon.left[m], Wanted(Intended(db, pass), m))
                       THEN gap \cup {m} ELSE gap
          \/ Refused(m)
  /\ UNCHANGED <<state, listening, allowed, gone, asked, mixed, requests>>

(* A faulty ReconcileEnds: the pause outlives it.                          *)
ReconcileEndsPaused ==
  /\ Reconciling /\ DOMAIN recon.left = {}
  /\ recon' = NoReconcile
  /\ UNCHANGED <<state, queue, listening, allowed, told, history, bounds>>

ReconcileEnds ==
  /\ Reconciling /\ DOMAIN recon.left = {}
  /\ recon' = NoReconcile /\ allowed' = (allowed \/ recon.resumes)
  /\ UNCHANGED <<state, queue, listening, told, history, bounds>>

(* The gateway is lost: commands wait.                                     *)
Pause ==
  /\ listening /\ allowed /\ Trouble
  /\ allowed' = FALSE
  /\ UNCHANGED <<state, queue, listening, recon, told, history, requests>>

(* It is back.  The task that polls reconciles and then lets commands go;  *)
(* the event of the stream lets them go first.                             *)
GatewayBack ==
  /\ ~allowed /\ recon = NoReconcile
  /\ allowed' \in BOOLEAN /\ recon' = Owed(~allowed')
  /\ UNCHANGED <<state, queue, listening, told, history, bounds>>

(* The process ends: the queue, the pass and the edits are lost with it.   *)
(* It comes back with the periodic jobs running before the loop is         *)
(* registered.                                                             *)
Crash ==
  /\ Trouble
  /\ pass' = Idle /\ edits' = [e \in Editors |-> NoEdit]
  /\ queue' = <<>> /\ recon' = NoReconcile
  /\ listening' = FALSE /\ allowed' = TRUE
  /\ UNCHANGED <<db, events, told, history, requests>>

Register ==
  /\ ~listening /\ listening' = TRUE /\ recon' = Owed(FALSE)
  /\ UNCHANGED <<state, queue, allowed, told, history, bounds>>

-----------------------------------------------------------------------------
Requests ==
  \/ \E m \in Nodes, mode \in Modes : SetMode(m, mode)
  \/ \E m \in Nodes : ResetMeter(m) \/ RequestZero(m) \/ RemoveMeter(m)
  \/ \E m \in Nodes, mode \in Modes, t \in Tariffs, h \in BOOLEAN : EditMeter(m, mode, t, h)
  \/ \E o \in BOOLEAN : RequestOverride(o)
  \/ EndOverride
  \/ \E e \in Editors, t \in Tariffs : ReadTariff(e, t)
  \/ \E v \in Voltages : ChangeVoltage(v)
  \/ \E m \in Nodes, f \in BOOLEAN, here \in BOOLEAN : ProcessTransaction(m, f, here)
  \/ \E m \in Nodes, t \in Tariffs, here \in BOOLEAN : CreateMeter(m, t, here)

Pass == StartPass \/ Handle \/ Zeroed \/ PassEnds \/ PassFails

Edit == \E e \in Editors : SaveTariff(e) \/ TellTariff(e)

Reconcile == Load \/ ReconcileNext \/ ReconcileEnds

Next ==
  \/ Requests \/ Edit \/ \E e \in Editors : EditFails(e)
  \/ HourPasses \/ \E m \in Nodes : Reading(m)
  \/ Pass \/ Dispatch \/ Reconcile \/ Pause \/ GatewayBack \/ Crash \/ Register

Spec == Init /\ [][Next]_vars

(* The periodic jobs, the requests, the dispatcher and the reconcile go    *)
(* on, the process is started again, and the gateway comes back.           *)
Fairness ==
  /\ WF_vars(Pass) /\ WF_vars(Edit) /\ WF_vars(Dispatch) /\ WF_vars(Reconcile)
  /\ WF_vars(Register) /\ WF_vars(GatewayBack)

FairSpec == Spec /\ Fairness

-----------------------------------------------------------------------------
(* Properties.                                                             *)

(* Every variable has its type.                                            *)
TypeOK ==
  /\ db \in Database
  /\ \A i \in DOMAIN events :
       /\ events[i].kind \in Kinds /\ events[i].of \in Nodes \cup Tariffs \cup {None}
       /\ events[i].done \in BOOLEAN /\ events[i].alerts \in Nat
  /\ pass.todo \cup pass.drafted \subseteq DOMAIN events
  /\ \A e \in Editors : edits[e] = NoEdit \/ edits[e].of \in Tariffs
  /\ \A i \in DOMAIN queue : queue[i].node \in Nodes /\ queue[i].set \in Setting
  /\ told \in [Nodes -> {None} \cup Setting]
  /\ listening \in BOOLEAN /\ allowed \in BOOLEAN
  /\ gone \subseteq Nodes /\ gap \subseteq Nodes

(* Nothing is under way.                                                   *)
Quiet ==
  /\ Unprocessed = {} /\ ~pass.on /\ \A e \in Editors : edits[e] = NoEdit
  /\ queue = <<>> /\ listening /\ allowed /\ recon = NoReconcile

Poisoned == \E i \in Unprocessed : Poison(events[i])

(* When nothing is under way the provider was last told, for every meter,  *)
(* what the rows ask for, through passes that fail, restarts, pauses and   *)
(* reconciles; but for a meter the code has lost sight of (gap).           *)
CommandsFollowDatabase ==
  Quiet => Misled(Existing(db), db, queue) \subseteq gap

(* When nothing is under way the override is what was last requested, if   *)
(* the requests did not overlap.                                           *)
OverrideFollowsRequest == Quiet /\ ~mixed => db.override = asked

(* An event that is processed has had its alert, and only once, unless it  *)
(* zeroes a wallet and is taken up again.                                  *)
AlertedOnce ==
  \A i \in DOMAIN events :
    /\ events[i].done => events[i].alerts > 0 \/ events[i].kind \notin Alerting
    /\ events[i].kind # "zero" => events[i].alerts <= 1

(* What is under way comes to an end, again and again, unless an event     *)
(* about a removed meter makes every pass fail.                            *)
EverythingHandled == []<>(Quiet \/ Poisoned)
=============================================================================
