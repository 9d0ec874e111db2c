---------------------------- MODULE OfficeProofs ----------------------------
(***************************************************************************)
(* Theorems about the requests of the office: text messages and their      *)
(* configuration, and the registry of meters.                              *)
(***************************************************************************)
EXTENDS Messages, Fleet, TLAPS

-----------------------------------------------------------------------------
(* The configuration of text messages.                                     *)

(* No two keys of a column have an id.                                     *)
Distinct(entries) ==
  \A k, l \in Keys :
    (entries[k] # NoEntry /\ entries[l] # NoEntry /\ entries[k].id = entries[l].id) => k = l

(* What a request is about to write.                                       *)
EditsDistinct == \A e \in Editors : editing[e] # Idle => Distinct(editing[e].column)

EditsFresh ==
  \A e \in Editors :
    LET x == editing[e] IN
    x # Idle /\ e \notin behind => x.column = Updated(sheet[x.col], x.key, x.entry)

ConfigInv == ConfigTypeOK /\ OneEntryPerId /\ EditsDistinct /\ EditsFresh

LEMMA KeysAreKeys == \A col \in Columns : KeysOf(col) \subseteq Keys
BY DEF KeysOf, Keys, Columns

LEMMA UpdatedType ==
  ASSUME NEW entries \in Entries, NEW key \in Keys, NEW entry \in Entry
  PROVE  Updated(entries, key, entry) \in Entries
BY DEF Updated, Entries

LEMMA UpdatedDistinct ==
  ASSUME NEW entries \in Entries, NEW key \in Keys, NEW entry \in Entry, Distinct(entries)
  PROVE  Distinct(Updated(entries, key, entry))
BY SmsConfigAssumption DEF Updated, Entries, Distinct

LEMMA LastKeysType ==
  ASSUME NEW entries \in Entries
  PROVE  LastKeys(entries) \subseteq Keys \cup {NoEntry}
BY DEF LastKeys

LEMMA ActivationType ==
  ASSUME NEW entry \in Entry, NEW b \in BOOLEAN
  PROVE  [entry EXCEPT !.active = b] \in Entry
BY DEF Entry

(* A request that reads the row keeps the invariant, ...                   *)
LEMMA SubmitKeeps ==
  ASSUME ConfigInv, usedIds' \subseteq EntryIds,
         NEW e \in Editors, NEW col \in Columns, NEW key \in Keys, NEW entry \in Entry,
         Submit(e, col, key, entry)
  PROVE  ConfigInv'
<1> DEFINE new == Updated(sheet[col], key, entry)
<1>1. new \in Entries
  BY UpdatedType DEF ConfigInv, ConfigTypeOK
<1>2. PICK last \in Keys \cup {NoEntry} :
        editing' = [editing EXCEPT ![e] =
          [col |-> col, key |-> key, entry |-> entry, column |-> new, last |-> last]]
  BY LastKeysType DEF Submit, ConfigInv, ConfigTypeOK
<1> DEFINE rec == [col |-> col, key |-> key, entry |-> entry, column |-> new, last |-> last]
<1>3. rec \in Edit /\ rec.column = new /\ rec.col = col /\ rec.key = key /\ rec.entry = entry
  BY <1>1 DEF Edit
<1> HIDE DEF new
<1>4. /\ editing' \in [Editors -> Edit \cup {Idle}]
      /\ editing'[e] = rec
      /\ \A f \in Editors \ {e} : editing'[f] = editing[f]
  BY <1>2, <1>3 DEF ConfigInv, ConfigTypeOK
<1> HIDE DEF rec
<1>5. ConfigTypeOK'
  BY <1>4 DEF ConfigInv, ConfigTypeOK, Submit
<1>6. OneEntryPerId'
  BY DEF ConfigInv, OneEntryPerId, Submit
<1>7. Distinct(new)
  BY UpdatedDistinct DEF ConfigInv, ConfigTypeOK, OneEntryPerId, Distinct, new
<1>8. EditsDistinct'
  BY <1>3, <1>4, <1>7 DEF ConfigInv, EditsDistinct, Distinct
<1>9. EditsFresh'
  BY <1>3, <1>4 DEF ConfigInv, EditsFresh, Submit, Updated, new
<1> QED
  BY <1>5, <1>6, <1>8, <1>9 DEF ConfigInv

(* ... and so does its commit.                                             *)
LEMMA SaveKeeps ==
  ASSUME ConfigInv, NEW e \in Editors, SaveEntry(e)
  PROVE  ConfigInv'
<1>1. /\ editing[e] \in Edit /\ editing[e].column \in Entries
      /\ sheet' \in [Columns -> Entries]
      /\ \A col \in Columns : sheet'[col] = sheet[col] \/ sheet'[col] = editing[e].column
      /\ editing' \in [Editors -> Edit \cup {Idle}]
      /\ editing'[e] = Idle
      /\ \A f \in Editors \ {e} : editing'[f] = editing[f]
  BY DEF ConfigInv, ConfigTypeOK, SaveEntry, Edit
<1>2. ConfigTypeOK'
  BY <1>1 DEF ConfigInv, ConfigTypeOK, SaveEntry
<1>3. OneEntryPerId'
  BY <1>1 DEF ConfigInv, OneEntryPerId, EditsDistinct, Distinct, SaveEntry
<1>4. EditsDistinct'
  BY <1>1 DEF ConfigInv, EditsDistinct, Distinct
<1>5. EditsFresh'
  <2> SUFFICES ASSUME NEW f \in Editors, editing'[f] # Idle, f \notin behind'
               PROVE  editing'[f].column
                        = Updated(sheet'[editing'[f].col], editing'[f].key, editing'[f].entry)
    BY DEF EditsFresh, Updated
  <2>1. f # e /\ editing'[f] = editing[f] /\ f \notin behind
    BY <1>1 DEF SaveEntry
  <2>2. sheet'[editing[f].col] = sheet[editing[f].col]
    BY <2>1 DEF SaveEntry
  <2> QED
    BY <2>1, <2>2 DEF ConfigInv, EditsFresh
<1> QED
  BY <1>2, <1>3, <1>4, <1>5 DEF ConfigInv

LEMMA ConfigStep == ConfigInv /\ [EditConfig]_configVars => ConfigInv'
<1> SUFFICES ASSUME ConfigInv, [EditConfig]_configVars PROVE ConfigInv'
  OBVIOUS
<1> USE DEF ConfigInv
<1>1. ASSUME NEW e \in Editors, NEW col \in Columns, NEW key \in Keys, CreateEntry(e, col, key)
      PROVE  ConfigInv'
  <2>1. CASE sheet[col][key] = NoEntry
    <3>1. PICK id \in EntryIds \ usedIds : /\ Submit(e, col, key, [id |-> id, active |-> TRUE])
                                           /\ usedIds' = usedIds \cup {id}
      BY <1>1, <2>1 DEF CreateEntry
    <3>2. [id |-> id, active |-> TRUE] \in Entry /\ usedIds' \subseteq EntryIds
      BY <3>1 DEF Entry, ConfigTypeOK
    <3> QED
      BY <3>1, <3>2, SubmitKeeps
  <2>2. CASE sheet[col][key] # NoEntry
    <3>1. /\ Submit(e, col, key, [sheet[col][key] EXCEPT !.active = TRUE])
          /\ usedIds' = usedIds
      BY <1>1, <2>2 DEF CreateEntry
    <3>2. sheet[col][key] \in Entry /\ usedIds' \subseteq EntryIds
      BY <2>2, <3>1 DEF Entries, ConfigTypeOK
    <3> QED
      BY <3>1, <3>2, ActivationType, SubmitKeeps
  <2> QED
    BY <2>1, <2>2
<1>2. ASSUME NEW e \in Editors, NEW col \in Columns, NEW key \in Keys, DeleteEntry(e, col, key)
      PROVE  ConfigInv'
  <2>1. /\ Submit(e, col, key, [sheet[col][key] EXCEPT !.active = FALSE])
        /\ sheet[col][key] \in Entry /\ usedIds' \subseteq EntryIds
    BY <1>2 DEF DeleteEntry, IsActive, Entries, ConfigTypeOK
  <2> QED
    BY <2>1, ActivationType, SubmitKeeps
<1>3. ASSUME NEW e \in Editors, NEW col \in Columns, NEW key \in Keys, NEW old \in Keys,
             UpdateEntry(e, col, old, key)
      PROVE  ConfigInv'
  <2>1. /\ Submit(e, col, key, sheet[col][old])
        /\ sheet[col][old] \in Entry /\ usedIds' \subseteq EntryIds
    BY <1>3 DEF UpdateEntry, IsActive, Entries, ConfigTypeOK
  <2> QED
    BY <2>1, SubmitKeeps
<1>4. ASSUME NEW e \in Editors, SaveEntry(e) PROVE ConfigInv'
  BY <1>4, SaveKeeps
<1>5. CASE UNCHANGED configVars
  BY <1>5 DEF configVars, ConfigTypeOK, OneEntryPerId, EditsDistinct, EditsFresh, Distinct, Updated
<1> QED
  BY <1>1, <1>2, <1>3, <1>4, <1>5 DEF EditConfig

LEMMA ConfigStart == ConfigInit => ConfigInv
<1> SUFFICES ASSUME ConfigInit PROVE ConfigInv
  OBVIOUS
<1> DEFINE T == DefaultCodes \cup MessageTypes
<1>1. PICK ids \in [T -> EntryIds] :
        /\ \A t, u \in T : ids[t] = ids[u] => t = u
        /\ sheet = [col \in Columns |-> [k \in Keys |->
                      IF k \in Installed[col] THEN [id |-> ids[k], active |-> TRUE] ELSE NoEntry]]
        /\ usedIds = {ids[t] : t \in T}
  BY DEF ConfigInit
<1>2. \A col \in Columns : Installed[col] \subseteq T
  BY DEF Installed, Columns
<1>3. sheet \in [Columns -> Entries]
  BY <1>1, <1>2 DEF Entries, Entry
<1>4. \A col \in Columns, k \in Keys : sheet[col][k] # NoEntry =>
        k \in T /\ sheet[col][k].id = ids[k]
  BY <1>1, <1>2
<1>5. OneEntryPerId
  BY <1>1, <1>4 DEF OneEntryPerId
<1> QED
  BY <1>1, <1>3, <1>5 DEF ConfigInv, ConfigInit, ConfigTypeOK, EditsDistinct, EditsFresh

LEMMA ConfigInvariant == ConfigSpec => []ConfigInv
BY ConfigStart, ConfigStep, PTL DEF ConfigSpec

(* The row of sms_config has an entry or none for each key of a column.    *)
THEOREM ConfigTypeCorrect == ConfigSpec => []ConfigTypeOK
BY ConfigInvariant, PTL DEF ConfigInv

(* However requests overlap, no column has an id twice: get_by_id finds    *)
(* one entry, and an edit moves or removes no other.                       *)
THEOREM IdsStayUnique == ConfigSpec => []OneEntryPerId
BY ConfigInvariant, PTL DEF ConfigInv

(* Where no code, event type or message type is named like a column, an    *)
(* edit changes its entry and the one whose key it takes, and nothing else *)
(* unless it wrote back a column that had changed since it was read.       *)
THEOREM EditsStayApart ==
  ASSUME Keys \cap Columns = {}
  PROVE  ConfigSpec => OnlyEditedChanges
<1> DEFINE A == \A col \in Columns, k \in Keys : sheet'[col][k] # sheet[col][k] =>
       \E e \in Editors :
         /\ editing[e] # Idle /\ editing'[e] = Idle /\ editing[e].col = col
         /\ \/ e \in behind
            \/ k = editing[e].key
            \/ sheet[col][k] # NoEntry /\ sheet[col][k].id = editing[e].entry.id
<1>1. ConfigInv /\ [EditConfig]_configVars => [A]_configVars
  <2> SUFFICES ASSUME ConfigInv, EditConfig, NEW col \in Columns, NEW k \in Keys,
                      sheet'[col][k] # sheet[col][k]
               PROVE  \E e \in Editors :
                        /\ editing[e] # Idle /\ editing'[e] = Idle /\ editing[e].col = col
                        /\ \/ e \in behind
                           \/ k = editing[e].key
                           \/ sheet[col][k] # NoEntry /\ sheet[col][k].id = editing[e].entry.id
    BY DEF configVars
  <2>0. \A e, c, l, x : Submit(e, c, l, x) => FALSE
    BY DEF Submit
  <2>1. PICK e \in Editors : SaveEntry(e)
    BY <2>0, Zenon DEF EditConfig, CreateEntry, DeleteEntry, UpdateEntry
  <2>2. /\ editing[e] \in Edit /\ editing[e] # Idle /\ editing'[e] = Idle
        /\ sheet'[col] # sheet[col]
    BY <2>1 DEF ConfigInv, ConfigTypeOK, SaveEntry
  <2>3. editing[e].col = col /\ sheet'[col] = editing[e].column
    BY <2>1, <2>2, SmsConfigAssumption DEF SaveEntry, Assigned, Edit
  <2>4. CASE e \notin behind
    <3>1. sheet'[col] = Updated(sheet[col], editing[e].key, editing[e].entry)
      BY <2>2, <2>3, <2>4 DEF ConfigInv, EditsFresh
    <3> QED
      BY <2>2, <2>3, <3>1 DEF Updated
  <2> QED
    BY <2>2, <2>3, <2>4
<1>2. ConfigSpec => [][A]_configVars
  BY <1>1, ConfigInvariant, PTL DEF ConfigSpec
<1> QED
  BY <1>2 DEF OnlyEditedChanges

-----------------------------------------------------------------------------
(* The queue of the gateway.                                               *)

(* A poll that is not done is one that marks.                              *)
PollsMark == \A p \in Pollers : poll[p] # Idle /\ ~poll[p].done => poll[p].marking

(* What a poll that is done holds is marked, or was handed out unmarked or *)
(* twice at a time; and so is what the gateway has.                        *)
HeldIsKnown ==
  /\ \A p \in Pollers : poll[p] # Idle /\ poll[p].done => poll[p].msgs \subseteq marked \cup shared
  /\ handed \subseteq marked \cup shared

(* What the gateway may get twice: it had it before, or two polls hold it. *)
TwiceIsShared ==
  /\ \A p \in Pollers : poll[p] # Idle => poll[p].msgs \cap handed \subseteq shared
  /\ \A p, q \in Pollers :
       p # q /\ poll[p] # Idle /\ poll[q] # Idle => poll[p].msgs \cap poll[q].msgs \subseteq shared
  /\ \A p \in Pollers : poll[p] # Idle /\ ~poll[p].marking => poll[p].msgs \subseteq shared

QueueInv == PollsMark /\ HeldIsKnown /\ TwiceIsShared /\ MarkedIsHandedOver /\ HandedOutOnce

-----------------------------------------------------------------------------
(* Posts and edits of customers.                                           *)

(* A post that is under way is of an id that is not in the table, or was   *)
(* posted twice at a time.                                                 *)
PostsOnce ==
  /\ \A r \in Receivers : receipt[r] # Idle /\ inbox[receipt[r].post] > 0 => receipt[r].post \in doubled
  /\ \A r, q \in Receivers :
       r # q /\ receipt[r] # Idle /\ receipt[q] # Idle /\ receipt[r].post = receipt[q].post
         => receipt[r].post \in doubled

(* A form that leaves a number verified leaves the number as it read it,   *)
(* if there is one; the API gives a number.                                *)
EditsMade ==
  \A d \in Clerks : desk[d] # Idle =>
    /\ desk[d].api => desk[d].row.number # NoNumber
    /\ ~desk[d].api /\ desk[d].row.verified =>
         desk[d].saw.verified /\ desk[d].row.number \in {NoNumber, desk[d].saw.number}

PhoneInv == PostsOnce /\ EditsMade /\ StoredOnce /\ VerifiedIsVouched

MessagesInv == MessagesTypeOK /\ QueueInv /\ PhoneInv

LEMMA MessagesStart == MessagesInit => MessagesInv
<1> SUFFICES ASSUME MessagesInit PROVE MessagesInv
  OBVIOUS
<1>1. customer \in [Customers -> CustomerRow] /\ \A c \in Customers : ~customer[c].verified
  BY DEF MessagesInit, CustomerRow
<1>2. MessagesTypeOK
  BY <1>1, MessagesAssumption DEF MessagesInit, MessagesTypeOK
<1>3. QueueInv
  BY DEF MessagesInit, QueueInv, PollsMark, HeldIsKnown, TwiceIsShared, MarkedIsHandedOver, HandedOutOnce
<1>4. PhoneInv
  BY <1>1 DEF MessagesInit, PhoneInv, PostsOnce, EditsMade, StoredOnce, VerifiedIsVouched
<1> QED
  BY <1>2, <1>3, <1>4 DEF MessagesInv

(* The two halves do not meet: a step of one leaves the other as it is.    *)
LEMMA PhonesApart ==
  ASSUME MessagesInv, UNCHANGED phoneVars
  PROVE  PhoneInv'
BY DEF MessagesInv, PhoneInv, phoneVars, PostsOnce, EditsMade, StoredOnce, VerifiedIsVouched

LEMMA QueueApart ==
  ASSUME MessagesInv, UNCHANGED sendVars
  PROVE  QueueInv'
BY DEF MessagesInv, QueueInv, sendVars, PollsMark, HeldIsKnown, TwiceIsShared, MarkedIsHandedOver, HandedOutOnce

LEMMA QueueType ==
  ASSUME MessagesTypeOK
  PROVE  GetOutgoing \subseteq Message
BY DEF MessagesTypeOK, GetOutgoing

LEMMA ReadOutgoingKeeps ==
  ASSUME MessagesInv, NEW p \in Pollers, NEW marking \in BOOLEAN, ReadOutgoing(p, marking)
  PROVE  MessagesInv'
<1> DEFINE new == [msgs |-> GetOutgoing, marking |-> marking, done |-> ~marking]
<1>0. new \in Poll
  BY QueueType DEF MessagesInv, Poll
<1>1. /\ new \in Poll /\ new # Idle
      /\ new.msgs = GetOutgoing /\ new.marking = marking /\ new.done = ~marking
  BY <1>0, MessagesAssumption
<1>2. /\ poll' \in [Pollers -> Poll \cup {Idle}]
      /\ poll'[p] = new
      /\ \A q \in Pollers \ {p} : poll'[q] = poll[q]
  BY <1>1 DEF ReadOutgoing, MessagesInv, MessagesTypeOK
<1> HIDE DEF new
<1>3. /\ GetOutgoing \subseteq Message /\ GetOutgoing \cap marked = {}
      /\ shared \subseteq shared' /\ shared' \subseteq shared \cup GetOutgoing
      /\ poll[p] = Idle
      /\ UNCHANGED <<waiting, outbox, marked, handed, again, lost, asked, configVars, phoneVars>>
  BY QueueType DEF ReadOutgoing, MessagesInv, GetOutgoing
<1>4. /\ ~marking => GetOutgoing \subseteq shared'
      /\ \A q \in Pollers : poll[q] # Idle => GetOutgoing \cap poll[q].msgs \subseteq shared'
  BY DEF ReadOutgoing
<1>5. MessagesTypeOK'
  BY <1>2, <1>3 DEF MessagesInv, MessagesTypeOK, phoneVars
<1>6. PhoneInv'
  BY <1>3, PhonesApart
<1>7. PollsMark' /\ HeldIsKnown'
  BY <1>1, <1>2, <1>3, <1>4 DEF MessagesInv, QueueInv, PollsMark, HeldIsKnown
<1>8. TwiceIsShared'
  BY <1>1, <1>2, <1>3, <1>4 DEF MessagesInv, QueueInv, HeldIsKnown, TwiceIsShared
<1>9. MarkedIsHandedOver' /\ HandedOutOnce'
  BY <1>1, <1>2, <1>3 DEF MessagesInv, QueueInv, MarkedIsHandedOver, HandedOutOnce
<1> QED
  BY <1>5, <1>6, <1>7, <1>8, <1>9 DEF MessagesInv, QueueInv

LEMMA CommitPollKeeps ==
  ASSUME MessagesInv, NEW p \in Pollers, CommitPoll(p)
  PROVE  MessagesInv'
<1>1. /\ poll[p] \in Poll /\ poll[p].marking
      /\ poll[p].msgs \subseteq Message
  BY DEF CommitPoll, MessagesInv, MessagesTypeOK, QueueInv, PollsMark, Poll
<1>2. [poll[p] EXCEPT !.done = TRUE] \in Poll
  BY <1>1 DEF Poll
<1>3. /\ poll' \in [Pollers -> Poll \cup {Idle}]
      /\ poll'[p] = [poll[p] EXCEPT !.done = TRUE]
      /\ \A q \in Pollers \ {p} : poll'[q] = poll[q]
  BY <1>2 DEF CommitPoll, MessagesInv, MessagesTypeOK
<1>4. /\ poll'[p] # Idle
      /\ poll'[p].msgs = poll[p].msgs /\ poll'[p].marking = poll[p].marking /\ poll'[p].done
  BY <1>1, <1>2, <1>3, MessagesAssumption DEF Poll
<1>5. /\ poll[p] # Idle
      /\ marked' = marked \cup poll[p].msgs
      /\ UNCHANGED <<waiting, outbox, handed, again, lost, shared, asked, configVars, phoneVars>>
  BY DEF CommitPoll
<1>6. MessagesTypeOK'
  BY <1>1, <1>3, <1>5 DEF MessagesInv, MessagesTypeOK, phoneVars
<1>7. PhoneInv'
  BY <1>5, PhonesApart
<1>8. PollsMark' /\ HeldIsKnown' /\ TwiceIsShared'
  <2>1. PollsMark'
    BY <1>3, <1>4 DEF MessagesInv, QueueInv, PollsMark
  <2>2. HeldIsKnown'
    BY <1>3, <1>4, <1>5 DEF MessagesInv, QueueInv, HeldIsKnown
  <2>3. /\ handed' = handed /\ shared' = shared
        /\ \A q \in Pollers : poll'[q] # Idle =>
              /\ poll[q] # Idle
              /\ poll'[q].msgs = poll[q].msgs /\ poll'[q].marking = poll[q].marking
    BY <1>3, <1>4, <1>5
  <2>4. TwiceIsShared
    BY DEF MessagesInv, QueueInv
  <2>5. TwiceIsShared'
    BY <2>3, <2>4 DEF TwiceIsShared
  <2> QED
    BY <2>1, <2>2, <2>5
<1>9. MarkedIsHandedOver' /\ HandedOutOnce'
  BY <1>1, <1>3, <1>4, <1>5 DEF MessagesInv, QueueInv, MarkedIsHandedOver, HandedOutOnce
<1> QED
  BY <1>6, <1>7, <1>8, <1>9 DEF MessagesInv, QueueInv

(* The poll ends: its answer arrives or is lost.                           *)
LEMMA PollEndKeeps ==
  ASSUME MessagesInv, NEW p \in Pollers, AnswerPoll(p) \/ LoseAnswer(p)
  PROVE  MessagesInv'
<1>1. /\ poll[p] # Idle /\ poll[p] \in Poll /\ poll[p].done /\ poll[p].msgs \subseteq Message
      /\ poll' \in [Pollers -> Poll \cup {Idle}]
      /\ poll'[p] = Idle
      /\ \A q \in Pollers \ {p} : poll'[q] = poll[q]
      /\ UNCHANGED <<waiting, outbox, marked, shared, asked, configVars, phoneVars>>
  BY DEF AnswerPoll, LoseAnswer, MessagesInv, MessagesTypeOK, Poll
<1>2. /\ handed \subseteq handed' /\ handed' \subseteq handed \cup poll[p].msgs
      /\ again' \subseteq again \cup (handed \cap poll[p].msgs)
      /\ lost \subseteq lost' /\ lost' \subseteq lost \cup poll[p].msgs
      /\ poll[p].marking => poll[p].msgs \subseteq handed' \cup lost'
  BY DEF AnswerPoll, LoseAnswer
<1>3. MessagesTypeOK'
  BY <1>1, <1>2 DEF MessagesInv, MessagesTypeOK, phoneVars
<1>4. PhoneInv'
  BY <1>1, PhonesApart
<1>5. PollsMark' /\ HeldIsKnown' /\ HandedOutOnce'
  BY <1>1, <1>2 DEF MessagesInv, QueueInv, PollsMark, HeldIsKnown, TwiceIsShared, HandedOutOnce
<1>6. TwiceIsShared'
  BY <1>1, <1>2 DEF MessagesInv, QueueInv, TwiceIsShared
<1>7. MarkedIsHandedOver'
  BY <1>1, <1>2 DEF MessagesInv, QueueInv, MarkedIsHandedOver
<1> QED
  BY <1>3, <1>4, <1>5, <1>6, <1>7 DEF MessagesInv, QueueInv

(* What only adds to the queue, or marks what the gateway has.             *)
LEMMA OutboxKeeps ==
  ASSUME MessagesInv, waiting' \subseteq waiting, outbox' \subseteq Message, asked' \in 0..MaxRequests,
         marked' \subseteq marked \cup handed, marked \subseteq marked', UNCHANGED phoneVars,
         UNCHANGED <<poll, handed, again, lost, shared>>
  PROVE  MessagesInv'
<1>1. MessagesTypeOK'
  BY DEF MessagesInv, MessagesTypeOK, phoneVars
<1>2. PhoneInv'
  BY PhonesApart
<1>3. QueueInv'
  BY DEF MessagesInv, QueueInv, PollsMark, HeldIsKnown, TwiceIsShared, MarkedIsHandedOver, HandedOutOnce
<1> QED
  BY <1>1, <1>2, <1>3 DEF MessagesInv

LEMMA ReceiveSmsKeeps ==
  ASSUME MessagesInv, NEW r \in Receivers, NEW i \in Posts, NEW number \in Numbers, NEW code \in Codes,
         ReceiveSms(r, i, number, code)
  PROVE  MessagesInv'
<1>1. PICK new \in Receipt : new.post = i /\ receipt' = [receipt EXCEPT ![r] = new]
  <2>1. CASE receipt' = [receipt EXCEPT ![r] =
                           [post |-> i, number |-> number, by |-> NoCustomer, saw |-> TRUE]]
    BY <2>1 DEF Receipt
  <2>2. CASE \E c \in Customers : receipt' = [receipt EXCEPT ![r] =
               [post |-> i, number |-> number, by |-> c, saw |-> customer[c].verified]]
    <3>1. \A c \in Customers : customer[c].verified \in BOOLEAN
      BY DEF MessagesInv, MessagesTypeOK, CustomerRow
    <3> QED
      BY <2>2, <3>1 DEF Receipt
  <2> QED
    BY <2>1, <2>2 DEF ReceiveSms
<1>2. /\ receipt' \in [Receivers -> Receipt \cup {Idle}]
      /\ receipt'[r] = new
      /\ \A q \in Receivers \ {r} : receipt'[q] = receipt[q]
      /\ receipt[r] = Idle
  BY <1>1 DEF ReceiveSms, MessagesInv, MessagesTypeOK
<1>3. /\ asked' \in 0..MaxRequests /\ ~(inbox[i] > 0)
      /\ doubled' \subseteq doubled \cup {i} /\ doubled \subseteq doubled'
      /\ \A q \in Receivers : receipt[q] # Idle /\ receipt[q].post = i => i \in doubled'
      /\ UNCHANGED <<customer, desk, inbox, vouched, crossed, sendVars>>
  BY MessagesAssumption DEF ReceiveSms, Ask, Known, MessagesInv, MessagesTypeOK
<1>4. MessagesTypeOK'
  BY <1>2, <1>3 DEF MessagesInv, MessagesTypeOK, sendVars
<1>5. QueueInv'
  BY <1>3, QueueApart
<1>6. PostsOnce'
  BY <1>1, <1>2, <1>3 DEF MessagesInv, PhoneInv, PostsOnce
<1>7. EditsMade' /\ StoredOnce' /\ VerifiedIsVouched'
  BY <1>3 DEF MessagesInv, PhoneInv, EditsMade, StoredOnce, VerifiedIsVouched
<1> QED
  BY <1>4, <1>5, <1>6, <1>7 DEF MessagesInv, PhoneInv

LEMMA CommitSmsKeeps ==
  ASSUME MessagesInv, NEW r \in Receivers, CommitSms(r)
  PROVE  MessagesInv'
<1> DEFINE x == receipt[r]
<1>1. /\ x # Idle /\ x \in Receipt
      /\ x.post \in Posts /\ x.number \in Numbers /\ x.saw \in BOOLEAN
  BY DEF CommitSms, MessagesInv, MessagesTypeOK, Receipt
<1>2. /\ receipt' \in [Receivers -> Receipt \cup {Idle}]
      /\ receipt'[r] = Idle
      /\ \A q \in Receivers \ {r} : receipt'[q] = receipt[q]
      /\ inbox' \in [Posts -> Nat]
      /\ inbox'[x.post] = inbox[x.post] + 1
      /\ \A i \in Posts \ {x.post} : inbox'[i] = inbox[i]
      /\ UNCHANGED <<desk, doubled, asked, configVars, sendVars>>
  BY <1>1 DEF CommitSms, MessagesInv, MessagesTypeOK
<1>3. \A c \in Customers :
        /\ customer'[c] \in CustomerRow
        /\ c # x.by => customer'[c] = customer[c] /\ vouched'[c] = vouched[c]
        /\ customer'[c].number = customer[c].number
        /\ c = x.by => /\ vouched'[c] = vouched[c] \cup {x.number}
                       /\ customer[c] # [number |-> x.number, verified |-> x.saw] => c \in crossed'
        /\ c # x.by /\ c \in crossed => c \in crossed'
        /\ vouched'[c] \subseteq Numbers
  BY <1>1 DEF CommitSms, MessagesInv, MessagesTypeOK, CustomerRow
<1>4. /\ customer' \in [Customers -> CustomerRow]
      /\ vouched' \in [Customers -> SUBSET Numbers]
      /\ crossed' \subseteq Customers
  <2>1. /\ customer' = [c \in Customers |-> customer'[c]]
        /\ vouched' = [c \in Customers |-> vouched'[c]]
    BY DEF CommitSms
  <2> QED
    BY <2>1, <1>3 DEF CommitSms, MessagesInv, MessagesTypeOK
<1> HIDE DEF x
<1>5. MessagesTypeOK'
  BY <1>2, <1>4 DEF MessagesInv, MessagesTypeOK, sendVars
<1>6. QueueInv'
  BY <1>2, QueueApart
<1>7. PostsOnce' /\ StoredOnce'
  BY <1>1, <1>2 DEF MessagesInv, MessagesTypeOK, PhoneInv, PostsOnce, StoredOnce, Receipt, x
<1>8. EditsMade'
  BY <1>2 DEF MessagesInv, PhoneInv, EditsMade
<1>9. VerifiedIsVouched'
  <2> SUFFICES ASSUME NEW c \in Customers, customer'[c].verified, customer'[c].number # NoNumber,
                      c \notin crossed'
               PROVE  customer'[c].number \in vouched'[c]
    BY DEF VerifiedIsVouched
  <2>1. CASE c = x.by
    <3>1. customer[c] = [number |-> x.number, verified |-> x.saw]
      BY <1>3, <2>1
    <3> QED
      BY <1>3, <2>1, <3>1
  <2>2. CASE c # x.by
    BY <1>3, <2>2 DEF MessagesInv, PhoneInv, VerifiedIsVouched
  <2> QED
    BY <2>1, <2>2
<1> QED
  BY <1>5, <1>6, <1>7, <1>8, <1>9 DEF MessagesInv, PhoneInv

LEMMA EditKeeps ==
  ASSUME MessagesInv, NEW d \in Clerks, NEW c \in Customers, NEW n \in Numbers \cup {NoNumber},
         EditForm(d, c, n) \/ EditApi(d, c, n)
  PROVE  MessagesInv'
<1>1. PICK new \in Change :
        /\ desk' = [desk EXCEPT ![d] = new]
        /\ new.api => new.row.number # NoNumber
        /\ ~new.api /\ new.row.verified =>
             new.saw.verified /\ new.row.number \in {NoNumber, new.saw.number}
  <2>1. customer[c] \in CustomerRow
    BY DEF MessagesInv, MessagesTypeOK
  <2>2. CASE EditForm(d, c, n)
    <3> DEFINE row == FormRow(customer[c], n)
               new == [of |-> c, saw |-> customer[c], row |-> row, api |-> FALSE]
    <3>1. /\ row \in CustomerRow /\ row.number = n
          /\ row.verified => customer[c].verified /\ n \in {NoNumber, customer[c].number}
      BY <2>1 DEF FormRow, CustomerRow
    <3>2. desk' = [desk EXCEPT ![d] = new]
      BY <2>2 DEF EditForm
    <3> HIDE DEF row
    <3>3. new \in Change /\ new.saw = customer[c] /\ new.row = row /\ ~new.api
      BY <2>1, <3>1 DEF Change
    <3> QED
      BY <3>1, <3>2, <3>3
  <2>3. CASE EditApi(d, c, n)
    <3> DEFINE row == [number |-> n, verified |-> TRUE]
               new == [of |-> c, saw |-> customer[c], row |-> row, api |-> TRUE]
    <3>1. row \in CustomerRow /\ row.number = n /\ n # NoNumber
      BY <2>3 DEF EditApi, CustomerRow
    <3>2. desk' = [desk EXCEPT ![d] = new]
      BY <2>3 DEF EditApi
    <3> HIDE DEF row
    <3>3. new \in Change /\ new.row = row /\ new.api
      BY <2>1, <3>1 DEF Change
    <3> QED
      BY <3>1, <3>2, <3>3
  <2> QED
    BY <2>2, <2>3
<1>2. /\ desk' \in [Clerks -> Change \cup {Idle}]
      /\ desk'[d] = new
      /\ \A e \in Clerks \ {d} : desk'[e] = desk[e]
      /\ asked' \in 0..MaxRequests
      /\ UNCHANGED <<customer, receipt, inbox, doubled, vouched, crossed, configVars, sendVars>>
  BY <1>1, MessagesAssumption DEF EditForm, EditApi, Ask, MessagesInv, MessagesTypeOK
<1>3. MessagesTypeOK'
  BY <1>2 DEF MessagesInv, MessagesTypeOK, sendVars
<1>4. QueueInv'
  BY <1>2, QueueApart
<1>5. EditsMade'
  BY <1>1, <1>2 DEF MessagesInv, PhoneInv, EditsMade
<1>6. PostsOnce' /\ StoredOnce' /\ VerifiedIsVouched'
  BY <1>2 DEF MessagesInv, PhoneInv, PostsOnce, StoredOnce, VerifiedIsVouched
<1> QED
  BY <1>3, <1>4, <1>5, <1>6 DEF MessagesInv, PhoneInv

LEMMA CommitEditKeeps ==
  ASSUME MessagesInv, NEW d \in Clerks, CommitEdit(d)
  PROVE  MessagesInv'
<1> DEFINE x == desk[d]
<1>1. /\ x # Idle /\ x \in Change /\ x.of \in Customers /\ x.api \in BOOLEAN
      /\ x.saw \in CustomerRow /\ x.row \in CustomerRow
      /\ x.row.number \in Numbers \cup {NoNumber} /\ x.row.verified \in BOOLEAN
  BY DEF CommitEdit, MessagesInv, MessagesTypeOK, Change, CustomerRow
<1> DEFINE new == [number   |-> IF x.row.number # x.saw.number THEN x.row.number
                                ELSE customer[x.of].number,
                   verified |-> IF x.row.verified # x.saw.verified THEN x.row.verified
                                ELSE customer[x.of].verified]
<1>2. new \in CustomerRow
  BY <1>1 DEF MessagesInv, MessagesTypeOK, CustomerRow
<1>3. /\ desk' \in [Clerks -> Change \cup {Idle}]
      /\ desk'[d] = Idle
      /\ \A e \in Clerks \ {d} : desk'[e] = desk[e]
      /\ UNCHANGED <<receipt, inbox, doubled, asked, configVars, sendVars>>
  BY <1>1 DEF CommitEdit, MessagesInv, MessagesTypeOK
<1>4. /\ customer' \in [Customers -> CustomerRow]
      /\ customer'[x.of] = new
      /\ \A c \in Customers \ {x.of} : customer'[c] = customer[c]
  BY <1>1, <1>2 DEF CommitEdit, MessagesInv, MessagesTypeOK
<1>5. /\ crossed' \subseteq Customers /\ crossed \ {x.of} \subseteq crossed'
      /\ customer[x.of] # x.saw => x.of \in crossed'
      /\ x.of \in crossed /\ ~x.api /\ x.row.number = x.saw.number => x.of \in crossed'
  BY <1>1 DEF CommitEdit, MessagesInv, MessagesTypeOK
<1>6. /\ vouched' \in [Customers -> SUBSET Numbers]
      /\ \A c \in Customers : vouched[c] \subseteq vouched'[c]
      /\ x.api => x.row.number \in vouched'[x.of]
  <2>1. {n \in {x.row.number} : x.api} \subseteq Numbers
    BY <1>1 DEF MessagesInv, PhoneInv, EditsMade
  <2> QED
    BY <1>1, <2>1 DEF CommitEdit, MessagesInv, MessagesTypeOK
<1>7. MessagesTypeOK'
  BY <1>3, <1>4, <1>5, <1>6 DEF MessagesInv, MessagesTypeOK, sendVars
<1>8. QueueInv'
  BY <1>3, QueueApart
<1>9. PostsOnce' /\ StoredOnce' /\ EditsMade'
  BY <1>3 DEF MessagesInv, PhoneInv, PostsOnce, StoredOnce, EditsMade
<1>10. VerifiedIsVouched'
  <2> SUFFICES ASSUME NEW c \in Customers, customer'[c].verified, customer'[c].number # NoNumber,
                      c \notin crossed'
               PROVE  customer'[c].number \in vouched'[c]
    BY DEF VerifiedIsVouched
  <2>1. CASE c # x.of
    BY <1>4, <1>5, <1>6, <2>1 DEF MessagesInv, PhoneInv, VerifiedIsVouched
  <2>2. CASE c = x.of
    <3>1. customer[c] = x.saw /\ customer'[c].number = x.row.number /\ customer'[c].verified = x.row.verified
      <4>1. customer[c] = x.saw
        BY <1>5, <2>2
      <4>2. customer'[c].number = new.number /\ customer'[c].verified = new.verified
        BY <1>4, <2>2
      <4>3. new.number = IF x.row.number # x.saw.number THEN x.row.number ELSE customer[x.of].number
        OBVIOUS
      <4>4. new.verified = IF x.row.verified # x.saw.verified THEN x.row.verified ELSE customer[x.of].verified
        OBVIOUS
      <4>5. new.number = x.row.number
        <5> HIDE DEF new, x
        <5> QED BY <2>2, <4>1, <4>3
      <4>6. new.verified = x.row.verified
        <5> HIDE DEF new, x
        <5> QED BY <2>2, <4>1, <4>4
      <4> QED
        BY <4>1, <4>2, <4>5, <4>6
    <3>2. CASE x.api
      BY <1>1, <1>6, <2>2, <3>1, <3>2
    <3>3. CASE ~x.api
      <4>1. x.saw.verified /\ x.row.number = x.saw.number
        BY <1>1, <2>2, <3>1, <3>3 DEF MessagesInv, PhoneInv, EditsMade
      <4> QED
        BY <1>5, <1>6, <2>2, <3>1, <4>1 DEF MessagesInv, PhoneInv, VerifiedIsVouched
    <3> QED
      BY <3>2, <3>3
  <2> QED
    BY <2>1, <2>2
<1> QED
  BY <1>7, <1>8, <1>9, <1>10 DEF MessagesInv, PhoneInv

LEMMA MessagesStep == MessagesInv /\ [MessagesNext]_msgVars => MessagesInv'
<1> SUFFICES ASSUME MessagesInv, [MessagesNext]_msgVars PROVE MessagesInv'
  OBVIOUS
<1>1. ASSUME NEW ev \in EventRows, NEW c \in Customers, NEW t \in EventTypes, ProcessEvent(ev, c, t)
      PROVE  MessagesInv'
  <2>1. customer[c].number # NoNumber =>
          [origin |-> "alert", of |-> ev, number |-> customer[c].number] \in Message
    BY DEF MessagesInv, MessagesTypeOK, CustomerRow, Message
  <2>2. outbox' \subseteq Message /\ asked' \in 0..MaxRequests
    BY <1>1, <2>1 DEF ProcessEvent, MessagesInv, MessagesTypeOK
  <2> QED
    BY <1>1, <2>2, OutboxKeeps DEF ProcessEvent
<1>2. ASSUME NEW c \in Customers, SendVerification(c) PROVE MessagesInv'
  <2>1. [origin |-> "system", of |-> c, number |-> customer[c].number] \in Message
    BY <1>2 DEF SendVerification, MessagesInv, MessagesTypeOK, CustomerRow, Message
  <2>2. outbox' \subseteq Message /\ asked' \in 0..MaxRequests
    BY <1>2, <2>1, MessagesAssumption DEF SendVerification, Ask, MessagesInv, MessagesTypeOK
  <2> QED
    BY <1>2, <2>2, OutboxKeeps DEF SendVerification
<1>3. ASSUME NEW ms \in SUBSET handed, MarkDelivered(ms) PROVE MessagesInv'
  <2>1. marked' \subseteq marked \cup handed /\ marked \subseteq marked'
    BY <1>3 DEF MarkDelivered
  <2>2. outbox' \subseteq Message /\ asked' \in 0..MaxRequests
    BY <1>3 DEF MarkDelivered, MessagesInv, MessagesTypeOK
  <2> QED
    BY <1>3, <2>1, <2>2, OutboxKeeps DEF MarkDelivered
<1>4. ASSUME NEW p \in Pollers,
             \/ \E marking \in BOOLEAN : ReadOutgoing(p, marking)
             \/ CommitPoll(p) \/ AnswerPoll(p) \/ LoseAnswer(p)
      PROVE  MessagesInv'
  BY <1>4, ReadOutgoingKeeps, CommitPollKeeps, PollEndKeeps
<1>5. ASSUME NEW r \in Receivers,
             \/ \E i \in Posts, n \in Numbers, code \in Codes : ReceiveSms(r, i, n, code)
             \/ CommitSms(r)
      PROVE  MessagesInv'
  BY <1>5, ReceiveSmsKeeps, CommitSmsKeeps
<1>6. ASSUME NEW d \in Clerks,
             \/ \E c \in Customers, n \in Numbers \cup {NoNumber} : EditForm(d, c, n) \/ EditApi(d, c, n)
             \/ CommitEdit(d)
      PROVE  MessagesInv'
  BY <1>6, EditKeeps, CommitEditKeeps
<1>7. CASE UNCHANGED <<asked, phoneVars, sendVars>>
  BY <1>7, OutboxKeeps DEF sendVars, MessagesInv, MessagesTypeOK
<1>8. CASE UNCHANGED msgVars
  BY <1>7, <1>8 DEF msgVars, phoneVars, sendVars
<1> QED
  BY <1>1, <1>2, <1>3, <1>4, <1>5, <1>6, <1>7, <1>8 DEF MessagesNext, AlertsNext, PhonesNext

LEMMA MessagesInvariant == MessagesSpec => []MessagesInv
BY MessagesStart, MessagesStep, PTL DEF MessagesSpec

(* The rows and the requests under way are well formed.                    *)
THEOREM MessagesTypeCorrect == MessagesSpec => []MessagesTypeOK
BY MessagesInvariant, PTL DEF MessagesInv

(* No alert is taken off the queue that the gateway did not get, or that   *)
(* is not in the response, perhaps lost, of a poll that marks.             *)
THEOREM MarksAreDeserved == MessagesSpec => []MarkedIsHandedOver
BY MessagesInvariant, PTL DEF MessagesInv, QueueInv

(* The gateway gets a message again only if it had it unmarked, or from    *)
(* polls that overlap.                                                     *)
THEOREM RepeatsAreExplained == MessagesSpec => []HandedOutOnce
BY MessagesInvariant, PTL DEF MessagesInv, QueueInv

(* An external id has two rows only if it was posted again before the      *)
(* first post committed.                                                   *)
THEOREM PostsAreStoredOnce == MessagesSpec => []StoredOnce
BY MessagesInvariant, PTL DEF MessagesInv, PhoneInv

(* A number that is verified was given by API, or a command came from it,  *)
(* but for a customer whose row changed under a request.                   *)
THEOREM VerificationIsEarned == MessagesSpec => []VerifiedIsVouched
BY MessagesInvariant, PTL DEF MessagesInv, PhoneInv

(* The requests that edit the configuration run beside all this, and what  *)
(* holds of them alone holds of them here.                                 *)
THEOREM ConfigurationBeside == MessagesSpec => ConfigSpec
<1>1. MessagesInit => ConfigInit
  BY DEF MessagesInit
<1>2. [MessagesNext]_msgVars => [EditConfig]_configVars
  BY DEF MessagesNext, AlertsNext, PhonesNext, msgVars, configVars, ProcessEvent, SendVerification, ReadOutgoing, CommitPoll,
         AnswerPoll, LoseAnswer, MarkDelivered, ReceiveSms, CommitSms, EditForm, EditApi, CommitEdit
<1> QED
  BY <1>1, <1>2, PTL DEF MessagesSpec, ConfigSpec

-----------------------------------------------------------------------------
(* The registry of meters.                                                 *)

(* The row of a tag will be there and active after the commit of w.        *)
Kept(w, t, i) ==
  \/ <<w.meter, t, i>> \in active /\ <<t, i>> \notin w.off
  \/ <<t, i>> \in w.on
  \/ <<t, i>> \in w.insert

Wanted(w) == {t \in TagNames : \E i \in RowIds : Kept(w, t, i)}

(* Rows of tags are of meters that are there, and so is what a request has *)
(* read.                                                                   *)
RowsExist ==
  /\ \A s \in Serials, t \in TagNames, i \in RowIds : <<s, t, i>> \in present => Exists(s)
  /\ \A r \in Writing : work[r].seen # NoMeter => Exists(work[r].meter)
  /\ \A r \in Writing : Of(work[r].meter, work[r].on) \subseteq present
  /\ \A r \in Offices : work[r] \in Page => work[r].meter \in Serials /\ Exists(work[r].meter)

(* What a request is not about, it has as it read it.                      *)
Column(w) ==
  /\ w.seen = NoMeter => w.touched = Cols
  /\ w.seen # NoMeter /\ "code" \notin w.touched => w.row.code = w.seen.code
  /\ w.seen # NoMeter /\ "state" \notin w.touched => w.row.state = w.seen.state

OthersKept == \A r \in Writing : Column(work[r])

(* A code about to be written is free, or known to be loose.               *)
CodesReady ==
  /\ \A r \in Writing : "code" \in work[r].touched /\ work[r].row.code # NoCode =>
       \A s \in Owners(work[r].row.code) \ {work[r].meter} : work[r].row.code \in loose
  /\ \A r, q \in Writing :
       /\ r # q /\ "code" \in work[r].touched /\ "code" \in work[q].touched
       /\ work[r].row.code # NoCode /\ work[r].row.code = work[q].row.code
       => work[r].row.code \in loose

(* A tag about to get its row has none, or two requests gave it one.       *)
Single(w) == \A t \in TagNames, i, j \in RowIds : <<t, i>> \in w.insert /\ <<t, j>> \in w.insert => i = j

MappingReady ==
  /\ \A r \in Writing : Single(work[r])
  /\ \A r \in Writing, t \in TagNames, i \in RowIds :
       <<t, i>> \in work[r].insert => RowsOf(work[r].meter, t) = {} \/ <<work[r].meter, t>> \in raced
  /\ \A r, q \in Writing, t \in TagNames, i, j \in RowIds :
       /\ r # q /\ work[r].meter = work[q].meter
       /\ <<t, i>> \in work[r].insert /\ <<t, j>> \in work[q].insert
       => <<work[r].meter, t>> \in raced

(* Unless the meter was written meanwhile, a request that is about tags    *)
(* makes them what was asked for.                                          *)
TagsReady ==
  \A r \in Writing \ crossing : "tags" \in work[r].touched => Wanted(work[r]) = work[r].asked

FleetInv ==
  /\ FleetTypeOK /\ RowsExist /\ OthersKept /\ CodesReady /\ MappingReady /\ TagsReady
  /\ CreatedIsAnnounced /\ CodesDistinct /\ MappedOnce

LEMMA OfMember ==
  ASSUME NEW s, NEW pairs \in SUBSET (TagNames \X RowIds), NEW u, NEW t, NEW i
  PROVE  <<u, t, i>> \in Of(s, pairs) <=> u = s /\ <<t, i>> \in pairs
<1>1. ASSUME <<u, t, i>> \in Of(s, pairs) PROVE u = s /\ <<t, i>> \in pairs
  <2>1. PICK x \in pairs : <<u, t, i>> = <<s, x[1], x[2]>>
    BY <1>1 DEF Of
  <2>2. x = <<x[1], x[2]>>
    OBVIOUS
  <2> QED
    BY <2>1, <2>2
<1>2. ASSUME u = s, <<t, i>> \in pairs PROVE <<u, t, i>> \in Of(s, pairs)
  BY <1>2 DEF Of
<1> QED
  BY <1>1, <1>2

LEMMA PageIsNoWork == Page \cap Work = {}
<1> SUFFICES ASSUME NEW x \in Page, x \in Work PROVE FALSE
  OBVIOUS
<1>1. DOMAIN x = {"meter", "row", "tags"}
  BY DEF Page
<1>2. "api" \in DOMAIN x
  BY DEF Work
<1> QED
  BY <1>1, <1>2

LEMMA WorkFields ==
  ASSUME NEW w \in Work
  PROVE  /\ w.api \in BOOLEAN /\ w.stage \in {"commit", "announce"} /\ w.meter \in Serials
         /\ w.seen \in Row \cup {NoMeter} /\ w.row \in Row
         /\ w.touched \subseteq Cols /\ w.stale \subseteq Cols /\ w.asked \subseteq TagNames
         /\ w.names \subseteq TagNames /\ w.insert \subseteq TagNames \X RowIds
         /\ w.on \subseteq TagNames \X RowIds /\ w.off \subseteq TagNames \X RowIds
         /\ w # NoWork
BY FleetAssumption DEF Work

(* What adding and removing tags comes to: v is w with that to write.      *)
Tagged(v, w, s, add, del, id) ==
  /\ v \in Work
  /\ v.api = w.api /\ v.stage = w.stage /\ v.meter = w.meter /\ v.seen = w.seen
  /\ v.row = w.row /\ v.touched = w.touched /\ v.stale = w.stale /\ v.asked = w.asked
  /\ \A t \in TagNames, i \in RowIds :
       /\ <<t, i>> \in v.insert <=> i = id /\ t \in add /\ RowsOf(s, t) = {}
       /\ <<t, i>> \in v.on  <=> t \in add /\ <<s, t, i>> \in present
       /\ <<t, i>> \in v.off <=> t \in del /\ <<s, t, i>> \in present

LEMMA WithTagsTags ==
  ASSUME NEW w \in Work, NEW s \in Serials, NEW add \in SUBSET TagNames,
         NEW del \in SUBSET TagNames, NEW id \in RowIds
  PROVE  Tagged(WithTags(w, s, add, del, id), w, s, add, del, id)
<1> DEFINE nm == add \ tagNames
           ins == {<<t, id>> : t \in {u \in add : RowsOf(s, u) = {}}}
           on == {x \in TagNames \X RowIds : x[1] \in add /\ x[2] \in RowsOf(s, x[1])}
           off == {x \in TagNames \X RowIds : x[1] \in del /\ x[2] \in RowsOf(s, x[1])}
           v == [w EXCEPT !.names = nm, !.insert = ins, !.on = on, !.off = off]
<1>1. v = WithTags(w, s, add, del, id)
  BY DEF WithTags
<1>2. /\ nm \in SUBSET TagNames
      /\ ins \in SUBSET (TagNames \X RowIds)
      /\ on \in SUBSET (TagNames \X RowIds) /\ off \in SUBSET (TagNames \X RowIds)
  OBVIOUS
<1>3. \A t \in TagNames, i \in RowIds :
        /\ <<t, i>> \in ins <=> i = id /\ t \in add /\ RowsOf(s, t) = {}
        /\ <<t, i>> \in on  <=> t \in add /\ <<s, t, i>> \in present
        /\ <<t, i>> \in off <=> t \in del /\ <<s, t, i>> \in present
  BY DEF RowsOf
<1> HIDE DEF nm, ins, on, off
<1>4. /\ v \in Work
      /\ v.api = w.api /\ v.stage = w.stage /\ v.meter = w.meter /\ v.seen = w.seen
      /\ v.row = w.row /\ v.touched = w.touched /\ v.stale = w.stale /\ v.asked = w.asked
      /\ v.insert = ins /\ v.on = on /\ v.off = off
  BY <1>2 DEF Work
<1> HIDE DEF v
<1> QED
  BY <1>1, <1>3, <1>4 DEF Tagged

LEMMA TaggedWanted ==
  ASSUME FleetTypeOK, NEW w \in Work, NEW s \in Serials, w.meter = s,
         NEW add \in SUBSET TagNames, NEW del \in SUBSET TagNames, NEW id \in RowIds,
         add \cap del = {}, NEW v, Tagged(v, w, s, add, del, id)
  PROVE  Wanted(v) = (TagsOf(s) \ del) \cup add
<1>1. /\ v.meter = s
      /\ \A t \in TagNames, i \in RowIds :
           /\ <<t, i>> \in v.insert <=> i = id /\ t \in add /\ RowsOf(s, t) = {}
           /\ <<t, i>> \in v.on  <=> t \in add /\ <<s, t, i>> \in present
           /\ <<t, i>> \in v.off <=> t \in del /\ <<s, t, i>> \in present
  BY DEF Tagged
<1>2. ASSUME NEW t \in TagNames PROVE t \in Wanted(v) <=> t \in (TagsOf(s) \ del) \cup add
  <2>1. CASE t \in add
    <3>1. CASE RowsOf(s, t) = {}
      <4>1. Kept(v, t, id)
        BY <1>1, <2>1, <3>1 DEF Kept
      <4> QED
        BY <2>1, <4>1 DEF Wanted
    <3>2. CASE RowsOf(s, t) # {}
      <4>1. PICK i \in RowIds : <<s, t, i>> \in present
        BY <3>2 DEF RowsOf
      <4>2. Kept(v, t, i)
        BY <1>1, <2>1, <4>1 DEF Kept
      <4> QED
        BY <2>1, <4>2 DEF Wanted
    <3> QED
      BY <3>1, <3>2
  <2>2. CASE t \notin add
    <3>1. \A i \in RowIds : Kept(v, t, i) <=> <<s, t, i>> \in active /\ t \notin del
      BY <1>1, <2>2 DEF Kept, FleetTypeOK
    <3> QED
      BY <2>2, <3>1 DEF Wanted, TagsOf
  <2> QED
    BY <2>1, <2>2
<1> QED
  BY <1>2 DEF Wanted, TagsOf

(* What a request is about to write when it has just read.                 *)
Ready(w) ==
  /\ w \in Work /\ w.stage = "commit" /\ Column(w)
  /\ w.seen # NoMeter => Exists(w.meter)
  /\ w.api /\ "code" \in w.touched /\ w.row.code # NoCode => Owners(w.row.code) \subseteq {w.meter}
  /\ Single(w)
  /\ \A t \in TagNames, i \in RowIds :
       /\ <<t, i>> \in w.insert => RowsOf(w.meter, t) = {}
       /\ <<t, i>> \in w.on => <<w.meter, t, i>> \in present
  /\ "tags" \in w.touched => Wanted(w) = w.asked

LEMMA FleetStart == FleetInit => FleetInv
<1> SUFFICES ASSUME FleetInit PROVE FleetInv
  OBVIOUS
<1>1. FleetTypeOK
  BY FleetAssumption DEF FleetInit, FleetTypeOK
<1>2. Writing = {} /\ \A r \in Offices : work[r] \notin Page
  BY FleetAssumption DEF FleetInit, Writing
<1>3. \A s \in Serials : ~Exists(s) /\ \A t \in TagNames : RowsOf(s, t) = {}
  BY DEF FleetInit, Exists, RowsOf
<1>4. \A c \in CustCodes : Owners(c) = {}
  BY <1>3 DEF Owners
<1> QED
  BY <1>1, <1>2, <1>3, <1>4
  DEF FleetInit, FleetInv, RowsExist, OthersKept, CodesReady, MappingReady, TagsReady, CreatedIsAnnounced,
      CodesDistinct, MappedOnce

LEMMA PrepareKeeps ==
  ASSUME FleetInv, NEW r \in Offices, work[r] \in Page \cup {NoWork}, NEW w, Ready(w), Prepare(r, w)
  PROVE  FleetInv'
<1>1. /\ w \in Work /\ w.stage = "commit" /\ w.meter \in Serials /\ w.row \in Row
      /\ w.on \subseteq TagNames \X RowIds /\ w.insert \subseteq TagNames \X RowIds
      /\ w.row.code \in CustCodes \cup {NoCode} /\ w.touched \subseteq Cols
  BY WorkFields DEF Ready, Row
<1>2. /\ work' \in [Offices -> Work \cup Page \cup {NoWork}]
      /\ work'[r] = w
      /\ \A q \in Offices \ {r} : work'[q] = work[q]
  BY <1>1 DEF Prepare, FleetInv, FleetTypeOK
<1>3. work[r] \notin Work /\ r \notin Writing
  BY PageIsNoWork, FleetAssumption DEF Writing
<1>4. /\ \A q \in Writing : q # r /\ work'[q] = work[q] /\ work[q].meter \in Serials
      /\ Writing' = Writing \cup {r}
      /\ \A q \in Writing' : (q = r /\ work'[q] = w) \/ (q \in Writing /\ work'[q] = work[q])
  <2>1. \A q \in Writing : q \in Offices /\ work[q] \in Work /\ work[q].meter \in Serials
    BY WorkFields DEF Writing
  <2>2. \A q \in Writing : q # r /\ work'[q] = work[q]
    BY <1>2, <1>3, <2>1
  <2>3. \A q \in Offices : q \in Writing' <=> q = r \/ q \in Writing
    BY <1>1, <1>2, <1>3 DEF Writing
  <2>4. Writing \subseteq Offices /\ Writing' \subseteq Offices
    BY DEF Writing
  <2>5. Writing' = Writing \cup {r}
    BY <2>3, <2>4
  <2>6. \A q \in Writing' : (q = r /\ work'[q] = w) \/ (q \in Writing /\ work'[q] = work[q])
    <3> SUFFICES ASSUME NEW q \in Writing' PROVE (q = r /\ work'[q] = w) \/ (q \in Writing /\ work'[q] = work[q])
      OBVIOUS
    <3>1. q = r \/ q \in Writing
      BY <2>5
    <3> QED
      BY <1>2, <2>2, <3>1
  <2>7. \A q \in Writing : q # r /\ work'[q] = work[q] /\ work[q].meter \in Serials
    BY <2>1, <2>2
  <2> QED
    BY <2>5, <2>6, <2>7
<1>5. /\ UNCHANGED <<meterRow, tagNames, present, active, announced, cut>>
      /\ requests' \in 0..MaxAsked
      /\ crossing' = crossing \ {r}
      /\ loose \subseteq loose' /\ loose' \subseteq CustCodes
      /\ raced \subseteq raced' /\ raced' \subseteq Serials \X TagNames
  BY <1>1, FleetAssumption DEF Prepare, FleetInv, FleetTypeOK
<1>6. "code" \in w.touched /\ w.row.code # NoCode =>
        /\ ~w.api => w.row.code \in loose'
        /\ \A q \in Writing : work[q].row.code = w.row.code /\ "code" \in work[q].touched
             => w.row.code \in loose'
  BY <1>1 DEF Prepare
<1>7. \A q \in Writing, t \in TagNames, i, j \in RowIds :
        work[q].meter = w.meter /\ <<t, i>> \in w.insert /\ <<t, j>> \in work[q].insert
          => <<w.meter, t>> \in raced'
  BY <1>1 DEF Prepare
<1>8. /\ \A s \in Serials : Exists(s)' = Exists(s)
      /\ \A s \in Serials, t \in TagNames : RowsOf(s, t)' = RowsOf(s, t)
      /\ \A c : Owners(c)' = Owners(c)
      /\ \A v : Wanted(v)' = Wanted(v)
  BY <1>5 DEF Exists, RowsOf, Owners, Wanted, Kept
<1>9. FleetTypeOK'
  BY <1>2, <1>5 DEF FleetInv, FleetTypeOK
<1>10. RowsExist'
  <2>1. Of(w.meter, w.on) \subseteq present
    <3> SUFFICES ASSUME NEW x \in w.on PROVE <<w.meter, x[1], x[2]>> \in present
      BY DEF Of
    <3> QED
      BY <1>1 DEF Ready
  <2>2. \A q \in Offices : work'[q] \in Page => q # r /\ work'[q] = work[q]
    BY <1>1, <1>2, PageIsNoWork
  <2> QED
    BY <1>4, <1>5, <1>8, <2>1, <2>2 DEF FleetInv, RowsExist, Ready, Exists
<1>11. OthersKept'
  BY <1>4 DEF FleetInv, OthersKept, Ready, Column
<1>12. CodesReady'
  <2>1. ASSUME NEW q \in Writing', "code" \in work'[q].touched, work'[q].row.code # NoCode,
               NEW s \in Owners(work'[q].row.code) \ {work'[q].meter}
        PROVE  work'[q].row.code \in loose'
    BY <1>4, <1>5, <1>6, <2>1 DEF FleetInv, CodesReady, Ready
  <2>2. ASSUME NEW p \in Writing', NEW q \in Writing', p # q,
               "code" \in work'[p].touched, "code" \in work'[q].touched,
               work'[p].row.code # NoCode, work'[p].row.code = work'[q].row.code
        PROVE  work'[p].row.code \in loose'
    BY <1>4, <1>5, <1>6, <2>2 DEF FleetInv, CodesReady
  <2> QED
    BY <1>8, <2>1, <2>2 DEF CodesReady
<1>13. MappingReady'
  <2>1. \A q \in Writing' : Single(work'[q])
    BY <1>4 DEF FleetInv, MappingReady, Ready
  <2>2. ASSUME NEW q \in Writing', NEW t \in TagNames, NEW i \in RowIds, <<t, i>> \in work'[q].insert
        PROVE  RowsOf(work'[q].meter, t) = {} \/ <<work'[q].meter, t>> \in raced'
    BY <1>4, <1>5, <2>2 DEF FleetInv, MappingReady, Ready
  <2>3. ASSUME NEW p \in Writing', NEW q \in Writing', NEW t \in TagNames, NEW i \in RowIds,
               NEW j \in RowIds, p # q, work'[p].meter = work'[q].meter,
               <<t, i>> \in work'[p].insert, <<t, j>> \in work'[q].insert
        PROVE  <<work'[p].meter, t>> \in raced'
    BY <1>4, <1>5, <1>7, <2>3 DEF FleetInv, MappingReady
  <2> QED
    BY <1>5, <2>1, <2>2, <2>3 DEF MappingReady, Single, RowsOf
<1>14. TagsReady'
  BY <1>4, <1>5, <1>8 DEF FleetInv, TagsReady, Ready
<1>15. CreatedIsAnnounced'
  BY <1>2, <1>3, <1>5, <1>8 DEF FleetInv, CreatedIsAnnounced
<1>16. CodesDistinct' /\ MappedOnce'
  BY <1>5, <1>8 DEF FleetInv, CodesDistinct, MappedOnce
<1> QED
  BY <1>9, <1>10, <1>11, <1>12, <1>13, <1>14, <1>15, <1>16 DEF FleetInv

(* What is in the registry once a request has committed.                   *)
LEMMA CommitWorkEffect ==
  ASSUME FleetInv, NEW r \in Offices, CommitWork(r)
  PROVE  LET w == work[r] IN
         /\ r \in Writing /\ w \in Work /\ w.meter \in Serials
         /\ meterRow' \in [Serials -> Row \cup {NoMeter}] /\ meterRow'[w.meter] # NoMeter
         /\ \A s \in Serials : Exists(s) => Exists(s)'
         /\ \A s \in Serials : s # w.meter => meterRow'[s] = meterRow[s]
         /\ \A s \in Serials, t \in TagNames, i \in RowIds :
              /\ <<s, t, i>> \in present' <=> <<s, t, i>> \in present \/ (s = w.meter /\ <<t, i>> \in w.insert)
              /\ s # w.meter => (<<s, t, i>> \in active' <=> <<s, t, i>> \in active)
              /\ <<w.meter, t, i>> \in active' <=> Kept(w, t, i)
         /\ present' \subseteq Serials \X TagNames \X RowIds /\ active' \subseteq present'
<1> DEFINE w == work[r]
<1>1. /\ r \in Writing /\ w \in Work /\ w.meter \in Serials /\ w.row \in Row
      /\ w.insert \in SUBSET (TagNames \X RowIds) /\ w.on \in SUBSET (TagNames \X RowIds)
      /\ w.off \in SUBSET (TagNames \X RowIds)
      /\ w.seen # NoMeter => meterRow[w.meter] \in Row
  <2>1. r \in Writing /\ w \in Work
    BY DEF CommitWork, Writing
  <2>2. w.meter \in Serials
    BY <2>1, WorkFields
  <2>3. w.seen # NoMeter => meterRow[w.meter] \in Row
    BY <2>1, <2>2 DEF FleetInv, RowsExist, Exists, FleetTypeOK
  <2> QED
    BY <2>1, <2>2, <2>3, WorkFields
<1>2. Written(w) \in Row
  BY <1>1 DEF Written, Row
<1>3. meterRow' = [meterRow EXCEPT ![w.meter] = Written(w)]
  BY DEF CommitWork
<1>4. /\ present' = present \cup Of(w.meter, w.insert)
      /\ active' = (active \ Of(w.meter, w.off)) \cup Of(w.meter, w.on) \cup Of(w.meter, w.insert)
  BY DEF CommitWork, ActiveAfter
<1>5. Of(w.meter, w.on) \subseteq present
  BY <1>1 DEF FleetInv, RowsExist
<1> HIDE DEF w
<1>6. /\ meterRow' \in [Serials -> Row \cup {NoMeter}] /\ meterRow'[w.meter] # NoMeter
      /\ \A s \in Serials : s # w.meter => meterRow'[s] = meterRow[s]
  BY <1>1, <1>2, <1>3, FleetAssumption DEF FleetInv, FleetTypeOK
<1>7. \A s \in Serials : Exists(s) => Exists(s)'
  BY <1>6 DEF Exists
<1>8. \A s \in Serials, t \in TagNames, i \in RowIds :
        /\ <<s, t, i>> \in Of(w.meter, w.insert) <=> s = w.meter /\ <<t, i>> \in w.insert
        /\ <<s, t, i>> \in Of(w.meter, w.on) <=> s = w.meter /\ <<t, i>> \in w.on
        /\ <<s, t, i>> \in Of(w.meter, w.off) <=> s = w.meter /\ <<t, i>> \in w.off
  BY <1>1, OfMember
<1>9. Of(w.meter, w.insert) \subseteq Serials \X TagNames \X RowIds
  BY <1>1 DEF Of
<1>10. /\ present' \subseteq Serials \X TagNames \X RowIds /\ active' \subseteq present'
  BY <1>4, <1>5, <1>9 DEF FleetInv, FleetTypeOK
<1>11. \A s \in Serials, t \in TagNames, i \in RowIds :
         /\ <<s, t, i>> \in present' <=> <<s, t, i>> \in present \/ (s = w.meter /\ <<t, i>> \in w.insert)
         /\ s # w.meter => (<<s, t, i>> \in active' <=> <<s, t, i>> \in active)
         /\ <<w.meter, t, i>> \in active' <=> Kept(w, t, i)
  <2> SUFFICES ASSUME NEW s \in Serials, NEW t \in TagNames, NEW i \in RowIds
               PROVE  /\ <<s, t, i>> \in present' <=> <<s, t, i>> \in present \/ (s = w.meter /\ <<t, i>> \in w.insert)
                      /\ s # w.meter => (<<s, t, i>> \in active' <=> <<s, t, i>> \in active)
                      /\ <<w.meter, t, i>> \in active' <=> Kept(w, t, i)
    OBVIOUS
  <2>1. <<s, t, i>> \in present' <=> <<s, t, i>> \in present \/ (s = w.meter /\ <<t, i>> \in w.insert)
    <3>1. <<s, t, i>> \in Of(w.meter, w.insert) <=> s = w.meter /\ <<t, i>> \in w.insert
      BY <1>8
    <3>2. present' = present \cup Of(w.meter, w.insert)
      BY <1>4
    <3> QED
      BY <3>1, <3>2
  <2>2. s # w.meter => (<<s, t, i>> \in active' <=> <<s, t, i>> \in active)
    BY <1>4, <1>8
  <2>3. <<w.meter, t, i>> \in active' <=> Kept(w, t, i)
    BY <1>1, <1>4, <1>8 DEF Kept
  <2> QED
    BY <2>1, <2>2, <2>3
<1> QED
  BY <1>1, <1>6, <1>7, <1>10, <1>11 DEF w

(* Who is still about to write when a request commits or ends.             *)
LEMMA EndEffect ==
  ASSUME FleetInv, NEW r \in Offices, NEW v \in Work \cup {NoWork}, v \in Work => v.stage = "announce",
         work' = [work EXCEPT ![r] = v]
  PROVE  /\ work' \in [Offices -> Work \cup Page \cup {NoWork}]
         /\ Writing' = Writing \ {r}
         /\ \A q \in Offices \ {r} : work'[q] = work[q]
         /\ work'[r] = v
         /\ \A q \in Writing' : /\ q \in Writing /\ q # r /\ work'[q] = work[q]
                                 /\ work[q] \in Work /\ work[q].meter \in Serials
<1>1. /\ work' \in [Offices -> Work \cup Page \cup {NoWork}]
      /\ \A q \in Offices \ {r} : work'[q] = work[q]
      /\ work'[r] = v
  BY DEF FleetInv, FleetTypeOK
<1>2. r \notin Writing'
  BY <1>1, FleetAssumption DEF Writing
<1>3. \A q \in Offices : q \in Writing' <=> q \in Writing /\ q # r
  BY <1>1, <1>2 DEF Writing
<1>4. \A q \in Writing : work[q] \in Work /\ work[q].meter \in Serials
  BY WorkFields DEF Writing
<1> QED
  BY <1>1, <1>3, <1>4 DEF Writing

(* Where the code and the state of the row that w writes come from.        *)
LEMMA WrittenFrom ==
  ASSUME FleetInv, NEW r \in Writing
  PROVE  LET w == work[r] IN
         /\ \/ Written(w).code = w.row.code /\ "code" \in w.touched
            \/ Exists(w.meter) /\ Written(w).code = meterRow[w.meter].code
         /\ \/ Written(w).state = w.row.state /\ "state" \in w.touched
            \/ Exists(w.meter) /\ Written(w).state = meterRow[w.meter].state
<1> DEFINE w == work[r]
<1>1. /\ Column(w)
      /\ w.seen # NoMeter => Exists(w.meter)
  BY DEF FleetInv, OthersKept, RowsExist
<1> HIDE DEF w
<1>2. /\ \/ Written(w).code = w.row.code /\ "code" \in w.touched
         \/ Exists(w.meter) /\ Written(w).code = meterRow[w.meter].code
      /\ \/ Written(w).state = w.row.state /\ "state" \in w.touched
         \/ Exists(w.meter) /\ Written(w).state = meterRow[w.meter].state
  <2>1. CASE w.seen = NoMeter
    BY <1>1, <2>1 DEF Written, Column, Cols
  <2>2. CASE w.seen # NoMeter
    BY <1>1, <2>2 DEF Written, Column
  <2> QED
    BY <2>1, <2>2
<1> QED
  BY <1>2 DEF w

LEMMA CommitWorkKeeps ==
  ASSUME FleetInv, NEW r \in Offices, CommitWork(r)
  PROVE  FleetInv'
<1> DEFINE w == work[r]
           v == IF w.seen = NoMeter /\ ~w.api THEN [w EXCEPT !.stage = "announce"] ELSE NoWork
<1>1. /\ r \in Writing /\ w \in Work /\ w.meter \in Serials
      /\ meterRow' \in [Serials -> Row \cup {NoMeter}] /\ meterRow'[w.meter] # NoMeter
      /\ \A s \in Serials : Exists(s) => Exists(s)'
      /\ \A s \in Serials : s # w.meter => meterRow'[s] = meterRow[s]
      /\ \A s \in Serials, t \in TagNames, i \in RowIds :
           /\ <<s, t, i>> \in present' <=> <<s, t, i>> \in present \/ (s = w.meter /\ <<t, i>> \in w.insert)
           /\ s # w.meter => (<<s, t, i>> \in active' <=> <<s, t, i>> \in active)
           /\ <<w.meter, t, i>> \in active' <=> Kept(w, t, i)
      /\ present' \subseteq Serials \X TagNames \X RowIds /\ active' \subseteq present'
  BY CommitWorkEffect
<1>2. /\ v \in Work \cup {NoWork} /\ (v \in Work => v.stage = "announce")
      /\ w.seen = NoMeter /\ ~w.api => v \in Work /\ v.meter = w.meter /\ v.stage = "announce"
  BY <1>1, FleetAssumption DEF Work
<1>3. work' = [work EXCEPT ![r] = v]
  BY DEF CommitWork
<1> HIDE DEF v
<1>4. /\ work' \in [Offices -> Work \cup Page \cup {NoWork}]
      /\ Writing' = Writing \ {r}
      /\ \A q \in Offices \ {r} : work'[q] = work[q]
      /\ work'[r] = v
      /\ \A q \in Writing' : /\ q \in Writing /\ q # r /\ work'[q] = work[q]
                             /\ work[q] \in Work /\ work[q].meter \in Serials
  BY <1>2, <1>3, EndEffect
<1>5. /\ meterRow'[w.meter] = Written(w)
      /\ \/ Written(w).code = w.row.code /\ "code" \in w.touched
         \/ Exists(w.meter) /\ Written(w).code = meterRow[w.meter].code
  BY <1>1, WrittenFrom DEF CommitWork, FleetInv, FleetTypeOK
<1>6. /\ tagNames' = tagNames \cup w.names
      /\ announced' = announced \cup {s \in {w.meter} : AnnouncedAtOnce(w)}
      /\ crossing' = crossing \cup {q \in Writing \ {r} : work[q].meter = w.meter}
      /\ UNCHANGED <<requests, cut, loose, raced>>
  BY DEF CommitWork
<1> HIDE DEF w
<1>7. \A s \in Serials : \A c : s # w.meter => (s \in Owners(c)' <=> s \in Owners(c))
  BY <1>1 DEF Owners, Exists
<1>8. \A c : w.meter \in Owners(c)' =>
        \/ w.row.code = c /\ "code" \in w.touched
        \/ w.meter \in Owners(c)
  BY <1>1, <1>5 DEF Owners
<1>9. FleetTypeOK'
  <2>1. w.names \subseteq TagNames
    BY <1>1, WorkFields
  <2>2. Writing \subseteq Offices
    BY DEF Writing
  <2>3. tagNames' \subseteq TagNames /\ announced' \subseteq Serials /\ crossing' \subseteq Offices
    BY <1>1, <1>6, <2>1, <2>2 DEF FleetInv, FleetTypeOK
  <2> QED
    BY <1>1, <1>4, <1>6, <2>3 DEF FleetInv, FleetTypeOK
<1>10. RowsExist'
  <2>1. ASSUME NEW s \in Serials, NEW t \in TagNames, NEW i \in RowIds, <<s, t, i>> \in present'
        PROVE  Exists(s)'
    <3>1. <<s, t, i>> \in present \/ s = w.meter
      BY <1>1, <2>1
    <3> QED
      BY <1>1, <3>1 DEF FleetInv, RowsExist, Exists
  <2>2. ASSUME NEW q \in Writing', work'[q].seen # NoMeter PROVE Exists(work[q].meter)'
    BY <1>1, <1>4, <2>2 DEF FleetInv, RowsExist
  <2>3. present \subseteq present'
    BY DEF CommitWork
  <2>4. ASSUME NEW q \in Writing' PROVE Of(work'[q].meter, work'[q].on) \subseteq present'
    BY <1>4, <2>3 DEF FleetInv, RowsExist
  <2>5. ASSUME NEW q \in Writing', work'[q].seen # NoMeter PROVE meterRow'[work'[q].meter] # NoMeter
    BY <1>1, <1>4, <2>5 DEF FleetInv, RowsExist, Exists
  <2>6. ASSUME NEW q \in Offices, work'[q] \in Page
        PROVE  work'[q].meter \in Serials /\ meterRow'[work'[q].meter] # NoMeter
    <3>1. v \notin Page
      BY <1>2, PageIsNoWork, FleetAssumption
    <3>2. q # r /\ work'[q] = work[q]
      BY <1>4, <2>6, <3>1
    <3> QED
      BY <1>1, <2>6, <3>2 DEF FleetInv, RowsExist, Exists
  <2> QED
    BY <2>1, <2>4, <2>5, <2>6 DEF RowsExist, Exists
<1>11. OthersKept'
  BY <1>4 DEF FleetInv, OthersKept, Column
<1>12. CodesReady'
  <2>1. ASSUME NEW q \in Writing', "code" \in work[q].touched, NEW c, c = work[q].row.code, c # NoCode,
               NEW s \in Serials, s \in Owners(c)', s # work[q].meter
        PROVE  c \in loose'
    <3>1. q \in Writing /\ q # r
      BY <1>4
    <3>2. CASE s \in Owners(c)
      BY <1>6, <2>1, <3>1, <3>2 DEF FleetInv, CodesReady
    <3>3. CASE s \notin Owners(c)
      <4>1. w.row.code = c /\ "code" \in w.touched
        BY <1>7, <1>8, <2>1, <3>3
      <4> QED
        BY <1>1, <1>6, <2>1, <3>1, <4>1 DEF FleetInv, CodesReady, w
    <3> QED
      BY <3>2, <3>3
  <2>2. ASSUME NEW q \in Writing', NEW p \in Writing', p # q,
               "code" \in work[p].touched, "code" \in work[q].touched,
               work[p].row.code # NoCode, work[p].row.code = work[q].row.code
        PROVE  work[p].row.code \in loose'
    BY <1>4, <1>6, <2>2 DEF FleetInv, CodesReady
  <2>3. ASSUME NEW q \in Writing', "code" \in work'[q].touched, NEW c, c = work'[q].row.code, c # NoCode,
               NEW s \in Owners(c)', s # work'[q].meter
        PROVE  c \in loose'
    <3>1. s \in Serials
      BY DEF Owners
    <3> QED
      BY <1>4, <2>1, <2>3, <3>1
  <2>4. ASSUME NEW q \in Writing', "code" \in work'[q].touched, work'[q].row.code # NoCode,
               NEW s \in Serials, meterRow'[s] # NoMeter, meterRow'[s].code = work'[q].row.code,
               s # work'[q].meter
        PROVE  work'[q].row.code \in loose'
    <3>1. \A c : c = work'[q].row.code => s \in Owners(c)'
      BY <2>4 DEF Owners, Exists
    <3> QED
      BY <2>3, <2>4, <3>1
  <2> QED
    BY <1>4, <2>2, <2>4 DEF CodesReady, Owners, Exists
<1>13. MappingReady'
  <2>1. \A q \in Writing' : Single(work'[q])
    BY <1>4 DEF FleetInv, MappingReady
  <2>2. ASSUME NEW q \in Writing', NEW t \in TagNames, NEW i \in RowIds, <<t, i>> \in work[q].insert
        PROVE  {j \in RowIds : <<work[q].meter, t, j>> \in present'} = {} \/ <<work[q].meter, t>> \in raced
    <3> DEFINE m == work[q].meter
    <3>1. q \in Writing /\ q # r /\ m \in Serials
      BY <1>4
    <3>2. RowsOf(m, t) = {} \/ <<m, t>> \in raced
      BY <2>2, <3>1 DEF FleetInv, MappingReady
    <3>3. CASE \E j \in RowIds : m = w.meter /\ <<t, j>> \in w.insert
      BY <1>1, <2>2, <3>1, <3>3 DEF FleetInv, MappingReady, w
    <3>4. CASE \A j \in RowIds : ~(m = w.meter /\ <<t, j>> \in w.insert)
      <4> HIDE DEF m
      <4>1. \A j \in RowIds : <<m, t, j>> \in present' <=> <<m, t, j>> \in present
        BY <1>1, <3>1, <3>4
      <4>2. {j \in RowIds : <<m, t, j>> \in present'} = {j \in RowIds : <<m, t, j>> \in present}
        BY <4>1
      <4> QED
        BY <3>2, <4>2 DEF RowsOf, m
    <3> QED
      BY <3>3, <3>4
  <2>3. ASSUME NEW p \in Writing', NEW q \in Writing', NEW t \in TagNames, NEW i \in RowIds,
               NEW j \in RowIds, p # q, work[p].meter = work[q].meter,
               <<t, i>> \in work[p].insert, <<t, j>> \in work[q].insert
        PROVE  <<work[p].meter, t>> \in raced'
    BY <1>4, <1>6, <2>3 DEF FleetInv, MappingReady
  <2> QED
    BY <1>4, <1>6, <2>1, <2>2, <2>3 DEF MappingReady, Single, RowsOf
<1>14. TagsReady'
  <2>1. ASSUME NEW q \in Writing' \ crossing', "tags" \in work[q].touched
        PROVE  Wanted(work[q])' = work[q].asked
    <3> DEFINE u == work[q]
    <3>1. /\ q \in Writing /\ q # r /\ q \notin crossing
          /\ u \in Work /\ u.meter \in Serials
      BY <1>4, <1>6
    <3>2. u.meter # w.meter
      BY <1>6, <2>1, <3>1
    <3>3. Wanted(u) = u.asked
      BY <2>1, <3>1 DEF FleetInv, TagsReady
    <3>4. work'[q] = u
      BY <1>4
    <3> HIDE DEF u
    <3>5. \A t \in TagNames, i \in RowIds : <<u.meter, t, i>> \in active' <=> <<u.meter, t, i>> \in active
      BY <1>1, <3>1, <3>2
    <3>6. {t \in TagNames : \E i \in RowIds :
              \/ <<u.meter, t, i>> \in active' /\ <<t, i>> \notin u.off
              \/ <<t, i>> \in u.on
              \/ <<t, i>> \in u.insert} = u.asked
      BY <3>3, <3>5 DEF Wanted, Kept
    <3> QED
      BY <3>4, <3>6 DEF Wanted, Kept, u
  <2>2. \A q \in Writing' : work'[q] = work[q]
    BY <1>4
  <2> QED
    BY <2>1, <2>2 DEF TagsReady, Wanted, Kept
<1>15. CreatedIsAnnounced'
  <2> SUFFICES ASSUME NEW s \in Serials, Exists(s)'
               PROVE  \/ s \in announced' \cup cut'
                      \/ \E q \in Offices : work'[q] \in Work /\ work'[q].stage = "announce" /\ work'[q].meter = s
    BY DEF CreatedIsAnnounced
  <2>1. CASE Exists(s)
    <3>1. CASE s \in announced \cup cut
      BY <1>6, <3>1
    <3>2. CASE s \notin announced \cup cut
      <4>1. PICK q \in Offices : work[q] \in Work /\ work[q].stage = "announce" /\ work[q].meter = s
        BY <2>1, <3>2 DEF FleetInv, CreatedIsAnnounced
      <4>2. q # r
        BY <1>1, <4>1 DEF Writing
      <4> QED
        BY <1>4, <4>1, <4>2
    <3> QED
      BY <3>1, <3>2
  <2>2. CASE ~Exists(s)
    <3>1. s = w.meter
      BY <1>1, <2>2 DEF Exists
    <3>2. w.seen = NoMeter
      BY <1>1, <2>2, <3>1 DEF FleetInv, RowsExist, w
    <3>3. CASE w.api
      BY <1>6, <3>1, <3>2, <3>3 DEF AnnouncedAtOnce
    <3>4. CASE ~w.api
      BY <1>2, <1>4, <3>1, <3>2, <3>4
    <3> QED
      BY <3>3, <3>4
  <2> QED
    BY <2>1, <2>2
<1>16. CodesDistinct'
  <2>1. ASSUME NEW c \in CustCodes, NEW s \in Serials, NEW u \in Serials, s # u,
               s \in Owners(c)', u \in Owners(c)', s = w.meter
        PROVE  c \in loose
    <3>1. u \in Owners(c)
      BY <1>7, <2>1
    <3>2. CASE w.row.code = c /\ "code" \in w.touched
      BY <1>1, <2>1, <3>1, <3>2, FleetAssumption DEF FleetInv, CodesReady, w
    <3>3. CASE w.meter \in Owners(c)
      BY <2>1, <3>1, <3>3 DEF FleetInv, CodesDistinct
    <3> QED
      BY <1>8, <2>1, <3>2, <3>3
  <2>2. ASSUME NEW c \in CustCodes, NEW s \in Owners(c)', NEW u \in Owners(c)', s # u
        PROVE  c \in loose
    <3>1. s \in Serials /\ u \in Serials
      BY DEF Owners
    <3>2. CASE s # w.meter /\ u # w.meter
      BY <1>7, <2>2, <3>1, <3>2 DEF FleetInv, CodesDistinct
    <3> QED
      BY <2>1, <2>2, <3>1, <3>2
  <2> QED
    BY <1>6, <2>2 DEF CodesDistinct
<1>17. MappedOnce'
  <2>1. ASSUME NEW s \in Serials, NEW t \in TagNames, NEW i \in RowIds, NEW j \in RowIds, i # j,
               <<s, t, i>> \in present', <<s, t, j>> \in present'
        PROVE  <<s, t>> \in raced
    <3>1. CASE <<s, t, i>> \in present /\ <<s, t, j>> \in present
      BY <2>1, <3>1 DEF FleetInv, MappedOnce, RowsOf
    <3>2. CASE s = w.meter /\ <<t, i>> \in w.insert /\ <<t, j>> \in w.insert
      BY <1>1, <2>1, <3>2 DEF FleetInv, MappingReady, Single, w
    <3>3. ASSUME NEW k \in RowIds, NEW l \in RowIds, <<s, t, k>> \in present,
                 s = w.meter, <<t, l>> \in w.insert
          PROVE  <<s, t>> \in raced
      <4>1. k \in RowsOf(s, t)
        BY <3>3 DEF RowsOf
      <4> QED
        BY <1>1, <3>3, <4>1 DEF FleetInv, MappingReady, w
    <3> QED
      BY <1>1, <2>1, <3>1, <3>2, <3>3
  <2> QED
    BY <1>6, <2>1 DEF MappedOnce, RowsOf
<1> QED
  BY <1>9, <1>10, <1>11, <1>12, <1>13, <1>14, <1>15, <1>16, <1>17 DEF FleetInv

(* The end of a request, announced or cut, leaves the registry alone.      *)
LEMMA EndKeeps ==
  ASSUME FleetInv, NEW r \in Offices, work' = [work EXCEPT ![r] = NoWork],
         UNCHANGED <<meterRow, tagNames, present, active, requests, loose, raced, crossing>>,
         announced \subseteq announced', announced' \subseteq Serials,
         cut \subseteq cut', cut' \subseteq Serials,
         work[r] \in Work /\ work[r].stage = "announce" => work[r].meter \in announced' \cup cut'
  PROVE  FleetInv'
<1>1. /\ work' \in [Offices -> Work \cup Page \cup {NoWork}]
      /\ Writing' = Writing \ {r}
      /\ \A q \in Offices \ {r} : work'[q] = work[q]
      /\ work'[r] = NoWork
      /\ \A q \in Writing' : /\ q \in Writing /\ q # r /\ work'[q] = work[q]
                             /\ work[q] \in Work /\ work[q].meter \in Serials
  BY EndEffect, FleetAssumption
<1>2. FleetTypeOK'
  BY <1>1 DEF FleetInv, FleetTypeOK
<1>3. RowsExist'
  <2>1. \A q \in Offices : work'[q] \in Page => work'[q] = work[q]
    BY <1>1, FleetAssumption
  <2> QED
    BY <1>1, <2>1 DEF FleetInv, RowsExist, Exists
<1>4. OthersKept'
  BY <1>1 DEF FleetInv, OthersKept, Column
<1>5. CodesReady'
  BY <1>1 DEF FleetInv, CodesReady, Owners, Exists
<1>6. MappingReady'
  BY <1>1 DEF FleetInv, MappingReady, Single, RowsOf
<1>7. TagsReady'
  BY <1>1 DEF FleetInv, TagsReady, Wanted, Kept
<1>8. CreatedIsAnnounced'
  <2> SUFFICES ASSUME NEW s \in Serials, Exists(s), s \notin announced' \cup cut'
               PROVE  \E q \in Offices : work'[q] \in Work /\ work'[q].stage = "announce" /\ work'[q].meter = s
    BY DEF CreatedIsAnnounced, Exists
  <2>1. PICK q \in Offices : work[q] \in Work /\ work[q].stage = "announce" /\ work[q].meter = s
    BY DEF FleetInv, CreatedIsAnnounced
  <2>2. q # r
    BY <2>1
  <2> QED
    BY <1>1, <2>1, <2>2
<1>9. CodesDistinct' /\ MappedOnce'
  BY DEF FleetInv, CodesDistinct, MappedOnce, Owners, Exists, RowsOf
<1> QED
  BY <1>2, <1>3, <1>4, <1>5, <1>6, <1>7, <1>8, <1>9 DEF FleetInv

(* Nor does opening a page change it.                                      *)
LEMMA OpenKeeps ==
  ASSUME FleetInv, NEW r \in Offices, NEW s \in Serials, OpenPage(r, s)
  PROVE  FleetInv'
<1> DEFINE page == [meter |-> s, row |-> meterRow[s], tags |-> TagsOf(s)]
<1>1. page \in Page /\ page.meter = s /\ Exists(s)
  BY DEF OpenPage, Page, FleetInv, FleetTypeOK, TagsOf, Exists
<1>2. /\ work' = [work EXCEPT ![r] = page] /\ work[r] = NoWork
      /\ UNCHANGED <<meterRow, tagNames, present, active, announced, requests, cut, loose, raced, crossing>>
  BY DEF OpenPage
<1> HIDE DEF page
<1>3. page \notin Work
  BY <1>1, PageIsNoWork
<1>4. /\ work' \in [Offices -> Work \cup Page \cup {NoWork}]
      /\ \A q \in Offices \ {r} : work'[q] = work[q]
      /\ work'[r] = page
  BY <1>1, <1>2 DEF FleetInv, FleetTypeOK
<1>5. work[r] \notin Work
  BY <1>2, FleetAssumption
<1>6. /\ \A q \in Writing' : q \in Writing /\ work'[q] = work[q]
      /\ Writing' = Writing
  BY <1>3, <1>4, <1>5 DEF Writing
<1>7. FleetTypeOK'
  BY <1>2, <1>4 DEF FleetInv, FleetTypeOK
<1>8. RowsExist'
  <2>1. \A q \in Offices : work'[q] \in Page =>
          work'[q] = work[q] \/ (work'[q].meter = s /\ Exists(s))
    BY <1>1, <1>4
  <2> QED
    BY <1>2, <1>6, <2>1 DEF FleetInv, RowsExist, Exists
<1>9. OthersKept'
  BY <1>6 DEF FleetInv, OthersKept, Column
<1>10. CodesReady'
  BY <1>2, <1>6 DEF FleetInv, CodesReady, Owners, Exists
<1>11. MappingReady'
  BY <1>2, <1>6 DEF FleetInv, MappingReady, Single, RowsOf
<1>12. TagsReady'
  <2>1. \A v : Wanted(v)' = Wanted(v)
    BY <1>2 DEF Wanted, Kept
  <2> QED
    BY <1>2, <1>6, <2>1 DEF FleetInv, TagsReady
<1>13. CreatedIsAnnounced'
  <2> SUFFICES ASSUME NEW u \in Serials, Exists(u), u \notin announced \cup cut
               PROVE  \E q \in Offices : work'[q] \in Work /\ work'[q].stage = "announce" /\ work'[q].meter = u
    BY <1>2 DEF CreatedIsAnnounced, Exists
  <2>1. PICK q \in Offices : work[q] \in Work /\ work[q].stage = "announce" /\ work[q].meter = u
    BY DEF FleetInv, CreatedIsAnnounced
  <2> QED
    BY <1>4, <1>5, <2>1
<1>14. CodesDistinct' /\ MappedOnce'
  BY <1>2 DEF FleetInv, CodesDistinct, MappedOnce, Owners, Exists, RowsOf
<1> QED
  BY <1>7, <1>8, <1>9, <1>10, <1>11, <1>12, <1>13, <1>14 DEF FleetInv

(* A request that has read and adds and takes off tags is ready to write.  *)
LEMMA TaggedReady ==
  ASSUME FleetInv, NEW w \in Work, NEW s \in Serials, w.meter = s, w.stage = "commit", Column(w),
         w.seen # NoMeter => Exists(s),
         w.api /\ "code" \in w.touched /\ w.row.code # NoCode => Owners(w.row.code) \subseteq {s},
         NEW add \in SUBSET TagNames, NEW del \in SUBSET TagNames, NEW id \in RowIds,
         add \cap del = {}, "tags" \in w.touched => (TagsOf(s) \ del) \cup add = w.asked
  PROVE  Ready(WithTags(w, s, add, del, id))
<1> DEFINE v == WithTags(w, s, add, del, id)
<1>1. Tagged(v, w, s, add, del, id)
  BY WithTagsTags
<1> HIDE DEF v
<1>2. Wanted(v) = (TagsOf(s) \ del) \cup add
  BY <1>1, TaggedWanted DEF FleetInv
<1>3. /\ v \in Work
      /\ v.api = w.api /\ v.stage = w.stage /\ v.meter = w.meter /\ v.seen = w.seen
      /\ v.row = w.row /\ v.touched = w.touched /\ v.stale = w.stale /\ v.asked = w.asked
  BY <1>1 DEF Tagged
<1>4. Column(v)
  BY <1>3 DEF Column
<1>5. /\ \A t \in TagNames, i \in RowIds :
           /\ <<t, i>> \in v.insert => RowsOf(v.meter, t) = {} /\ i = id
           /\ <<t, i>> \in v.on => <<v.meter, t, i>> \in present
  BY <1>1, <1>3 DEF Tagged
<1>6. Single(v)
  BY <1>5 DEF Single
<1>7. Ready(v)
  BY <1>2, <1>3, <1>4, <1>5, <1>6 DEF Ready
<1> QED
  BY <1>7 DEF v

LEMMA NewReady ==
  ASSUME FleetInv, NEW r \in Offices, NEW s \in Serials, NEW row \in Row, NEW tags \in SUBSET TagNames,
         NEW api \in BOOLEAN, ~Exists(s), api /\ row.code # NoCode => CodeFree(s, row.code)
  PROVE  Ready(WithTags(Fresh(s, row, api, tags), s, tags, {}, r))
<1> DEFINE w == Fresh(s, row, api, tags)
<1>1. /\ w \in Work /\ w.meter = s /\ w.stage = "commit" /\ w.seen = NoMeter /\ w.touched = Cols
      /\ w.api = api /\ w.row = row /\ w.asked = tags
  BY DEF Fresh, Work, Cols
<1> HIDE DEF w
<1>2. Column(w)
  BY <1>1 DEF Column
<1>3. TagsOf(s) = {}
  BY DEF FleetInv, FleetTypeOK, RowsExist, TagsOf
<1>4. r \in RowIds
  BY DEF RowIds
<1>5. Ready(WithTags(w, s, tags, {}, r))
  BY <1>1, <1>2, <1>3, <1>4, TaggedReady DEF CodeFree
<1> QED
  BY <1>5 DEF w

LEMMA EditReady ==
  ASSUME FleetInv, NEW s \in Serials, NEW row \in Row, NEW tags \in SUBSET TagNames,
         NEW api \in BOOLEAN, NEW touched \in SUBSET Cols, NEW stale \in SUBSET Cols,
         NEW add \in SUBSET TagNames, NEW del \in SUBSET TagNames, NEW id \in RowIds, Exists(s),
         add \cap del = {}, "tags" \in touched => (TagsOf(s) \ del) \cup add = tags,
         api /\ "code" \in touched => CodeFree(s, row.code),
         "code" \notin touched => row.code = meterRow[s].code,
         "state" \notin touched => row.state = meterRow[s].state
  PROVE  Ready(WithTags([Fresh(s, row, api, tags) EXCEPT
                           !.seen = meterRow[s], !.touched = touched, !.stale = stale], s, add, del, id))
<1> DEFINE w == [Fresh(s, row, api, tags) EXCEPT
                           !.seen = meterRow[s], !.touched = touched, !.stale = stale]
<1>1. meterRow[s] \in Row
  BY DEF FleetInv, FleetTypeOK, Exists
<1>2. /\ w \in Work /\ w.meter = s /\ w.stage = "commit" /\ w.seen = meterRow[s] /\ w.touched = touched
      /\ w.api = api /\ w.row = row /\ w.asked = tags
  BY <1>1 DEF Fresh, Work
<1> HIDE DEF w
<1>3. Column(w)
  BY <1>2 DEF Column, Exists
<1>4. Ready(WithTags(w, s, add, del, id))
  BY <1>2, <1>3, TaggedReady DEF CodeFree
<1> QED
  BY <1>4 DEF w

LEMMA FleetStep == FleetInv /\ [FleetNext]_fleetVars => FleetInv'
<1> SUFFICES ASSUME FleetInv, [FleetNext]_fleetVars PROVE FleetInv'
  OBVIOUS
<1>1. ASSUME NEW r \in Offices, NEW s \in Serials, NEW row \in Row, NEW tags \in SUBSET TagNames,
             AddApi(r, s, row, tags)
      PROVE  FleetInv'
  BY <1>1, NewReady, PrepareKeeps DEF AddApi
<1>2. ASSUME NEW r \in Offices, NEW s \in Serials, NEW row \in Row, NEW tags \in SUBSET TagNames,
             AddPage(r, s, row, tags)
      PROVE  FleetInv'
  BY <1>2, NewReady, PrepareKeeps DEF AddPage
<1>3. ASSUME NEW r \in Offices, NEW s \in Serials, NEW row \in Row, NEW tags \in SUBSET TagNames,
             NEW touched \in SUBSET Cols, EditMeterApi(r, s, touched, row, tags)
      PROVE  FleetInv'
  <2> DEFINE add == IF "tags" \in touched THEN tags \ TagsOf(s) ELSE {}
             del == IF "tags" \in touched THEN TagsOf(s) \ tags ELSE {}
             w == [Fresh(s, row, TRUE, tags) EXCEPT !.seen = meterRow[s], !.touched = touched]
  <2>1. /\ work[r] = NoWork /\ Exists(s)
        /\ "code" \in touched => CodeFree(s, row.code)
        /\ "code" \notin touched => row.code = meterRow[s].code
        /\ "state" \notin touched => row.state = meterRow[s].state
        /\ Prepare(r, WithTags(w, s, add, del, ComputedId))
    BY <1>3 DEF EditMeterApi
  <2>2. /\ add \in SUBSET TagNames /\ del \in SUBSET TagNames /\ add \cap del = {}
        /\ "tags" \in touched => (TagsOf(s) \ del) \cup add = tags
    BY DEF TagsOf
  <2>3. w = [Fresh(s, row, TRUE, tags) EXCEPT !.seen = meterRow[s], !.touched = touched, !.stale = {}]
    <3> DEFINE f == Fresh(s, row, TRUE, tags)
    <3>1. f \in Work /\ f.stale = {}
      BY DEF Fresh, Work, Cols
    <3>2. meterRow[s] \in Row
      BY <2>1 DEF FleetInv, FleetTypeOK, Exists
    <3> HIDE DEF f
    <3>3. [f EXCEPT !.seen = meterRow[s], !.touched = touched]
            = [f EXCEPT !.seen = meterRow[s], !.touched = touched, !.stale = {}]
      BY <3>1, <3>2 DEF Work
    <3> QED
      BY <3>3 DEF f
  <2>4. ComputedId \in RowIds
    BY DEF RowIds
  <2> HIDE DEF add, del, w
  <2>5. Ready(WithTags(w, s, add, del, ComputedId))
    BY <2>1, <2>2, <2>3, <2>4, EditReady
  <2> QED
    BY <2>1, <2>5, PrepareKeeps
<1>4. ASSUME NEW r \in Offices, NEW s \in Serials, OpenPage(r, s) PROVE FleetInv'
  BY <1>4, OpenKeeps
<1>5. ASSUME NEW r \in Offices, NEW touched \in SUBSET Cols, NEW row \in Row,
             NEW tags \in SUBSET TagNames, PostPage(r, touched, row, tags)
      PROVE  FleetInv'
  <2> DEFINE page == work[r]
             s == page.meter
             stale == {col \in Cols :
                         \/ col = "code" /\ page.row.code # meterRow[s].code
                         \/ col = "state" /\ page.row.state # meterRow[s].state
                         \/ col = "tags" /\ page.tags # TagsOf(s)}
             w == [Fresh(s, row, FALSE, tags) EXCEPT
                     !.seen = meterRow[s], !.touched = touched \cup stale, !.stale = stale]
  <2>1. /\ page \in Page
        /\ "code" \notin touched => row.code = page.row.code
        /\ "state" \notin touched => row.state = page.row.state
        /\ Prepare(r, WithTags(w, s, tags \ TagsOf(s), TagsOf(s) \ tags, r))
    BY <1>5 DEF PostPage
  <2>2. s \in Serials /\ Exists(s)
    BY <2>1 DEF FleetInv, RowsExist
  <2>3. /\ touched \cup stale \in SUBSET Cols /\ stale \in SUBSET Cols
        /\ "code" \notin touched \cup stale => row.code = meterRow[s].code
        /\ "state" \notin touched \cup stale => row.state = meterRow[s].state
    BY <2>1 DEF Cols
  <2>4. /\ tags \ TagsOf(s) \in SUBSET TagNames /\ TagsOf(s) \ tags \in SUBSET TagNames
        /\ (tags \ TagsOf(s)) \cap (TagsOf(s) \ tags) = {}
        /\ (TagsOf(s) \ (TagsOf(s) \ tags)) \cup (tags \ TagsOf(s)) = tags
    BY DEF TagsOf
  <2>5. r \in RowIds
    BY DEF RowIds
  <2> HIDE DEF stale, s, page
  <2>6. Ready(WithTags(w, s, tags \ TagsOf(s), TagsOf(s) \ tags, r))
    BY <2>2, <2>3, <2>4, <2>5, EditReady
  <2> QED
    BY <2>1, <2>6, PrepareKeeps DEF page
<1>6. ASSUME NEW r \in Offices, CommitWork(r) PROVE FleetInv'
  BY <1>6, CommitWorkKeeps
<1>7. ASSUME NEW r \in Offices, AnnounceMeter(r) PROVE FleetInv'
  <2>1. work[r] \in Work /\ work[r].meter \in Serials
    BY <1>7, WorkFields DEF AnnounceMeter
  <2>2. /\ announced' = announced \cup {work[r].meter}
        /\ work' = [work EXCEPT ![r] = NoWork]
        /\ UNCHANGED <<meterRow, tagNames, present, active, requests, cut, loose, raced, crossing>>
    BY <1>7 DEF AnnounceMeter
  <2>3. announced' \subseteq Serials /\ cut \subseteq Serials
    BY <2>1, <2>2 DEF FleetInv, FleetTypeOK
  <2> QED
    BY <2>2, <2>3, EndKeeps
<1>8. ASSUME NEW r \in Offices, EndWork(r) PROVE FleetInv'
  <2>1. /\ cut' = cut \cup {s \in Serials : work[r] \in Work /\ work[r].stage = "announce" /\ work[r].meter = s}
        /\ work' = [work EXCEPT ![r] = NoWork]
        /\ UNCHANGED <<meterRow, tagNames, present, active, announced, requests, loose, raced, crossing>>
    BY <1>8 DEF EndWork
  <2>2. announced' \subseteq Serials /\ cut \subseteq Serials
    BY <2>1 DEF FleetInv, FleetTypeOK
  <2>3. cut \subseteq cut' /\ cut' \subseteq Serials
    BY <2>1, <2>2
  <2>4. work[r] \in Work => work[r].meter \in Serials
    BY WorkFields
  <2>5. work[r] \in Work /\ work[r].stage = "announce" => work[r].meter \in announced' \cup cut'
    BY <2>1, <2>4
  <2> QED
    BY <2>1, <2>2, <2>3, <2>5, EndKeeps
<1>9. ASSUME UNCHANGED fleetVars PROVE FleetInv'
  <2>1. /\ UNCHANGED <<meterRow, tagNames, present, active, announced, work, requests, cut, loose, raced, crossing>>
        /\ Writing' = Writing
    BY <1>9 DEF fleetVars, Writing
  <2>2. FleetTypeOK' /\ RowsExist' /\ OthersKept'
    BY <2>1 DEF FleetInv, FleetTypeOK, RowsExist, Exists, OthersKept, Column
  <2>3. CodesReady' /\ MappingReady'
    BY <2>1 DEF FleetInv, CodesReady, Owners, Exists, MappingReady, Single, RowsOf
  <2>4. TagsReady'
    <3>1. \A v : Wanted(v)' = Wanted(v)
      BY <2>1 DEF Wanted, Kept
    <3> QED
      BY <2>1, <3>1 DEF FleetInv, TagsReady
  <2>5. CreatedIsAnnounced' /\ CodesDistinct' /\ MappedOnce'
    BY <2>1 DEF FleetInv, CreatedIsAnnounced, CodesDistinct, MappedOnce, Owners, Exists, RowsOf
  <2> QED
    BY <2>2, <2>3, <2>4, <2>5 DEF FleetInv
<1> QED
  BY <1>1, <1>2, <1>3, <1>4, <1>5, <1>6, <1>7, <1>8, <1>9 DEF FleetNext

LEMMA FleetInvariant == FleetSpec => []FleetInv
BY FleetStart, FleetStep, PTL DEF FleetSpec

(* The rows of the registry, and what the requests are about to write,     *)
(* have their types.                                                       *)
THEOREM FleetTypeCorrect == FleetSpec => []FleetTypeOK
BY FleetInvariant, PTL DEF FleetInv

(* Every meter has its event, unless the web added it and was cut short.   *)
THEOREM CreationsAreAnnounced == FleetSpec => []CreatedIsAnnounced
BY FleetInvariant, PTL DEF FleetInv

(* The same code twice comes from a page or from overlapping requests.     *)
THEOREM CodesAreDistinct == FleetSpec => []CodesDistinct
BY FleetInvariant, PTL DEF FleetInv

(* Two rows for a tag of a meter come from overlapping requests.           *)
THEOREM TagsAreMappedOnce == FleetSpec => []MappedOnce
BY FleetInvariant, PTL DEF FleetInv

(* An edit of its tags gives a meter those that were asked for, unless     *)
(* another request wrote the meter in between.                             *)
THEOREM TagsComeAsAsked == FleetSpec => TagsAsAsked
<1>1. FleetInv /\ [FleetNext]_fleetVars =>
        [\A r \in Writing, s \in Serials :
           /\ CommitWork(r) /\ work[r].meter = s
           /\ r \notin crossing /\ "tags" \in work[r].touched
           => TagsOf(s)' = work[r].asked]_fleetVars
  <2> SUFFICES ASSUME FleetInv, NEW r \in Writing, NEW s \in Serials, CommitWork(r), work[r].meter = s,
                      r \notin crossing, "tags" \in work[r].touched
               PROVE  TagsOf(s)' = work[r].asked
    OBVIOUS
  <2>1. r \in Offices
    BY DEF Writing
  <2>2. \A t \in TagNames, i \in RowIds : <<s, t, i>> \in active' <=> Kept(work[r], t, i)
    BY <2>1, CommitWorkEffect
  <2>3. {t \in TagNames : \E i \in RowIds : <<s, t, i>> \in active'} = Wanted(work[r])
    BY <2>2 DEF Wanted
  <2>4. Wanted(work[r]) = work[r].asked
    BY DEF FleetInv, TagsReady
  <2> QED
    BY <2>3, <2>4 DEF TagsOf
<1> QED
  BY <1>1, FleetInvariant, PTL DEF FleetSpec, TagsAsAsked

(* A column that nobody touched survives the edits of the others.          *)
THEOREM OthersAreUntouched == FleetSpec => UntouchedKept
<1>1. FleetInv /\ [FleetNext]_fleetVars =>
        [\A s \in Serials : Exists(s) =>
           /\ meterRow'[s].code # meterRow[s].code =>
                \E r \in Writing : work[r].meter = s /\ "code" \in work[r].touched /\ r \notin Writing'
           /\ meterRow'[s].state # meterRow[s].state =>
                \E r \in Writing : work[r].meter = s /\ "state" \in work[r].touched /\ r \notin Writing'
        ]_fleetVars
  <2> SUFFICES ASSUME FleetInv, FleetNext, NEW s \in Serials, Exists(s), meterRow'[s] # meterRow[s]
               PROVE  /\ meterRow'[s].code # meterRow[s].code =>
                           \E r \in Writing : work[r].meter = s /\ "code" \in work[r].touched /\ r \notin Writing'
                      /\ meterRow'[s].state # meterRow[s].state =>
                           \E r \in Writing : work[r].meter = s /\ "state" \in work[r].touched /\ r \notin Writing'
    OBVIOUS
  <2>1. PICK r \in Offices : CommitWork(r)
    <3>1. ASSUME NEW r \in Offices, NEW u \in Serials, NEW row \in Row, NEW tags \in SUBSET TagNames,
                 AddApi(r, u, row, tags) \/ AddPage(r, u, row, tags)
                   \/ \E touched \in SUBSET Cols : EditMeterApi(r, u, touched, row, tags)
          PROVE  FALSE
      BY <3>1 DEF AddApi, AddPage, EditMeterApi, Prepare
    <3>2. ASSUME NEW r \in Offices, NEW touched \in SUBSET Cols, NEW row \in Row,
                 NEW tags \in SUBSET TagNames, PostPage(r, touched, row, tags)
          PROVE  FALSE
      BY <3>2 DEF PostPage, Prepare
    <3>3. ASSUME NEW r \in Offices, AnnounceMeter(r) \/ EndWork(r) \/ \E u \in Serials : OpenPage(r, u)
          PROVE  FALSE
      BY <3>3 DEF AnnounceMeter, EndWork, OpenPage
    <3> QED
      BY <3>1, <3>2, <3>3 DEF FleetNext
  <2>2. r \in Writing /\ work[r].meter \in Serials
    BY <2>1, CommitWorkEffect
  <2>3. work[r].meter = s
    BY <2>1, CommitWorkEffect
  <2>4. r \notin Writing'
    <3> DEFINE w == work[r]
               v == IF w.seen = NoMeter /\ ~w.api THEN [w EXCEPT !.stage = "announce"] ELSE NoWork
    <3>1. w \in Work
      BY <2>2 DEF Writing
    <3>2. v = NoWork \/ v.stage = "announce"
      BY <3>1 DEF Work
    <3>3. work'[r] = v
      BY <2>1 DEF CommitWork, FleetInv, FleetTypeOK
    <3> HIDE DEF v
    <3> QED
      BY <3>2, <3>3, FleetAssumption DEF Writing
  <2>5. meterRow'[s] = Written(work[r])
    BY <2>1, <2>2, <2>3 DEF CommitWork, FleetInv, FleetTypeOK
  <2> QED
    BY <2>2, <2>3, <2>4, <2>5, WrittenFrom
<1> QED
  BY <1>1, FleetInvariant, PTL DEF FleetSpec, UntouchedKept
=============================================================================
