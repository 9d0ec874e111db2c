----------------------------- MODULE Messages ------------------------------
(***************************************************************************)
(* Text messages.  Events lead to alerts, which wait in sms_message until  *)
(* the SMS gateway polls for them (GET sms/outgoing) and are marked by the *)
(* poll itself or by a later PUT sms/mark-delivered.  What customers send  *)
(* is posted by the gateway (POST sms/incoming), answered in the response, *)
(* and verifies the number of the customer.  Polls, posts and edits of a   *)
(* customer read rows, and write and commit later.  The gateway is         *)
(* external: it may repeat a post, and a response may be lost.             *)
(***************************************************************************)
EXTENDS SmsConfig

CONSTANTS
  Customers,     \* each with one meter
  Numbers,       \* phone numbers
  EventRows,     \* rows of event
  Posts,         \* external ids of what customers send
  Pollers, Receivers, Clerks,   \* requests: polls, posts, edits of customers
  MaxRequests,   \* bound on posts, edits and requests for verification
  NoNumber, NoCustomer

Message == [origin : {"alert", "system"}, of : EventRows \cup Customers, number : Numbers]

VARIABLES
  customer,     \* rows of customer
  waiting,      \* events not processed
  outbox,       \* outgoing messages that are not replies
  marked,       \* those that are processed
  poll, receipt, desk,          \* the requests under way
  inbox,        \* how many rows there are for an external id
  handed,       \* history: the messages the gateway got, ...
  again,        \* ... those it got more than once, ...
  lost,         \* ... those in a lost response that were marked
  shared,       \* history: handed out unmarked, or by polls that overlap
  doubled,      \* history: external ids posted again before the first commit
  vouched,      \* history: the numbers each customer has by API or sent from
  crossed,      \* history: customers whose row changed under a request, and
                \* whose number has not been set or vouched for since
  asked         \* bound: requests so far

phoneVars == <<customer, receipt, desk, inbox, doubled, vouched, crossed>>
sendVars  == <<waiting, outbox, marked, poll, handed, again, lost, shared>>
msgVars   == <<customer, waiting, outbox, marked, poll, receipt, desk, inbox, handed, again,
               lost, shared, doubled, vouched, crossed, asked, sheet, usedIds, editing, behind>>

CustomerRow == [number : Numbers \cup {NoNumber}, verified : BOOLEAN]
Poll    == [msgs : SUBSET Message, marking : BOOLEAN, done : BOOLEAN]
Receipt == [post : Posts, number : Numbers, by : Customers \cup {NoCustomer}, saw : BOOLEAN]
Change  == [of : Customers, saw : CustomerRow, row : CustomerRow, api : BOOLEAN]

ASSUME MessagesAssumption ==
  /\ NoNumber \notin Numbers /\ NoCustomer \notin Customers
  /\ Idle \notin Poll \cup Receipt \cup Change
  /\ MaxRequests \in Nat

MessagesTypeOK ==
  /\ customer \in [Customers -> CustomerRow]
  /\ waiting \subseteq EventRows
  /\ outbox \subseteq Message
  /\ marked \subseteq Message /\ handed \subseteq Message /\ again \subseteq Message
  /\ lost \subseteq Message /\ shared \subseteq Message
  /\ poll \in [Pollers -> Poll \cup {Idle}]
  /\ receipt \in [Receivers -> Receipt \cup {Idle}]
  /\ desk \in [Clerks -> Change \cup {Idle}]
  /\ inbox \in [Posts -> Nat]
  /\ doubled \subseteq Posts
  /\ vouched \in [Customers -> SUBSET Numbers]
  /\ crossed \subseteq Customers
  /\ asked \in 0..MaxRequests

MessagesInit ==
  /\ ConfigInit
  /\ customer \in [Customers -> [number : Numbers \cup {NoNumber}, verified : {FALSE}]]
  /\ waiting = EventRows
  /\ outbox = {} /\ marked = {} /\ handed = {} /\ again = {} /\ lost = {} /\ shared = {}
  /\ poll = [p \in Pollers |-> Idle]
  /\ receipt = [r \in Receivers |-> Idle]
  /\ desk = [d \in Clerks |-> Idle]
  /\ inbox = [i \in Posts |-> 0]
  /\ doubled = {} /\ crossed = {}
  /\ vouched = [c \in Customers |-> {}]
  /\ asked = 0

Ask == asked < MaxRequests /\ asked' = asked + 1

(* A message of the system of that type, which a reply or a request to     *)
(* verify a number needs.                                                  *)
CanReply(t) == sheet["messages"][t] # NoEntry

-----------------------------------------------------------------------------
(* Alerts.                                                                 *)

(* Event.process with maybe_create_alert, for an event of type t about the *)
(* customer c: no message without an active alert or without a number.     *)
ProcessEvent(ev, c, t) ==
  /\ ev \in waiting
  /\ waiting' = waiting \ {ev}
  /\ outbox' = outbox \cup
       IF IsActive("alerts", t) /\ customer[c].number # NoNumber
       THEN {[origin |-> "alert", of |-> ev, number |-> customer[c].number]} ELSE {}
  /\ UNCHANGED <<marked, poll, handed, again, lost, shared, asked, configVars, phoneVars>>

(* verify_phone_number: a message of the system, with no event.            *)
SendVerification(c) ==
  /\ customer[c].number # NoNumber /\ CanReply("verify-number")
  /\ Ask
  /\ outbox' = outbox \cup {[origin |-> "system", of |-> c, number |-> customer[c].number]}
  /\ UNCHANGED <<waiting, marked, poll, handed, again, lost, shared, configVars, phoneVars>>

(* SMSMessage.get_outgoing: only messages with an event are handed out.    *)
GetOutgoing == {m \in outbox \ marked : m.origin = "alert"}

(* sms_list_outgoing; where there is nothing the answer is 404.            *)
ReadOutgoing(p, marking) ==
  /\ poll[p] = Idle /\ GetOutgoing # {}
  /\ poll' = [poll EXCEPT ![p] = [msgs |-> GetOutgoing, marking |-> marking, done |-> ~marking]]
  /\ shared' = shared \cup
       {m \in GetOutgoing : \/ ~marking
                            \/ \E q \in Pollers : poll[q] # Idle /\ m \in poll[q].msgs}
  /\ UNCHANGED <<waiting, outbox, marked, handed, again, lost, asked, configVars, phoneVars>>

(* Its commit, if it marks what it hands out.                              *)
CommitPoll(p) ==
  /\ poll[p] # Idle /\ ~poll[p].done
  /\ marked' = marked \cup poll[p].msgs
  /\ poll' = [poll EXCEPT ![p].done = TRUE]
  /\ UNCHANGED <<waiting, outbox, handed, again, lost, shared, asked, configVars, phoneVars>>

AnswerPoll(p) ==
  /\ poll[p] # Idle /\ poll[p].done
  /\ handed' = handed \cup poll[p].msgs
  /\ again' = again \cup (handed \cap poll[p].msgs)
  /\ poll' = [poll EXCEPT ![p] = Idle]
  /\ UNCHANGED <<waiting, outbox, marked, lost, shared, asked, configVars, phoneVars>>

LoseAnswer(p) ==
  /\ poll[p] # Idle /\ poll[p].done
  /\ lost' = lost \cup {m \in poll[p].msgs : poll[p].marking}
  /\ poll' = [poll EXCEPT ![p] = Idle]
  /\ UNCHANGED <<waiting, outbox, marked, handed, again, shared, asked, configVars, phoneVars>>

(* A faulty sms_mark_delivered: get_outgoing without the ids.              *)
MarkDeliveredAll(ms) ==
  /\ marked' = marked \cup GetOutgoing
  /\ UNCHANGED <<waiting, outbox, poll, handed, again, lost, shared, asked, configVars, phoneVars>>

(* sms_mark_delivered, for some of the messages that the gateway has; one  *)
(* step, as what it reads only shrinks until it commits.                   *)
MarkDelivered(ms) ==
  /\ marked' = marked \cup (ms \cap GetOutgoing)
  /\ UNCHANGED <<waiting, outbox, poll, handed, again, lost, shared, asked, configVars, phoneVars>>

-----------------------------------------------------------------------------
(* Incoming messages.                                                      *)

(* get_by_external_id                                                      *)
Known(i) == inbox[i] > 0

(* sms_add_incoming up to the commit: an external id that is in the table  *)
(* is refused; without a command in the text, or a customer of the number, *)
(* the reply says so; else the customer (any one of the number) is to be   *)
(* verified.                                                               *)
ReceiveSms(r, i, number, code) ==
  LET owners == {c \in Customers : customer[c].number = number} IN
  /\ receipt[r] = Idle /\ ~Known(i) /\ Ask
  /\ \/ /\ \/ ~IsActive("commands", code) /\ CanReply("wrong-code")
           \/ IsActive("commands", code) /\ owners = {} /\ CanReply("no-such-number")
        /\ receipt' = [receipt EXCEPT ![r] =
                         [post |-> i, number |-> number, by |-> NoCustomer, saw |-> TRUE]]
     \/ /\ IsActive("commands", code)
        /\ \E c \in owners :
             receipt' = [receipt EXCEPT ![r] =
               [post |-> i, number |-> number, by |-> c, saw |-> customer[c].verified]]
  /\ doubled' = doubled \cup {j \in {i} : \E q \in Receivers : receipt[q] # Idle /\ receipt[q].post = i}
  /\ UNCHANGED <<customer, desk, inbox, vouched, crossed, configVars, sendVars>>

(* Its commit: the message, the reply, which is marked processed as it is  *)
(* in the response, and the customer if it was seen unverified.            *)
CommitSms(r) ==
  LET x == receipt[r] IN
  /\ x # Idle
  /\ inbox' = [inbox EXCEPT ![x.post] = @ + 1]
  /\ customer' = [c \in Customers |-> IF c = x.by /\ ~x.saw
                                      THEN [customer[c] EXCEPT !.verified = TRUE] ELSE customer[c]]
  /\ vouched' = [c \in Customers |-> IF c = x.by THEN vouched[c] \cup {x.number} ELSE vouched[c]]
  /\ crossed' = IF x.by \in Customers
                THEN IF customer[x.by] = [number |-> x.number, verified |-> x.saw]
                     THEN crossed \ {x.by} ELSE crossed \cup {x.by}
                ELSE crossed
  /\ receipt' = [receipt EXCEPT ![r] = Idle]
  /\ UNCHANGED <<desk, doubled, asked, configVars, sendVars>>

-----------------------------------------------------------------------------
(* Edits of a customer.                                                    *)

(* A faulty form, which keeps the mark whatever the number.                *)
FormRowMarked(row, number) == [number |-> number, verified |-> row.verified]

(* BaseMeterForm.save: another number is not verified; where none is given *)
(* it goes, and the mark stays.                                            *)
FormRow(row, number) ==
  [number |-> number,
   verified |-> row.verified /\ (number = NoNumber \/ number = row.number)]

EditForm(d, c, number) ==
  /\ desk[d] = Idle /\ Ask
  /\ desk' = [desk EXCEPT ![d] = [of |-> c, saw |-> customer[c],
                                  row |-> FormRow(customer[c], number), api |-> FALSE]]
  /\ UNCHANGED <<customer, receipt, inbox, doubled, vouched, crossed, configVars, sendVars>>

(* customer_edit of the API takes the number to be verified.               *)
EditApi(d, c, number) ==
  /\ desk[d] = Idle /\ number # NoNumber /\ Ask
  /\ desk' = [desk EXCEPT ![d] = [of |-> c, saw |-> customer[c],
                                  row |-> [number |-> number, verified |-> TRUE], api |-> TRUE]]
  /\ UNCHANGED <<customer, receipt, inbox, doubled, vouched, crossed, configVars, sendVars>>

(* The commit writes the fields that the session changed from what it saw, *)
(* and so does meter_view_dml.                                             *)
CommitEdit(d) ==
  LET x == desk[d] IN
  /\ x # Idle
  /\ customer' = [customer EXCEPT ![x.of] =
       [number   |-> IF x.row.number # x.saw.number THEN x.row.number ELSE @.number,
        verified |-> IF x.row.verified # x.saw.verified THEN x.row.verified ELSE @.verified]]
  /\ vouched' = [vouched EXCEPT ![x.of] = @ \cup {n \in {x.row.number} : x.api}]
  /\ crossed' = IF customer[x.of] # x.saw THEN crossed \cup {x.of}
                ELSE IF x.api \/ x.row.number # x.saw.number THEN crossed \ {x.of} ELSE crossed
  /\ desk' = [desk EXCEPT ![d] = Idle]
  /\ UNCHANGED <<receipt, inbox, doubled, asked, configVars, sendVars>>

-----------------------------------------------------------------------------
AlertsNext ==
  \/ \E ev \in EventRows, c \in Customers, t \in EventTypes : ProcessEvent(ev, c, t)
  \/ \E c \in Customers : SendVerification(c)
  \/ \E p \in Pollers : \/ \E marking \in BOOLEAN : ReadOutgoing(p, marking)
                        \/ CommitPoll(p)
                        \/ AnswerPoll(p)
                        \/ LoseAnswer(p)
  \/ \E ms \in SUBSET handed : MarkDelivered(ms)

PhonesNext ==
  \/ \E r \in Receivers : \/ \E i \in Posts, n \in Numbers, code \in Codes : ReceiveSms(r, i, n, code)
                          \/ CommitSms(r)
  \/ \E d \in Clerks : \/ \E c \in Customers, n \in Numbers \cup {NoNumber} :
                            EditForm(d, c, n) \/ EditApi(d, c, n)
                       \/ CommitEdit(d)

MessagesNext ==
  \/ AlertsNext
  \/ PhonesNext
  \/ EditConfig /\ UNCHANGED <<asked, phoneVars, sendVars>>

MessagesSpec == MessagesInit /\ [][MessagesNext]_msgVars

-----------------------------------------------------------------------------
(* A message is marked delivered only once the gateway has it, or a poll   *)
(* that marks has it in its response, which may be lost: however polls and *)
(* confirmations overlap, no alert is taken off the queue otherwise.       *)
MarkedIsHandedOver ==
  \A m \in marked : \/ m \in handed \cup lost
                    \/ \E p \in Pollers : poll[p] # Idle /\ m \in poll[p].msgs /\ poll[p].marking

(* The gateway gets a message twice only if it had it unmarked before, or  *)
(* two polls were reading at the same time.                                *)
HandedOutOnce == again \subseteq shared

(* An incoming message is stored once, however often the gateway posts it, *)
(* unless it posts it again before the first is committed: then there are  *)
(* two rows with its external id.                                          *)
StoredOnce == \A i \in Posts : inbox[i] > 1 => i \in doubled

(* A number that is verified was given by API, or a command came from it   *)
(* while it was the customer's: any active command, which is what the code *)
(* does, and not only CHECK, as the comment of the column has it.  An edit *)
(* and an incoming message, or two edits, that cross may leave the new     *)
(* number with the mark of the old, until the next request for the         *)
(* customer that crosses none sets the number or hears from it.            *)
VerifiedIsVouched ==
  \A c \in Customers :
    customer[c].verified /\ customer[c].number # NoNumber =>
      customer[c].number \in vouched[c] \/ c \in crossed

=============================================================================
