------------------------------ MODULE MCOffice ------------------------------
(***************************************************************************)
(* Messages (with SmsConfig) and Fleet on one small instance.  The two     *)
(* share no variable.  Each behaviour is about one matter: two edits of    *)
(* the configuration, the queue of alerts beside one that edits them,      *)
(* phones, or meters.  What it is not about stays as it was at the start.  *)
(***************************************************************************)
EXTENDS Messages, Fleet, FiniteSets, TLC

(* In JSON capital letters come first.                                     *)
KeyRank ==
  [k \in Keys |-> CASE k = "BAL" -> 1
                    [] k = "CHECK" -> 2
                    [] k = "customer-low-balance" -> 3
                    [] k = "no-such-number" -> 4
                    [] k = "verify-number" -> 5
                    [] k = "wrong-code" -> 6]

VARIABLE matter   \* what this behaviour is about

CONSTANT c1, e1   \* the customer with a number, and the edit, beside the queue

officeVars == <<msgVars, fleetVars, matter>>

OfficeInit ==
  /\ MessagesInit /\ FleetInit
  /\ matter \in {"configuration", "queue", "phones", "meters"}
  /\ \A col, other \in Columns, k, l \in Keys :   \* ids differ; which is whose is all one
       sheet[col][k] # NoEntry /\ sheet[other][l] # NoEntry /\ KeyRank[k] < KeyRank[l] =>
         sheet[col][k].id < sheet[other][l].id
  /\ usedIds = 1..Cardinality(usedIds)
  /\ matter \in {"configuration", "meters"} => \A c \in Customers : customer[c].number = NoNumber
  /\ matter = "queue" => \A c \in Customers : (customer[c].number # NoNumber) = (c = c1)
  /\ matter # "meters" => tagNames = {}

OfficeNext ==
  /\ UNCHANGED matter
  /\ \/ /\ matter = "meters"
        /\ FleetNext /\ UNCHANGED msgVars
     \/ /\ UNCHANGED fleetVars
        /\ \/ matter = "queue" /\ AlertsNext
           \/ matter = "phones" /\ PhonesNext
           \/ /\ matter \in {"configuration", "queue"}
              /\ EditConfig /\ UNCHANGED <<asked, phoneVars, sendVars>>
              /\ \A e \in Editors : editing'[e] # Idle =>
                   IF matter = "queue" THEN e = e1 /\ editing'[e].col = "alerts"
                                       ELSE e = e1 \/ editing'[e].col = "commands"

OfficeSpec == OfficeInit /\ [][OfficeNext]_officeVars

Symmetric ==
  Permutations(Receivers) \cup Permutations(Clerks) \cup Permutations(Serials) \cup Permutations(Offices)
=============================================================================
