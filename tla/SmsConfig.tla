----------------------------- MODULE SmsConfig -----------------------------
(***************************************************************************)
(* The row of sms_config and the requests that edit it: commands that      *)
(* customers send, alerts that events lead to, and messages of the system, *)
(* a column of JSON each, indexed by code, event type and message type.    *)
(* A request reads the row, changes a column as it read it, and writes the *)
(* whole column.                                                           *)
(*                                                                         *)
(* SMSConfig.update names its loop variable as its parameter, so what it   *)
(* assigns in the end is not the column it was asked to update but the     *)
(* attribute named after the last key (Assigned); the column itself is     *)
(* changed in place.                                                       *)
(***************************************************************************)
EXTENDS Naturals

CONSTANTS
  Codes, EventTypes, MessageTypes,   \* the keys of the three columns
  DefaultCodes,   \* the commands that every installation has (CHECK)
  Rank,        \* their order in the JSON, which is written with sorted keys
  EntryIds,    \* uuids of entries
  Editors,     \* requests that edit
  NoEntry, Idle

Columns == {"commands", "alerts", "messages"}
Keys    == Codes \cup EventTypes \cup MessageTypes

KeysOf(col) ==
  CASE col = "commands" -> Codes
    [] col = "alerts"   -> EventTypes
    [] col = "messages" -> MessageTypes

Entry   == [id : EntryIds, active : BOOLEAN]
Entries == [Keys -> Entry \cup {NoEntry}]

ASSUME SmsConfigAssumption ==
  /\ DefaultCodes \subseteq Codes
  /\ Rank \in [Keys -> Nat]
  /\ \A k, l \in Keys : Rank[k] = Rank[l] => k = l
  /\ NoEntry \notin Entry \cup Columns

VARIABLES
  sheet,      \* the row of sms_config
  usedIds,    \* the uuids drawn
  editing,    \* what a request is about to write
  behind      \* history: the requests whose column was written since they read it

configVars == <<sheet, usedIds, editing, behind>>

Edit == [col : Columns, key : Keys, entry : Entry, column : Entries, last : Keys \cup {NoEntry}]

ConfigTypeOK ==
  /\ sheet \in [Columns -> Entries]
  /\ usedIds \subseteq EntryIds
  /\ editing \in [Editors -> Edit \cup {Idle}]
  /\ behind \subseteq Editors

(* create_default_sms_objects: an entry for every default command and for  *)
(* every message of the system.                                            *)
Installed == [commands |-> DefaultCodes, alerts |-> {}, messages |-> MessageTypes]

ConfigInit ==
  /\ \E ids \in [DefaultCodes \cup MessageTypes -> EntryIds] :
       /\ \A t, u \in DefaultCodes \cup MessageTypes : ids[t] = ids[u] => t = u
       /\ sheet = [col \in Columns |-> [k \in Keys |->
                     IF k \in Installed[col] THEN [id |-> ids[k], active |-> TRUE] ELSE NoEntry]]
       /\ usedIds = {ids[t] : t \in DefaultCodes \cup MessageTypes}
  /\ editing = [e \in Editors |-> Idle]
  /\ behind = {}

IsActive(col, k) == sheet[col][k] # NoEntry /\ sheet[col][k].active

(* A faulty update: the key it had stays when an entry gets another.       *)
UpdatedTwice(entries, key, entry) ==
  [k \in Keys |-> IF k = key THEN entry ELSE entries[k]]

(* A faulty update: entries with an id go, whatever the id.                *)
UpdatedAlone(entries, key, entry) ==
  [k \in Keys |-> IF k = key THEN entry ELSE NoEntry]

(* SMSConfig.update: what had the id goes, the key has the new values.     *)
Updated(entries, key, entry) ==
  [k \in Keys |-> IF k = key THEN entry
                  ELSE IF entries[k] # NoEntry /\ entries[k].id = entry.id THEN NoEntry
                  ELSE entries[k]]

(* The key that the loop of SMSConfig.update ends with, if it runs.        *)
LastKeys(entries) ==
  LET present == {k \in Keys : entries[k] # NoEntry} IN
  IF present = {} THEN {NoEntry} ELSE {k \in present : \A l \in present : Rank[l] <= Rank[k]}

Submit(e, col, key, entry) ==
  /\ editing[e] = Idle
  /\ \E last \in LastKeys(sheet[col]) :
       editing' = [editing EXCEPT ![e] = [col |-> col, key |-> key, entry |-> entry,
                     column |-> Updated(sheet[col], key, entry), last |-> last]]
  /\ behind' = behind \ {e}
  /\ UNCHANGED sheet

(* object_create: the entry of that key, deleted or not, or a new one.     *)
CreateEntry(e, col, key) ==
  /\ col \in {"commands", "alerts"} /\ key \in KeysOf(col)
  /\ \/ /\ sheet[col][key] = NoEntry
        /\ \E id \in EntryIds \ usedIds :
             /\ Submit(e, col, key, [id |-> id, active |-> TRUE])
             /\ usedIds' = usedIds \cup {id}
     \/ /\ sheet[col][key] # NoEntry
        /\ Submit(e, col, key, [sheet[col][key] EXCEPT !.active = TRUE])
        /\ UNCHANGED usedIds

(* object_update: under any key, be it that of another entry.              *)
UpdateEntry(e, col, old, key) ==
  /\ key \in KeysOf(col) /\ IsActive(col, old)
  /\ Submit(e, col, key, sheet[col][old])
  /\ UNCHANGED usedIds

(* object_delete                                                           *)
DeleteEntry(e, col, key) ==
  /\ col \in {"commands", "alerts"} /\ IsActive(col, key)
  /\ Submit(e, col, key, [sheet[col][key] EXCEPT !.active = FALSE])
  /\ UNCHANGED usedIds

(* The attribute that setattr sets: the column itself where there were no  *)
(* entries, else the one of that name, if it is a column.                  *)
Assigned(edit) == IF edit.last = NoEntry THEN edit.col ELSE edit.last

(* The commit: the columns that changed are written whole.                 *)
SaveEntry(e) ==
  /\ editing[e] # Idle
  /\ sheet' = [col \in Columns |-> IF col \in {editing[e].col, Assigned(editing[e])}
                                   THEN editing[e].column ELSE sheet[col]]
  /\ editing' = [editing EXCEPT ![e] = Idle]
  /\ behind' = behind \cup {f \in Editors : /\ editing[f] # Idle /\ f # e
                                            /\ sheet'[editing[f].col] # sheet[editing[f].col]}
  /\ UNCHANGED usedIds

EditConfig ==
  \/ \E e \in Editors, col \in Columns, key \in Keys :
       \/ CreateEntry(e, col, key)
       \/ DeleteEntry(e, col, key)
       \/ \E old \in Keys : UpdateEntry(e, col, old, key)
  \/ \E e \in Editors : SaveEntry(e)

ConfigSpec == ConfigInit /\ [][EditConfig]_configVars

-----------------------------------------------------------------------------
(* Entries are found by their id (get_by_id), which they keep when they    *)
(* are given another key: no column has an id twice, whatever requests     *)
(* overlap, or an edit would change one entry and delete another.          *)
OneEntryPerId ==
  \A col \in Columns, k, l \in Keys :
    (sheet[col][k] # NoEntry /\ sheet[col][l] # NoEntry /\ sheet[col][k].id = sheet[col][l].id)
      => k = l

(* What an edit changes is the entry it is about, and the one whose key it *)
(* takes; every other entry of the row is left as it is, unless the column *)
(* was written by somebody else since the request read it.                 *)
OnlyEditedChanges ==
  [][\A col \in Columns, k \in Keys : sheet'[col][k] # sheet[col][k] =>
       \E e \in Editors :
         /\ editing[e] # Idle /\ editing'[e] = Idle /\ editing[e].col = col
         /\ \/ e \in behind
            \/ k = editing[e].key
            \/ sheet[col][k] # NoEntry /\ sheet[col][k].id = editing[e].entry.id]_configVars
=============================================================================
