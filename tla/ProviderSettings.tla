-------------------------- MODULE ProviderSettings --------------------------
(***************************************************************************)
(* The settings of the meter drivers: the list of providers, one JSON text *)
(* in a row of the database, and a config file for each provider, outside  *)
(* of it.  Requests are served by threads: one that registers or edits a   *)
(* provider reads the driver's contract, the list and the file, writes the *)
(* file, and commits the list; one that edits the config file writes it,   *)
(* initialises the driver, and writes it again with the outcome.  No lock  *)
(* is held: a file is emptied when it is opened for writing, and has its   *)
(* text when it is closed, which is a step of its own.                     *)
(*                                                                         *)
(* The drivers are external: they have a contract, which an upgrade may    *)
(* change, and the configuration that they were last initialised with.     *)
(* What the files say of the last init, and of the provider itself, is     *)
(* shown to the operator and read by nothing: it is left out.              *)
(***************************************************************************)
EXTENDS DriverContract, SequencesExt

CONSTANTS
  Drivers,
  Contracts,      \* the contracts that a driver may have
  FirstContract,
  Threads,
  MaxIds, MaxRequests, MaxTroubles, MaxUpgrades   \* bounds

ASSUME SettingsAssumption ==
  /\ Contracts \subseteq Contract /\ FirstContract \in Contracts
  /\ {MaxIds, MaxRequests, MaxTroubles, MaxUpgrades} \subseteq Nat

VARIABLES
  saved,      \* the committed list of providers
  files,      \* their config files
  issued,     \* how many provider ids have been made
  requests,   \* per thread: the request it serves
  contract, configured,   \* of each driver
  intended,   \* history: per id, the values the operator last saved
  gap,        \* history: per id, why its file or driver may not be as asked:
              \*   "unsettled"  the driver awaits its next init: the provider or
              \*       file was edited, an init failed, or the driver was since
              \*       initialised for another provider
              \*   "stale"  the values in the file may not be those last saved:
              \*       a save that had read older ones or an older text was
              \*       written over them, two writes overlapped, a write was
              \*       cut short, or the file was swept away; until the
              \*       operator saves the file again, while nobody writes it
              \*   "lost"  the fields of the file may not be those of the record:
              \*       it was swept away, filled in on a page opened before
              \*       they changed, written back after a newer one, or
              \*       written by two at once
              \*   "torn"  file and saved record come from different requests
  count, troubles, upgrades

settings == <<saved, files, issued, requests, intended>>
drivers  == <<contract, configured>>
bounds   == <<count, troubles, upgrades>>
settingsVars == <<settings, drivers, gap, bounds>>

Ids == 1..MaxIds

Provider ==
  [id : Ids, driver : Drivers, interface : Interfaces,
   target : {None, "grpc", "url"}, enabled : BOOLEAN]

IdsOf(list) == {list[i].id : i \in DOMAIN list}

RecordOf(list, x) == CHOOSE p \in ToSet(list) : p.id = x

(* The provider in use: the first that is enabled, else the first.         *)
Enabled(list) ==
  LET on == {i \in DOMAIN list : list[i].enabled}
  IN  IF list = <<>> THEN None ELSE IF on # {} THEN list[Min(on)] ELSE Head(list)

Put(list, p) ==
  IF p.id \in IdsOf(list)
  THEN [i \in DOMAIN list |-> IF list[i].id = p.id THEN p ELSE list[i]]
  ELSE Append(list, p)

Waiting == [at |-> "idle"]

(* A provider registered earlier, whose config is filled in.           *)
Registered(p) ==
  /\ p.id = 1 /\ p.interface \in InterfacesOf(FirstContract)
  /\ Choosable(FirstContract, p.interface)
  /\ p.target = TargetOf(FirstContract, p.interface)

SettingsInit ==
  /\ \/ saved = <<>> /\ issued = 0 /\ files = [x \in Ids |-> None]
        /\ intended = [x \in Ids |-> Empty.values]
     \/ \E p \in Provider, file \in File :
          /\ Registered(p) /\ saved = <<p>> /\ issued = 1
          /\ file.required = FirstContract.required
          /\ file.optional = FirstContract.described \ file.required
          /\ \A f \in file.required : file.values[f] \in Good
          /\ \A f \in file.optional : file.values[f] # "wrong"
          /\ \A f \in Fields \ Listed(file) : file.values[f] = "blank"
          /\ files = [x \in Ids |-> IF x = 1 THEN file ELSE None]
          /\ intended = [x \in Ids |-> IF x = 1 THEN file.values ELSE Empty.values]
  /\ requests = [t \in Threads |-> Waiting]
  /\ contract = [d \in Drivers |-> FirstContract]
  /\ configured = [d \in Drivers |-> None]
  /\ gap = [x \in Ids |-> IF x = 1 THEN {"unsettled"} ELSE {}]
  /\ count = 0 /\ troubles = 0 /\ upgrades = 0

Counted == count < MaxRequests /\ count' = count + 1 /\ UNCHANGED <<troubles, upgrades>>
Uncounted == UNCHANGED bounds
Trouble == troubles < MaxTroubles /\ troubles' = troubles + 1 /\ UNCHANGED <<count, upgrades>>

Goes(t, r) == requests' = [requests EXCEPT ![t] = r]

-----------------------------------------------------------------------------
(* Writing a file.  A request that writes one holds it alone, or shared    *)
(* with others, or the file has been swept away from under it.             *)

Holds(t, x) ==
  /\ requests[t].at \in {"saving", "posting", "closing"}
  /\ requests[t].rec.id = x /\ requests[t].hold # "swept"

Shared(t, x) == \E u \in Threads \ {t} : Holds(u, x)

HoldOn(t, x) == IF Shared(t, x) THEN "shared" ELSE "alone"

Overlap(t, x) == IF Shared(t, x) THEN {"stale", "lost"} ELSE {}

(* Request t goes on as r, and what the others hold of xs they now hold    *)
(* otherwise.                                                              *)
Takes(t, r, xs, hold) ==
  requests' = [u \in Threads |->
    IF u = t THEN r
    ELSE IF \E x \in xs : Holds(u, x) THEN [requests[u] EXCEPT !.hold = hold] ELSE requests[u]]

(* The file is opened, and with that emptied.                              *)
Open(t, r) ==
  /\ files' = [files EXCEPT ![r.rec.id] = Unreadable]
  /\ Takes(t, r, {r.rec.id}, "shared")

(* What is in the file when r has written its text and closed it.          *)
Closed(r) ==
  CASE r.hold = "alone" -> {r.text}
    [] r.hold = "shared" -> {r.text, Unreadable}
    [] r.hold = "swept" -> {files[r.rec.id]}

-----------------------------------------------------------------------------
(* Registering and editing a provider.                                     *)

(* The form is valid: the contract can be used, with this interface.       *)
Submit(t, x, d, i, e) ==
  /\ requests[t] = Waiting /\ Counted
  /\ \/ x \in IdsOf(saved) /\ issued' = issued
     \/ x = issued + 1 /\ issued' = x
  /\ Registrable(contract[d]) /\ i \in InterfacesOf(contract[d])
  /\ Choosable(contract[d], i)
  /\ Goes(t, [at |-> "submitted", id |-> x, driver |-> d, interface |-> i, enabled |-> e])
  /\ UNCHANGED <<saved, files, intended, drivers, gap>>

(* The save asks for the contract a second time, then reads the list.      *)
Fetch(t) ==
  LET r == requests[t]
      c == contract[r.driver]
      i == Selected(c, r.interface)
  IN  /\ r.at = "submitted" /\ Registrable(c) /\ Choosable(c, r.interface)
      /\ Goes(t, [at |-> "fetched", read |-> saved, contract |-> c,
                  rec |-> [id |-> r.id, driver |-> r.driver, interface |-> i,
                           target |-> TargetOf(c, i), enabled |-> r.enabled]])
      /\ Uncounted
      /\ UNCHANGED <<saved, files, issued, intended, drivers, gap>>

(* The contract has become unusable, or the driver does not answer.        *)
FetchFails(t) ==
  LET r == requests[t]
      c == contract[r.driver]
  IN  /\ r.at = "submitted" /\ Goes(t, Waiting)
      /\ \/ ~(Registrable(c) /\ Choosable(c, r.interface)) /\ Uncounted
         \/ Trouble
      /\ UNCHANGED <<saved, files, issued, intended, drivers, gap>>

(* The values in the file are read.                                        *)
Load(t) ==
  LET r == requests[t]
  IN  /\ r.at = "fetched"
      /\ Goes(t, [at |-> "loaded", read |-> r.read, contract |-> r.contract, rec |-> r.rec,
                  old |-> files[r.rec.id]])
      /\ Uncounted /\ UNCHANGED <<saved, files, issued, intended, drivers, gap>>

(* A save that overlaps no other write and has read what it writes over    *)
(* keeps the values, but for the fields that are no longer asked for.      *)
Save(t) ==
  LET r == requests[t]
      x == r.rec.id
      file == Refreshed(r.contract, r.old)
  IN  /\ r.at = "loaded"
      /\ Open(t, [at |-> "saving", read |-> r.read, contract |-> r.contract, rec |-> r.rec,
                  text |-> file, hold |-> HoldOn(t, x)])
      /\ gap' = [gap EXCEPT ![x] = @ \cup Overlap(t, x)
                                      \cup (IF files[x] = r.old THEN {} ELSE {"stale"})]
      /\ intended' = [intended EXCEPT ![x] =
           [f \in Fields |-> IF f \in Listed(file) THEN @[f] ELSE "blank"]]
      /\ Uncounted /\ UNCHANGED <<saved, issued, drivers>>

(* Then the files of providers not in the list are removed, also from      *)
(* under a request that writes one, and the list is given to the session,  *)
(* which ignores it if it is the one that was read.                        *)
Saved(t) ==
  LET r == requests[t]
      x == r.rec.id
      list == Put(r.read, r.rec)
      orphans == Ids \ IdsOf(list)
  IN  /\ r.at = "saving"
      /\ \E file \in Closed(r) :
           files' = [y \in Ids |-> IF y = x THEN file ELSE IF y \in orphans THEN None ELSE files[y]]
      /\ gap' = [y \in Ids |->
           gap[y] \cup (IF y = x THEN {"unsettled"} ELSE {})
                  \cup (IF y = x /\ list = r.read /\ r.rec \notin ToSet(saved) THEN {"torn"} ELSE {})
                  \cup (IF y \in orphans /\ files[y] # None THEN {"stale", "lost"} ELSE {})]
      /\ Takes(t, IF list = r.read THEN Waiting
                  ELSE [at |-> "written", read |-> r.read, contract |-> r.contract, rec |-> r.rec],
               orphans, "swept")
      /\ Uncounted /\ UNCHANGED <<saved, issued, intended, drivers>>

(* Are the fields of the file of x, or those of the text that is written   *)
(* to it, still those of contract c?                                       *)
StillFor(x, c) ==
  /\ files[x] # None
  /\ \A file \in {files[x]} \cup {requests[u].text : u \in {v \in Threads : Holds(v, x)}} :
       Readable(file) => file.required = c.required /\ Listed(file) = c.required \cup c.described

(* What other requests committed since the list was read is overwritten,   *)
(* and the file may by now be that of another request.                     *)
Commit(t) ==
  LET r == requests[t]
      list == Put(r.read, r.rec)
      reverted == {p.id : p \in ToSet(list) \ (ToSet(saved) \cup {r.rec})}
  IN  /\ r.at = "written"
      /\ saved' = list
      /\ gap' = [x \in Ids |->
           gap[x] \cup (IF x = r.rec.id THEN {"unsettled"} ELSE {})
                  \cup (IF x \in reverted \/ (x = r.rec.id /\ ~StillFor(x, r.contract))
                        THEN {"torn"} ELSE {})]
      /\ Goes(t, Waiting) /\ Uncounted
      /\ UNCHANGED <<files, issued, intended, drivers>>

(* The list is not committed; the file stays as it was written.            *)
CommitFails(t) ==
  LET r == requests[t]
  IN  /\ r.at = "written" /\ Trouble
      /\ gap' = [gap EXCEPT ![r.rec.id] = @ \cup {"torn"}]
      /\ Goes(t, Waiting)
      /\ UNCHANGED <<saved, files, issued, intended, drivers>>

-----------------------------------------------------------------------------
(* Editing the config file, which initialises the driver.                  *)

(* The page shows the file as it is; one that cannot be parsed is refused  *)
(* when it is sent.                                                        *)
OpenPage(t, x) ==
  /\ requests[t] = Waiting /\ Counted /\ x \in IdsOf(saved) /\ files[x] # Unreadable
  /\ Goes(t, [at |-> "page", id |-> x, text |-> IF files[x] = None THEN Empty ELSE files[x]])
  /\ UNCHANGED <<saved, files, issued, intended, drivers, gap>>

(* Has the file of x the fields of this text?                              *)
SameFields(x, text) ==
  LET current == IF files[x] = None THEN Empty ELSE files[x]
  IN  files[x] # Unreadable /\ <<text.required, text.optional>> = <<current.required, current.optional>>

(* The operator fills in the values and sends the whole text, which is     *)
(* written if it is valid.                                                 *)
Post(t, values) ==
  LET r == requests[t]
      x == r.id
      file == [r.text EXCEPT !.values = values]
  IN  /\ r.at = "page" /\ x \in IdsOf(saved)
      /\ Uncounted /\ UNCHANGED <<saved, issued, drivers>>
      /\ IF Valid(file)
         THEN /\ Open(t, [at |-> "posting", rec |-> RecordOf(saved, x), text |-> file,
                          hold |-> HoldOn(t, x)])
              /\ intended' = [intended EXCEPT ![x] = values]
              /\ gap' = [gap EXCEPT ![x] = (@ \ {"stale"}) \cup Overlap(t, x)
                           \cup (IF SameFields(x, file) THEN {} ELSE {"lost"})]
         ELSE Goes(t, Waiting) /\ UNCHANGED <<files, intended, gap>>

Posted(t) ==
  LET r == requests[t]
  IN  /\ r.at = "posting"
      /\ \E file \in Closed(r) : files' = [files EXCEPT ![r.rec.id] = file]
      /\ gap' = [gap EXCEPT ![r.rec.id] = @ \cup {"unsettled"}]
      /\ Goes(t, [at |-> "posted", rec |-> r.rec, text |-> r.text])
      /\ Uncounted /\ UNCHANGED <<saved, issued, intended, drivers>>

(* What an init for the provider rec does to the reasons: it settles what  *)
(* kept rec from its driver, if rec is saved as it was then, and unsettles *)
(* all others with the same driver.                                        *)
AfterInit(g, rec) ==
  [y \in Ids |->
     IF y = rec.id /\ rec \in ToSet(saved) THEN g[y] \ {"unsettled"}
     ELSE IF \E p \in ToSet(saved) : p.id = y /\ p.driver = rec.driver
          THEN g[y] \cup {"unsettled"} ELSE g[y]]

(* The file has changed since it was posted: text and file differ now.     *)
Replaced(r) ==
  IF files[r.rec.id] = r.text THEN gap
  ELSE [gap EXCEPT ![r.rec.id] = @ \cup {"lost"}]

(* The init of the driver: the target is needed for gRPC only.             *)
InitDriver(t) ==
  LET r == requests[t]
      body == Body(r.text)
      d == r.rec.driver
      accepted == Accepted(r.rec.interface, body)
  IN  /\ r.at = "posted"
      /\ UNCHANGED <<saved, files, issued, intended, contract>>
      /\ \/ /\ accepted /\ Uncounted
            /\ configured' = [configured EXCEPT ![d] = Sent(r.rec.interface, body)]
            /\ gap' = AfterInit(Replaced(r), r.rec)
            /\ Goes(t, [r EXCEPT !.at = "accepted"])
         \/ /\ IF accepted THEN Trouble ELSE Uncounted
            /\ gap' = [gap EXCEPT ![r.rec.id] = @ \cup {"unsettled"}]
            /\ Goes(t, [r EXCEPT !.at = "refused"])
            /\ UNCHANGED configured

(* The text as it was posted is written again, with the outcome.           *)
WriteBack(t) ==
  LET r == requests[t]
      x == r.rec.id
  IN  /\ r.at \in {"accepted", "refused"}
      /\ Open(t, [at |-> "closing", rec |-> r.rec, text |-> r.text, ok |-> r.at = "accepted",
                  hold |-> HoldOn(t, x)])
      /\ gap' = [gap EXCEPT ![x] = @ \cup Overlap(t, x)
                                      \cup (IF files[x] = r.text THEN {} ELSE {"stale", "lost"})]
      /\ Uncounted /\ UNCHANGED <<saved, issued, intended, drivers>>

WrittenBack(t) ==
  LET r == requests[t]
  IN  /\ r.at = "closing"
      /\ \E file \in Closed(r) : files' = [files EXCEPT ![r.rec.id] = file]
      /\ Goes(t, Waiting)
      /\ Uncounted /\ UNCHANGED <<saved, issued, intended, drivers, gap>>

-----------------------------------------------------------------------------

Upgrade(d, c) ==
  /\ upgrades < MaxUpgrades /\ upgrades' = upgrades + 1
  /\ c # contract[d] /\ contract' = [contract EXCEPT ![d] = c]
  /\ UNCHANGED <<settings, configured, gap, count, troubles>>

(* Every request but the last step of the config page, which also          *)
(* activates the runtime.                                                  *)
SettingsNext ==
  \/ \E t \in Threads :
       \/ \E x \in Ids, d \in Drivers, i \in Interfaces, e \in BOOLEAN : Submit(t, x, d, i, e)
       \/ \E x \in Ids : OpenPage(t, x)
       \/ \E values \in [Fields -> Texts] : Post(t, values)
       \/ Fetch(t) \/ FetchFails(t) \/ Load(t) \/ Save(t) \/ Saved(t) \/ Commit(t) \/ CommitFails(t)
       \/ Posted(t) \/ InitDriver(t) \/ WriteBack(t)
  \/ \E d \in Drivers, c \in Contracts : Upgrade(d, c)

-----------------------------------------------------------------------------

(* What is asked of x is excused for one of the reasons.                   *)
Excused(x, reasons) == gap[x] \cap reasons # {}

(* A request has written the file of x, and its record is yet to come.     *)
Writing(x) == \E t \in Threads : requests[t].at = "written" /\ requests[t].rec.id = x

(* A saved provider has its config file, and in it the values that the     *)
(* operator last saved for the fields it lists, but while a request writes *)
(* the file: through saves that read it and write it over later, posts,    *)
(* write-backs and sweeps of several requests, and a crash inside any of   *)
(* them, unless they meet so that the values are lost (stale); then the    *)
(* next post that meets no other write mends it (save_provider_settings,   *)
(* save_provider_config_text and init_provider_from_payload).              *)
ConfigKept ==
  \A x \in IdsOf(saved) :
    \/ Excused(x, {"stale"})
    \/ \E t \in Threads : Holds(t, x)
    \/ /\ Readable(files[x])
       /\ \A f \in Listed(files[x]) : files[x].values[f] = intended[x][f]

(* Between requests, the driver of a saved provider was last initialised   *)
(* with what a valid file says, as the interface chosen for it sends it,   *)
(* unless the driver awaits its next init or the file is not the one that  *)
(* belongs to the record; and the file always has what gRPC cannot do      *)
(* without, if that was chosen (check_grpc_selection).                     *)
DriverFollowsConfig ==
  \A p \in ToSet(saved) :
    LET x == p.id
    IN  \/ Writing(x) \/ Excused(x, {"lost", "torn"})
        \/ ~Initialisable(files[x])
        \/ /\ Accepted(p.interface, Body(files[x]))
           /\ \/ Excused(x, {"unsettled"})
              \/ configured[p.driver] = Sent(p.interface, Body(files[x]))

=============================================================================
