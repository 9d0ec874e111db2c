---------------------------- MODULE DriverProofs ----------------------------
(***************************************************************************)
(* Proofs about DriverRuntime and the modules it is made of, for any       *)
(* drivers, contracts, requests, runtimes and activations:                 *)
(*                                                                         *)
(*   ChosenGrpcIsAccepted, ChosenGrpcHasTarget     of check_grpc_selection *)
(*   TypeCorrect     Spec => []TypeOK                                      *)
(*   ConfigStays     Spec => []ConfigKept                                  *)
(*   DriverIsTold    Spec => []DriverFollowsConfig                         *)
(*   RuntimeIsAsked  Spec => []RuntimeFollowsSettings                      *)
(*   OneConsumes     Spec => []OneConsumer                                 *)
(*                                                                         *)
(* None of them is inductive.  A file keeps what the operator saved, and   *)
(* is there, also for a request about to save a list with its provider,    *)
(* while whoever writes it holds it alone with the right text (KeptInv,    *)
(* HeldInv).  What the file lists is enough for gRPC but while a request   *)
(* is between writing it and saving the record (SuitedInv), and the driver *)
(* has been told what the file says, or what is being written to it        *)
(* (ToldInv).  Two runtimes never have tasks because the one that an       *)
(* activation has cancelled gets none until the activation is over         *)
(* (Cancelled).  The current runtime is that of the provider which an      *)
(* activation last found enabled once none is shutting one down            *)
(* (FollowInv).  DriverInv puts these together.                            *)
(***************************************************************************)
EXTENDS DriverRuntime, SequenceTheorems, Sums

-----------------------------------------------------------------------------
(* What the check of a gRPC selection is for.                              *)

(* What may be found where a file should be.                               *)
Old == File \cup {None, Unreadable}

(* What a registration writes lists just the fields of the contract, and a *)
(* value only of those.                                                    *)
LEMMA RefreshedLists ==
  ASSUME NEW c \in Contract, NEW old \in Old
  PROVE  /\ Refreshed(c, old).required = c.required
         /\ Listed(Refreshed(c, old)) = c.required \cup c.described
         /\ \A f \in Fields : f \notin Listed(Refreshed(c, old))
                                => Refreshed(c, old).values[f] = "blank"
<1>1. Refreshed(c, old).required = c.required
  BY DEF Refreshed
<1>2. Listed(Refreshed(c, old)) = c.required \cup c.described
  BY DEF Listed, Refreshed
<1>3. ASSUME NEW f \in Fields, f \notin c.required \cup c.described
      PROVE  Refreshed(c, old).values[f] = "blank"
  BY <1>3 DEF Refreshed
<1> QED BY <1>1, <1>2, <1>3

(* A driver that passed check_grpc_selection, with a config that the page  *)
(* accepts, is never refused for a missing field by the gRPC client,       *)
(* whatever values the operator fills in.                                  *)
THEOREM ChosenGrpcIsAccepted ==
  ASSUME NEW c \in Contract, NEW i \in Interfaces, NEW old \in Old,
         NEW values \in [Fields -> Texts],
         Choosable(c, i),
         Valid([Refreshed(c, old) EXCEPT !.values = values])
  PROVE  Accepted(i, Body([Refreshed(c, old) EXCEPT !.values = values]))
<1> DEFINE file == [Refreshed(c, old) EXCEPT !.values = values]
<1> SUFFICES ASSUME i = "grpc", NEW f \in GrpcFields
             PROVE  f \in DOMAIN Body(file)
  BY DEF Accepted
<1>1. f \in c.required
  BY DEF Choosable, GrpcUsable
<1>2. file.required = c.required /\ file.values = values
  BY DEF Refreshed
<1>3. file.values[f] # "blank"
  BY <1>1, <1>2 DEF Valid
<1>4. f \in Listed(file)
  BY <1>1, <1>2 DEF Listed
<1> QED BY <1>3, <1>4 DEF Body

(* Nor does its client lack a target, as long as the driver offers what it *)
(* offered, or cannot be asked (build_command_client).                     *)
THEOREM ChosenGrpcHasTarget ==
  ASSUME NEW c \in Contract, NEW seen \in BOOLEAN, Choosable(c, "grpc"), None # "grpc"
  PROVE  TargetInUse("grpc", TargetOf(c, "grpc"), c, seen) = "grpc"
<1>1. TargetOf(c, "grpc") = "grpc"
  BY DEF Choosable, GrpcUsable, TargetOf
<1>2. Selected(c, "grpc") = "grpc"
  BY DEF Choosable, GrpcUsable, Selected, InterfacesOf
<1> QED BY <1>1, <1>2 DEF TargetInUse

-----------------------------------------------------------------------------
(* The types of the settings.                                              *)

(* A provider whose target is one that its interface can use.              *)
Usable(p) == p.target = IF p.interface = "http" THEN "url" ELSE "grpc"

Sound == {p \in Provider : Usable(p)}

Lists == {list \in Seq(Sound) : \A i, j \in DOMAIN list : list[i].id = list[j].id => i = j}

(* What the contract of a provider lists is enough for its interface.      *)
Suits(p, required) == p.interface = "grpc" => GrpcFields \subseteq required

Hold == {"alone", "shared", "swept"}

Submitted ==
  [at : {"submitted"}, id : Ids, driver : Drivers, interface : Interfaces, enabled : BOOLEAN]
Fetched ==
  {r \in [at : {"fetched", "written"}, read : Lists, contract : Contract, rec : Sound] :
     Suits(r.rec, r.contract.required)}
Loaded ==
  {r \in [at : {"loaded"}, read : Lists, contract : Contract, rec : Sound, old : Old] :
     Suits(r.rec, r.contract.required)}
Saving ==
  {r \in [at : {"saving"}, read : Lists, contract : Contract, rec : Sound, text : File,
          hold : Hold] :
     Suits(r.rec, r.contract.required) /\ r.text.required = r.contract.required}
Viewing == [at : {"page"}, id : Ids, text : File]
Filled == [at : {"posted", "accepted", "refused"}, rec : Sound, text : File]
Posting == [at : {"posting"}, rec : Sound, text : File, hold : Hold]
Closing == [at : {"closing"}, rec : Sound, text : File, ok : BOOLEAN, hold : Hold]

Request ==
  {Waiting} \cup Submitted \cup Fetched \cup Loaded \cup Saving \cup Viewing \cup Filled
    \cup Posting \cup Closing

Reasons == {"unsettled", "stale", "lost", "torn"}

SettingsOK ==
  /\ saved \in Lists /\ files \in [Ids -> Old]
  /\ issued \in 0..MaxIds /\ requests \in [Threads -> Request]
  /\ intended \in [Ids -> [Fields -> Texts]]
  /\ contract \in [Drivers -> Contracts]
  /\ configured = [d \in Drivers |-> configured[d]]
  /\ gap \in [Ids -> SUBSET Reasons]

(* A request that writes a file, or has had the file it wrote swept away.  *)
Writers == {"saving", "posting", "closing"}

(* What a request holds at each of its steps.                              *)
LEMMA RequestAt ==
  ASSUME NEW r \in Request
  PROVE  /\ r.at = "submitted" => r \in Submitted
         /\ r.at \in {"fetched", "written"} => r \in Fetched
         /\ r.at = "loaded" => r \in Loaded
         /\ r.at = "saving" => r \in Saving
         /\ r.at = "page" => r \in Viewing
         /\ r.at \in {"posted", "accepted", "refused"} => r \in Filled
         /\ r.at = "posting" => r \in Posting
         /\ r.at = "closing" => r \in Closing
BY DEF Request, Waiting, Submitted, Fetched, Loaded, Saving, Viewing, Filled, Posting, Closing

(* What is common to those that write.                                     *)
LEMMA WriterAt ==
  ASSUME NEW r \in Request, r.at \in Writers
  PROVE  /\ r.rec \in Sound /\ r.rec.id \in Ids /\ r.text \in File /\ r.hold \in Hold
         /\ \A h \in Hold : LET s == [r EXCEPT !.hold = h]
                            IN  /\ s \in Request /\ s.at = r.at /\ s.rec = r.rec
                                /\ s.text = r.text /\ s.hold = h
                                /\ r.at = "saving" => /\ s.read = r.read
                                                      /\ s.contract = r.contract
                                /\ r.at = "closing" => s.ok = r.ok
<1>1. CASE r.at = "saving"
  BY <1>1, RequestAt DEF Saving, Request, Sound, Provider
<1>2. CASE r.at = "posting"
  BY <1>2, RequestAt DEF Posting, Request, Sound, Provider
<1>3. CASE r.at = "closing"
  BY <1>3, RequestAt DEF Closing, Request, Sound, Provider
<1> QED BY <1>1, <1>2, <1>3 DEF Writers

LEMMA FilesAreFiles ==
  /\ Empty \in File /\ None \notin File /\ Unreadable \notin File /\ None # Unreadable
  /\ \A file \in Old : Readable(file) <=> file \in File
  /\ \A c \in Contract, old \in Old : Refreshed(c, old) \in File
  /\ \A file \in File, values \in [Fields -> Texts] :
       [file EXCEPT !.values = values] \in File
<1>1. Empty \in File
  BY DEF Empty, File, Texts
<1>2. /\ None \notin File /\ Unreadable \notin File /\ None # Unreadable
      /\ \A file \in Old : Readable(file) <=> file \in File
  BY FileAssumption DEF Readable, Old
<1>3. ASSUME NEW c \in Contract, NEW old \in Old
      PROVE  Refreshed(c, old) \in File
  <2> DEFINE v == [f \in Fields |-> IF f \in c.required \cup c.described /\ Readable(old)
                                    THEN old.values[f] ELSE "blank"]
  <2>1. v \in [Fields -> Texts]
    BY <1>2, <1>3 DEF File, Texts
  <2>2. c.required \subseteq Fields /\ c.described \subseteq Fields
    BY <1>3 DEF Contract
  <2>3. Refreshed(c, old) =
          [required |-> c.required, optional |-> c.described \ c.required, values |-> v]
    BY DEF Refreshed
  <2> HIDE DEF v
  <2> QED BY <2>1, <2>2, <2>3 DEF File
<1>4. \A file \in File, values \in [Fields -> Texts] :
        [file EXCEPT !.values = values] \in File
  BY DEF File
<1> QED BY <1>1, <1>2, <1>3, <1>4

(* Putting a provider in a list.                                           *)
LEMMA PutSound ==
  ASSUME NEW list \in Lists, NEW p \in Sound
  PROVE  /\ Put(list, p) \in Lists /\ p \in ToSet(Put(list, p))
         /\ Put(list, p) # <<>>
         /\ \A q \in ToSet(Put(list, p)) : q = p \/ (q \in ToSet(list) /\ q.id # p.id)
         /\ IdsOf(Put(list, p)) = IdsOf(list) \cup {p.id}
<1>1. list \in Seq(Sound)
  BY DEF Lists
<1>2. CASE p.id \in IdsOf(list)
  <2> DEFINE new == [i \in DOMAIN list |-> IF list[i].id = p.id THEN p ELSE list[i]]
  <2>1. Put(list, p) = new
    BY <1>2 DEF Put
  <2>2. new \in Seq(Sound) /\ DOMAIN new = DOMAIN list
    BY <1>1
  <2>3. PICK k \in DOMAIN list : list[k].id = p.id
    BY <1>2 DEF IdsOf
  <2>4. \A i \in DOMAIN list : new[i].id = list[i].id
    OBVIOUS
  <2>5. \A i, j \in DOMAIN new : new[i].id = new[j].id => i = j
    BY <2>2, <2>4 DEF Lists
  <2>6. new[k] = p
    BY <2>3
  <2>7. \A i \in DOMAIN list : new[i] = p \/ (new[i] = list[i] /\ list[i].id # p.id)
    OBVIOUS
  <2>8. new # <<>>
    BY <2>2, <2>3
  <2> HIDE DEF new
  <2>9. IdsOf(new) = IdsOf(list)
    BY <2>2, <2>4 DEF IdsOf
  <2>10. p.id \in IdsOf(list)
    BY <1>2
  <2> QED
    BY <2>1, <2>2, <2>3, <2>5, <2>6, <2>7, <2>8, <2>9, <2>10 DEF Lists, ToSet
<1>3. CASE p.id \notin IdsOf(list)
  <2> DEFINE new == Append(list, p)
             n == Len(list)
  <2>1. Put(list, p) = new
    BY <1>3 DEF Put
  <2>2. /\ new \in Seq(Sound) /\ new # <<>> /\ Len(new) = n + 1 /\ n \in Nat
        /\ \A i \in 1..n : new[i] = list[i]
        /\ new[n + 1] = p
    BY <1>1, AppendProperties, LenProperties
  <2>3. DOMAIN new = 1..(n + 1) /\ DOMAIN list = 1..n
    BY <1>1, <2>2, LenProperties
  <2>4. \A i \in 1..n : list[i].id # p.id
    BY <1>3, <2>3 DEF IdsOf
  <2> HIDE DEF new, n
  <2>5. \A i \in DOMAIN new : i = n + 1 \/ i \in 1..n
    BY <2>2, <2>3
  <2>6. \A i, j \in DOMAIN new : new[i].id = new[j].id => i = j
    BY <2>2, <2>3, <2>4, <2>5 DEF Lists
  <2>7. n + 1 \in DOMAIN new /\ \A i \in 1..n : i \in DOMAIN new
    BY <2>2, <2>3
  <2>8. IdsOf(new) = IdsOf(list) \cup {p.id}
    BY <2>2, <2>3, <2>5, <2>7 DEF IdsOf
  <2>9. \A q \in ToSet(new) : q = p \/ (q \in ToSet(list) /\ q.id # p.id)
    BY <2>2, <2>3, <2>4, <2>5 DEF ToSet
  <2>10. p \in ToSet(new)
    BY <2>2, <2>7 DEF ToSet
  <2> QED BY <2>1, <2>2, <2>6, <2>8, <2>9, <2>10 DEF Lists
<1> QED BY <1>2, <1>3

(* The provider in use is one of the list, if there is one.                *)
LEMMA EnabledIsSaved ==
  ASSUME NEW list \in Lists
  PROVE  IF list = <<>> THEN Enabled(list) = None
         ELSE Enabled(list) \in ToSet(list) /\ Enabled(list) \in Sound
<1> DEFINE on == {i \in DOMAIN list : list[i].enabled}
<1>1. list \in Seq(Sound) /\ DOMAIN list = 1..Len(list) /\ Len(list) \in Nat
  BY LenProperties DEF Lists
<1>2. CASE list = <<>>
  BY <1>2 DEF Enabled
<1>3. CASE list # <<>> /\ on = {}
  <2>1. 1 \in DOMAIN list
    BY <1>1, <1>3, EmptySeq
  <2>2. Head(list) = list[1]
    BY <1>1, <1>3
  <2>3. Enabled(list) = list[1]
    BY <1>3, <2>2 DEF Enabled
  <2> QED BY <1>1, <1>3, <2>1, <2>3 DEF ToSet
<1>4. CASE list # <<>> /\ on # {}
  <2>1. on \in SUBSET Nat
    BY <1>1
  <2>2. \E n \in on : \A m \in on : n <= m
    BY <1>4, <2>1, SmallestNumber
  <2>3. Min(on) \in on
    BY <2>2 DEF Min
  <2>4. Enabled(list) = list[Min(on)]
    BY <1>4 DEF Enabled
  <2>5. PICK k \in DOMAIN list : Enabled(list) = list[k]
    BY <2>3, <2>4
  <2>6. list[k] \in Sound /\ list[k] \in ToSet(list)
    BY <1>1 DEF ToSet
  <2> QED BY <1>4, <2>5, <2>6
<1> QED BY <1>2, <1>3, <1>4

(* The record of a saved provider.                                         *)
LEMMA RecordIsSaved ==
  ASSUME NEW list \in Lists, NEW x \in IdsOf(list)
  PROVE  /\ RecordOf(list, x) \in ToSet(list) /\ RecordOf(list, x) \in Sound
         /\ RecordOf(list, x).id = x
<1>1. \E p \in ToSet(list) : p.id = x
  BY DEF IdsOf, ToSet
<1>2. RecordOf(list, x) \in ToSet(list) /\ RecordOf(list, x).id = x
  BY <1>1 DEF RecordOf
<1>3. \A p \in ToSet(list) : p \in Sound
  BY DEF Lists, ToSet
<1> QED BY <1>2, <1>3

(* Ids tell the providers of a list apart.                                 *)
LEMMA IdsDiffer ==
  ASSUME NEW list \in Lists
  PROVE  /\ \A p, q \in ToSet(list) : p.id = q.id => p = q
         /\ \A p \in ToSet(list) : p \in Sound /\ p \in Provider /\ p.id \in IdsOf(list)
         /\ IdsOf(list) \subseteq Ids
         /\ \A x \in IdsOf(list) : \E p \in ToSet(list) : p.id = x
<1>1. list \in Seq(Sound)
  BY DEF Lists
<1>2. \A i \in DOMAIN list : list[i] \in Sound
  BY <1>1
<1>3. \A p \in Sound : p \in Provider /\ p.id \in Ids
  BY DEF Sound, Provider
<1> QED BY <1>2, <1>3 DEF Lists, ToSet, IdsOf

(* An interface that the check let pass is the one that is used, and has a *)
(* target.                                                                 *)
LEMMA ChoiceStands ==
  ASSUME NEW c \in Contract, NEW i \in Interfaces, Choosable(c, i)
  PROVE  /\ Selected(c, i) = i
         /\ TargetOf(c, i) = IF i = "http" THEN "url" ELSE "grpc"
         /\ i = "grpc" => GrpcFields \subseteq c.required
<1>1. CASE i = "http"
  BY <1>1 DEF Selected, InterfacesOf, TargetOf
<1>2. CASE i = "grpc"
  BY <1>2 DEF Selected, InterfacesOf, TargetOf, Choosable, GrpcUsable
<1> QED BY <1>1, <1>2 DEF Interfaces

LEMMA SettingsBegin ==
  ASSUME SettingsInit
  PROVE  SettingsOK
<1> USE SettingsAssumption
<1>1. Empty.values \in [Fields -> Texts]
  BY FilesAreFiles DEF File
<1>2. /\ requests \in [Threads -> Request] /\ contract \in [Drivers -> Contracts]
      /\ configured = [d \in Drivers |-> configured[d]]
      /\ gap \in [Ids -> SUBSET Reasons]
  BY DEF SettingsInit, Request, Reasons
<1>3. CASE /\ saved = <<>> /\ issued = 0 /\ files = [x \in Ids |-> None]
           /\ intended = [x \in Ids |-> Empty.values]
  <2>1. <<>> \in Lists
    BY DEF Lists
  <2>2. issued \in 0..MaxIds
    BY <1>3
  <2> QED BY <1>1, <1>2, <1>3, <2>1, <2>2 DEF SettingsOK, Old
<1>4. ASSUME NEW p \in Provider, NEW file \in File, Registered(p), saved = <<p>>, issued = 1,
             files = [x \in Ids |-> IF x = 1 THEN file ELSE None],
             intended = [x \in Ids |-> IF x = 1 THEN file.values ELSE Empty.values]
      PROVE  SettingsOK
  <2>1. p \in Sound
    <3>1. FirstContract \in Contract /\ p.interface \in Interfaces
      BY DEF Provider
    <3> QED BY <1>4, <3>1, ChoiceStands DEF Registered, Sound, Usable
  <2>2. <<p>> \in Lists
    BY <2>1 DEF Lists
  <2>3. issued \in 0..MaxIds
    <3>1. p.id = 1 /\ p.id \in Ids
      BY <1>4 DEF Registered, Provider
    <3> QED BY <1>4, <3>1 DEF Ids
  <2>4. file.values \in [Fields -> Texts]
    BY DEF File
  <2>5. intended \in [Ids -> [Fields -> Texts]] /\ files \in [Ids -> Old]
    BY <1>1, <1>4, <2>4 DEF Old
  <2> QED BY <1>2, <1>4, <2>2, <2>3, <2>5 DEF SettingsOK
<1> QED BY <1>3, <1>4 DEF SettingsInit

-----------------------------------------------------------------------------
(* The settings keep their types.  What their invariants are about:        *)

told == <<saved, files, issued, requests, intended, contract, configured, gap>>

(* The steps that change the settings.                                     *)
SettingsStep ==
  \/ \E t \in Threads :
       \/ \E x \in Ids, d \in Drivers, i \in Interfaces, e \in BOOLEAN : Submit(t, x, d, i, e)
       \/ \E x \in Ids : OpenPage(t, x)
       \/ \E values \in [Fields -> Texts] : Post(t, values)
       \/ Fetch(t) \/ FetchFails(t) \/ Load(t) \/ Save(t) \/ Saved(t) \/ Commit(t) \/ CommitFails(t)
       \/ Posted(t) \/ InitDriver(t) \/ WriteBack(t) \/ WrittenBack(t)
  \/ \E d \in Drivers, c \in Contracts : Upgrade(d, c)
  \/ Start \/ (\E i \in Ids : ~serving /\ StartStops(i)) \/ Restarted \/ Crash
  \/ UNCHANGED told

LEMMA EveryStepIsSettingsStep ==
  ASSUME [Next]_vars
  PROVE  SettingsStep
<1> USE DEF told, settings, drivers, bounds, settingsVars
<1>1. CASE UNCHANGED vars
  BY <1>1 DEF vars, SettingsStep
<1>2. CASE SettingsNext
  BY <1>2 DEF SettingsNext, SettingsStep
<1>3. ASSUME NEW t \in Threads, Finish(t)
      PROVE  SettingsStep
  BY <1>3 DEF Finish, SettingsStep
<1>4. ASSUME NEW a \in Activations,
             Begin(a) \/ Close(a) \/ Clear(a) \/ Reconciled(a) \/ ReconcileFails(a)
      PROVE  SettingsStep
  BY <1>4 DEF Begin, Close, Clear, Reconciled, ReconcileFails, SettingsStep
<1>5. CASE Start \/ Restarted \/ Crash
  BY <1>5 DEF SettingsStep
<1>6. ASSUME NEW i \in Ids, StartStops(i)
      PROVE  SettingsStep
  BY <1>6 DEF StartStops, SettingsStep
<1> QED BY <1>1, <1>2, <1>3, <1>4, <1>5, <1>6 DEF Next

LEMMA GoesTyped ==
  ASSUME requests \in [Threads -> Request], NEW t \in Threads, NEW r \in Request, Goes(t, r)
  PROVE  /\ requests' \in [Threads -> Request]
         /\ requests'[t] = r /\ \A u \in Threads \ {t} : requests'[u] = requests[u]
BY DEF Goes

(* Another request is as it was, but for how it holds its file.            *)
Same(u) ==
  /\ requests'[u].at = requests[u].at
  /\ requests[u].at \in Writers => /\ requests'[u].rec = requests[u].rec
                                   /\ requests'[u].text = requests[u].text
  /\ requests[u].at = "saving" => /\ requests'[u].read = requests[u].read
                                  /\ requests'[u].contract = requests[u].contract
  /\ requests[u].at \notin Writers => requests'[u] = requests[u]

LEMMA TakesTyped ==
  ASSUME requests \in [Threads -> Request], NEW t \in Threads, NEW r \in Request,
         NEW xs, NEW hold \in Hold, Takes(t, r, xs, hold)
  PROVE  /\ requests' \in [Threads -> Request] /\ requests'[t] = r
         /\ \A u \in Threads \ {t} :
              /\ Same(u)
              /\ IF \E x \in xs : Holds(u, x) THEN requests'[u].hold = hold
                 ELSE requests'[u] = requests[u]
<1>1. ASSUME NEW u \in Threads
      PROVE  /\ requests'[u] \in Request
             /\ u # t => /\ Same(u)
                         /\ IF \E x \in xs : Holds(u, x) THEN requests'[u].hold = hold
                            ELSE requests'[u] = requests[u]
  <2>1. requests'[u] = IF u = t THEN r
                       ELSE IF \E x \in xs : Holds(u, x) THEN [requests[u] EXCEPT !.hold = hold]
                       ELSE requests[u]
    BY DEF Takes
  <2>2. CASE u = t
    BY <2>1, <2>2
  <2>3. CASE u # t /\ \E x \in xs : Holds(u, x)
    <3>1. requests[u].at \in Writers
      BY <2>3 DEF Holds, Writers
    <3>2. PICK s : s = [requests[u] EXCEPT !.hold = hold]
      OBVIOUS
    <3>3. /\ s \in Request /\ s.at = requests[u].at /\ s.rec = requests[u].rec
          /\ s.text = requests[u].text /\ s.hold = hold
          /\ requests[u].at = "saving" => /\ s.read = requests[u].read
                                          /\ s.contract = requests[u].contract
      BY <3>1, <3>2, WriterAt
    <3>4. requests'[u] = s
      BY <2>1, <2>3, <3>2
    <3> QED BY <2>3, <3>1, <3>3, <3>4 DEF Same
  <2>4. CASE u # t /\ ~\E x \in xs : Holds(u, x)
    BY <2>1, <2>4 DEF Same
  <2> QED BY <2>2, <2>3, <2>4
<1>2. requests' = [u \in Threads |-> requests'[u]]
  BY DEF Takes
<1>3. requests'[t] = r
  BY DEF Takes
<1> QED BY <1>1, <1>2, <1>3

LEMMA WaitingIsRequest == Waiting \in Request /\ Waiting.at = "idle"
BY DEF Request, Waiting

-----------------------------------------------------------------------------
(* What the steps do that open a file, and those that close it.            *)

(* Request t opens the file of y for its text.                             *)
Opened(t, y) ==
  /\ requests[t].at \in {"loaded", "page", "accepted", "refused"}
  /\ requests'[t].at \in Writers /\ requests'[t].rec.id = y /\ y \in Ids
  /\ requests'[t].hold = HoldOn(t, y)
  /\ \A u \in Threads \ {t} :
       /\ Same(u)
       /\ IF Holds(u, y) THEN requests'[u].hold = "shared" ELSE requests'[u] = requests[u]
  /\ files' = [files EXCEPT ![y] = Unreadable]
  /\ gap[y] \ {"stale"} \subseteq gap'[y]
  /\ Shared(t, y) => {"stale", "lost"} \subseteq gap'[y]
  /\ \A x \in Ids \ {y} : gap'[x] = gap[x] /\ intended'[x] = intended[x]
  /\ UNCHANGED <<saved, contract, configured>>

(* Request t has written its text and closes the file; files are swept.    *)
Filling(t) ==
  LET r == requests[t]
  IN  /\ r.at \in Writers /\ requests'[t].at \notin Writers
      /\ files'[r.rec.id] \in Closed(r)
      /\ \A u \in Threads \ {t} :
           Same(u) /\ (requests'[u] = requests[u] \/ requests'[u].hold = "swept")
      /\ \A x \in Ids \ {r.rec.id} :
           /\ \/ files'[x] = files[x]
                 /\ \A u \in Threads \ {t} : Holds(u, x) => requests'[u] = requests[u]
              \/ files'[x] = None /\ (files[x] # None => {"stale", "lost"} \subseteq gap'[x])
                 /\ \A u \in Threads \ {t} : ~Holds(u, x)'
      /\ \A u \in Threads \ {t} : Holds(u, r.rec.id) => requests'[u] = requests[u]
      /\ \A x \in Ids : gap[x] \subseteq gap'[x]
      /\ UNCHANGED <<saved, intended, contract, configured>>

(* Any other step: only a crash, or a failed start, touches the files.     *)
Elsewhere ==
  /\ intended' = intended
  /\ \A x \in Ids : gap[x] \ {"unsettled"} \subseteq gap'[x]
  /\ \A u \in Threads :
       \/ requests'[u] = requests[u]
       \/ requests[u].at \notin Writers /\ requests'[u].at \notin Writers
       \/ requests' = [v \in Threads |-> Waiting] /\ \A x \in Ids : Holds(u, x) => "stale" \in gap'[x]
  /\ \A x \in Ids :
       \/ files'[x] = files[x]
       \/ /\ files'[x] = Unreadable /\ "stale" \in gap'[x] /\ files[x] # None
          /\ ~serving /\ requests' = requests

LEMMA SaveOpens ==
  ASSUME SettingsOK, NEW t \in Threads, Save(t)
  PROVE  /\ Opened(t, requests[t].rec.id) /\ SettingsOK' /\ requests[t] \in Loaded
         /\ requests'[t].text = Refreshed(requests[t].contract, requests[t].old)
         /\ requests'[t].at = "saving" /\ requests'[t].read = requests[t].read
         /\ requests'[t].rec = requests[t].rec
         /\ gap[requests[t].rec.id] \subseteq gap'[requests[t].rec.id]
         /\ files[requests[t].rec.id] = requests[t].old \/ "stale" \in gap'[requests[t].rec.id]
         /\ intended'[requests[t].rec.id] =
              [f \in Fields |-> IF f \in Listed(requests'[t].text)
                                THEN intended[requests[t].rec.id][f] ELSE "blank"]
<1> USE DEF drivers
<1> DEFINE r == requests[t]
           x == r.rec.id
           file == Refreshed(r.contract, r.old)
           s == [at |-> "saving", read |-> r.read, contract |-> r.contract, rec |-> r.rec,
                 text |-> file, hold |-> HoldOn(t, x)]
<1>1. r \in Loaded /\ r.at = "loaded"
  BY RequestAt DEF Save, SettingsOK
<1>2. x \in Ids /\ r.contract \in Contract /\ r.old \in Old
  BY <1>1 DEF Loaded, Sound, Provider
<1>3. file \in File /\ file.required = r.contract.required
  BY <1>2, FilesAreFiles, RefreshedLists
<1>4. HoldOn(t, x) \in Hold
  BY DEF HoldOn, Hold
<1>5. s \in Request /\ s.at \in Writers /\ s.text = file /\ s.at = "saving" /\ s.read = r.read
      /\ s.rec = r.rec
  <2> HIDE DEF file
  <2>1. s \in Saving
    BY <1>1, <1>3, <1>4 DEF Loaded, Saving
  <2> QED BY <2>1 DEF Request, Writers
<1>6. Open(t, s)
  BY DEF Save
<1> HIDE DEF file
<1>7. /\ files' = [files EXCEPT ![x] = Unreadable]
      /\ Takes(t, s, {x}, "shared")
  BY <1>6 DEF Open
<1>8. s.at \in Writers /\ s.rec.id = x /\ s.hold = HoldOn(t, x)
  BY <1>5
<1> HIDE DEF s
<1>9. /\ requests' \in [Threads -> Request] /\ requests'[t] = s
      /\ \A u \in Threads \ {t} :
           /\ Same(u)
           /\ IF Holds(u, x) THEN requests'[u].hold = "shared" ELSE requests'[u] = requests[u]
  BY <1>5, <1>7, TakesTyped DEF Hold, SettingsOK
<1>10. gap' = [gap EXCEPT ![x] = @ \cup Overlap(t, x)
                                   \cup (IF files[x] = r.old THEN {} ELSE {"stale"})]
  BY DEF Save
<1>11. Overlap(t, x) \subseteq Reasons /\ (Shared(t, x) => Overlap(t, x) = {"stale", "lost"})
  BY DEF Overlap, Reasons
<1>12. /\ gap' \in [Ids -> SUBSET Reasons] /\ gap[x] \subseteq gap'[x]
       /\ Shared(t, x) => {"stale", "lost"} \subseteq gap'[x]
       /\ \A y \in Ids \ {x} : gap'[y] = gap[y]
       /\ files[x] = r.old \/ "stale" \in gap'[x]
  BY <1>2, <1>10, <1>11 DEF SettingsOK, Reasons
<1>13. PICK L : L = Listed(file)
  OBVIOUS
<1>14. intended' = [intended EXCEPT ![x] = [f \in Fields |-> IF f \in L THEN @[f] ELSE "blank"]]
  BY <1>13 DEF Save, file
<1>15. /\ intended' \in [Ids -> [Fields -> Texts]]
       /\ \A y \in Ids \ {x} : intended'[y] = intended[y]
       /\ intended'[x] = [f \in Fields |-> IF f \in L THEN intended[x][f] ELSE "blank"]
  BY <1>2, <1>14 DEF SettingsOK, Texts
<1>16. UNCHANGED <<saved, issued, contract, configured>>
  BY DEF Save
<1>17. files' \in [Ids -> Old]
  BY <1>2, <1>7 DEF SettingsOK, Old
<1>18. Opened(t, x)
  BY <1>1, <1>2, <1>7, <1>8, <1>9, <1>12, <1>15, <1>16 DEF Opened
<1>19. SettingsOK'
  BY <1>9, <1>12, <1>15, <1>16, <1>17 DEF SettingsOK
<1>20. /\ requests'[t].text = file /\ requests'[t].at = "saving" /\ requests'[t].read = r.read
       /\ requests'[t].rec = r.rec
  BY <1>5, <1>9
<1> QED BY <1>1, <1>12, <1>13, <1>15, <1>18, <1>19, <1>20 DEF file

(* A page that is sent is refused, or opens the file.                      *)
LEMMA PostOpens ==
  ASSUME SettingsOK, NEW t \in Threads, NEW values \in [Fields -> Texts], Post(t, values)
  PROVE  /\ SettingsOK'
         /\ \/ Goes(t, Waiting) /\ UNCHANGED <<files, intended, gap, saved, contract, configured>>
            \/ /\ Opened(t, requests[t].id) /\ requests'[t].text \in File
               /\ requests'[t].at = "posting" /\ requests'[t].text.values = values
               /\ intended'[requests[t].id] = values
               /\ \/ "lost" \in gap'[requests[t].id]
                  \/ SameFields(requests[t].id, requests'[t].text)
<1> USE DEF drivers
<1> DEFINE r == requests[t]
           x == r.id
           file == [r.text EXCEPT !.values = values]
           s == [at |-> "posting", rec |-> RecordOf(saved, x), text |-> file, hold |-> HoldOn(t, x)]
<1>1. r \in Viewing /\ r.at = "page" /\ x \in IdsOf(saved)
  BY RequestAt DEF Post, SettingsOK
<1>2. file \in File /\ x \in Ids /\ file.values = values
  BY <1>1, FilesAreFiles DEF Viewing, File
<1>3. RecordOf(saved, x) \in Sound /\ RecordOf(saved, x).id = x
  BY <1>1, RecordIsSaved DEF SettingsOK
<1>4. HoldOn(t, x) \in Hold
  BY DEF HoldOn, Hold
<1> HIDE DEF file
<1>5. s \in Request
  BY <1>2, <1>3, <1>4 DEF Request, Posting
<1>6. UNCHANGED <<saved, issued, contract, configured>>
  BY DEF Post
<1>7. CASE ~Valid(file)
  <2>1. Goes(t, Waiting) /\ UNCHANGED <<files, intended, gap>>
    BY <1>7 DEF Post, file
  <2>2. requests' \in [Threads -> Request]
    BY <2>1, GoesTyped, WaitingIsRequest DEF SettingsOK
  <2> QED BY <1>6, <2>1, <2>2 DEF SettingsOK
<1>8. CASE Valid(file)
  <2>1. /\ Open(t, s) /\ intended' = [intended EXCEPT ![x] = values]
        /\ gap' = [gap EXCEPT ![x] = (@ \ {"stale"}) \cup Overlap(t, x)
                     \cup (IF SameFields(x, file) THEN {} ELSE {"lost"})]
    BY <1>8 DEF Post, file
  <2>2. s.at = "posting" /\ s.rec.id = x /\ s.hold = HoldOn(t, x) /\ s.text = file /\ s.rec = RecordOf(saved, x)
    BY <1>3
  <2>3. /\ files' = [files EXCEPT ![x] = Unreadable]
        /\ Takes(t, s, {x}, "shared")
    BY <2>1, <2>2 DEF Open
  <2> HIDE DEF s
  <2>4. /\ requests' \in [Threads -> Request] /\ requests'[t] = s
        /\ \A u \in Threads \ {t} :
             /\ Same(u)
             /\ IF Holds(u, x) THEN requests'[u].hold = "shared" ELSE requests'[u] = requests[u]
    BY <1>5, <2>3, TakesTyped DEF Hold, SettingsOK
  <2>5. Overlap(t, x) \subseteq Reasons /\ (Shared(t, x) => Overlap(t, x) = {"stale", "lost"})
    BY DEF Overlap, Reasons
  <2>6. /\ gap' \in [Ids -> SUBSET Reasons] /\ gap[x] \ {"stale"} \subseteq gap'[x]
        /\ Shared(t, x) => {"stale", "lost"} \subseteq gap'[x]
        /\ \A y \in Ids \ {x} : gap'[y] = gap[y]
        /\ ~SameFields(x, file) => "lost" \in gap'[x]
    BY <1>2, <2>1, <2>5 DEF SettingsOK, Reasons
  <2>7. /\ intended' \in [Ids -> [Fields -> Texts]] /\ intended'[x] = values
        /\ \A y \in Ids \ {x} : intended'[y] = intended[y]
    BY <1>2, <2>1 DEF SettingsOK
  <2>8. files' \in [Ids -> Old]
    BY <1>2, <2>3 DEF SettingsOK, Old
  <2>9. Opened(t, x)
    BY <1>1, <1>2, <1>6, <2>2, <2>3, <2>4, <2>6, <2>7 DEF Opened, Writers
  <2>10. SettingsOK'
    BY <1>6, <2>4, <2>6, <2>7, <2>8 DEF SettingsOK
  <2> QED BY <1>2, <2>2, <2>4, <2>6, <2>7, <2>9, <2>10
<1> QED BY <1>7, <1>8

LEMMA WriteBackOpens ==
  ASSUME SettingsOK, NEW t \in Threads, WriteBack(t)
  PROVE  LET r == requests[t]
             x == r.rec.id
         IN  /\ SettingsOK' /\ Opened(t, x) /\ r.text \in File
             /\ requests'[t].at = "closing" /\ requests'[t].text = r.text
             /\ intended' = intended /\ gap[x] \subseteq gap'[x]
             /\ files[x] = r.text \/ {"stale", "lost"} \subseteq gap'[x]
<1> USE DEF drivers
<1> DEFINE r == requests[t]
           x == r.rec.id
           s == [at |-> "closing", rec |-> r.rec, text |-> r.text, ok |-> r.at = "accepted",
                 hold |-> HoldOn(t, x)]
<1>1. r \in Filled /\ r.at \in {"accepted", "refused"}
  BY RequestAt DEF WriteBack, SettingsOK
<1>2. x \in Ids /\ r.text \in File /\ r.rec \in Sound
  BY <1>1 DEF Filled, Sound, Provider
<1>3. HoldOn(t, x) \in Hold
  BY DEF HoldOn, Hold
<1>4. s \in Request /\ s.at = "closing" /\ s.rec.id = x /\ s.hold = HoldOn(t, x) /\ s.text = r.text
  BY <1>2, <1>3 DEF Request, Closing
<1>5. /\ files' = [files EXCEPT ![x] = Unreadable]
      /\ Takes(t, s, {x}, "shared")
  BY DEF WriteBack, Open
<1> HIDE DEF s
<1>6. /\ requests' \in [Threads -> Request] /\ requests'[t] = s
      /\ \A u \in Threads \ {t} :
           /\ Same(u)
           /\ IF Holds(u, x) THEN requests'[u].hold = "shared" ELSE requests'[u] = requests[u]
  BY <1>4, <1>5, TakesTyped DEF Hold, SettingsOK
<1>7. gap' = [gap EXCEPT ![x] = @ \cup Overlap(t, x)
                                   \cup (IF files[x] = r.text THEN {} ELSE {"stale", "lost"})]
  BY DEF WriteBack
<1>8. Overlap(t, x) \subseteq Reasons /\ (Shared(t, x) => Overlap(t, x) = {"stale", "lost"})
  BY DEF Overlap, Reasons
<1>9. /\ gap' \in [Ids -> SUBSET Reasons] /\ gap[x] \subseteq gap'[x]
      /\ Shared(t, x) => {"stale", "lost"} \subseteq gap'[x]
      /\ \A y \in Ids \ {x} : gap'[y] = gap[y]
      /\ files[x] = r.text \/ {"stale", "lost"} \subseteq gap'[x]
  BY <1>2, <1>7, <1>8 DEF SettingsOK, Reasons
<1>10. UNCHANGED <<saved, issued, intended, contract, configured>>
  BY DEF WriteBack
<1>11. files' \in [Ids -> Old]
  BY <1>2, <1>5 DEF SettingsOK, Old
<1>12. Opened(t, x)
  BY <1>1, <1>2, <1>4, <1>5, <1>6, <1>9, <1>10 DEF Opened, Writers
<1>13. SettingsOK'
  BY <1>6, <1>9, <1>10, <1>11 DEF SettingsOK
<1> QED BY <1>2, <1>4, <1>6, <1>9, <1>10, <1>12, <1>13

LEMMA ClosedIsFile ==
  ASSUME SettingsOK, NEW t \in Threads, requests[t].at \in Writers
  PROVE  /\ requests[t].rec \in Sound /\ requests[t].rec.id \in Ids /\ requests[t].text \in File
         /\ Closed(requests[t]) \subseteq Old
         /\ Closed(requests[t]) \subseteq
              {requests[t].text, Unreadable, files[requests[t].rec.id]}
         /\ requests[t].hold = "alone" => Closed(requests[t]) = {requests[t].text}
         /\ requests[t].hold = "swept" => Closed(requests[t]) = {files[requests[t].rec.id]}
         /\ requests[t].hold = "shared" => Closed(requests[t]) = {requests[t].text, Unreadable}
<1>1. /\ requests[t].rec \in Sound /\ requests[t].rec.id \in Ids /\ requests[t].text \in File
      /\ requests[t].hold \in Hold
  BY WriterAt DEF SettingsOK
<1>2. files[requests[t].rec.id] \in Old
  BY <1>1 DEF SettingsOK
<1>3. CASE requests[t].hold = "alone"
  BY <1>1, <1>2, <1>3 DEF Closed, Old
<1>4. CASE requests[t].hold = "shared"
  BY <1>1, <1>2, <1>4 DEF Closed, Old
<1>5. CASE requests[t].hold = "swept"
  BY <1>1, <1>2, <1>5 DEF Closed, Old
<1> QED BY <1>1, <1>3, <1>4, <1>5 DEF Hold

LEMMA PostedFills ==
  ASSUME SettingsOK, NEW t \in Threads, Posted(t)
  PROVE  /\ SettingsOK' /\ Filling(t) /\ "unsettled" \in gap'[requests[t].rec.id]
         /\ requests'[t].at = "posted" /\ \A u \in Threads \ {t} : requests'[u] = requests[u]
         /\ \A y \in Ids \ {requests[t].rec.id} : files'[y] = files[y]
<1> USE DEF drivers
<1> DEFINE r == requests[t]
           x == r.rec.id
           s == [at |-> "posted", rec |-> r.rec, text |-> r.text]
<1>1. r \in Posting /\ r.at = "posting" /\ r.at \in Writers
  BY RequestAt DEF Posted, SettingsOK, Writers
<1>2. r.rec \in Sound /\ x \in Ids /\ r.text \in File /\ Closed(r) \subseteq Old
  BY <1>1, ClosedIsFile
<1>3. s \in Request /\ s.at = "posted"
  BY <1>2 DEF Request, Filled
<1>4. Goes(t, s)
  BY DEF Posted
<1> HIDE DEF s
<1>5. /\ requests' \in [Threads -> Request]
      /\ requests'[t] = s /\ \A u \in Threads \ {t} : requests'[u] = requests[u]
  BY <1>3, <1>4, GoesTyped DEF SettingsOK
<1>6. PICK file \in Closed(r) : files' = [files EXCEPT ![x] = file]
  BY DEF Posted
<1>7. /\ files' \in [Ids -> Old] /\ files'[x] \in Closed(r)
      /\ \A y \in Ids \ {x} : files'[y] = files[y]
  BY <1>2, <1>6 DEF SettingsOK
<1>8. gap' = [gap EXCEPT ![x] = @ \cup {"unsettled"}]
  BY DEF Posted
<1>9. /\ gap' \in [Ids -> SUBSET Reasons] /\ "unsettled" \in gap'[x]
      /\ \A y \in Ids : gap[y] \subseteq gap'[y]
  BY <1>2, <1>8 DEF SettingsOK, Reasons
<1>10. UNCHANGED <<saved, issued, intended, contract, configured>>
  BY DEF Posted
<1>11. \A u \in Threads \ {t} : Same(u)
  BY <1>5 DEF Same
<1>12. Filling(t)
  BY <1>1, <1>3, <1>5, <1>7, <1>9, <1>10, <1>11 DEF Filling, Writers
<1> QED BY <1>3, <1>5, <1>7, <1>9, <1>10, <1>12 DEF SettingsOK

LEMMA WrittenBackFills ==
  ASSUME SettingsOK, NEW t \in Threads, WrittenBack(t)
  PROVE  /\ SettingsOK' /\ Filling(t) /\ gap' = gap
         /\ requests'[t].at = "idle" /\ \A u \in Threads \ {t} : requests'[u] = requests[u]
         /\ \A y \in Ids \ {requests[t].rec.id} : files'[y] = files[y]
<1> USE DEF drivers
<1> DEFINE r == requests[t]
           x == r.rec.id
<1>1. r \in Closing /\ r.at = "closing" /\ r.at \in Writers
  BY RequestAt DEF WrittenBack, SettingsOK, Writers
<1>2. r.rec \in Sound /\ x \in Ids /\ r.text \in File /\ Closed(r) \subseteq Old
  BY <1>1, ClosedIsFile
<1>3. Goes(t, Waiting)
  BY DEF WrittenBack
<1>4. /\ requests' \in [Threads -> Request]
      /\ requests'[t] = Waiting /\ \A u \in Threads \ {t} : requests'[u] = requests[u]
  BY <1>3, GoesTyped, WaitingIsRequest DEF SettingsOK
<1>5. PICK file \in Closed(r) : files' = [files EXCEPT ![x] = file]
  BY DEF WrittenBack
<1>6. /\ files' \in [Ids -> Old] /\ files'[x] \in Closed(r)
      /\ \A y \in Ids \ {x} : files'[y] = files[y]
  BY <1>2, <1>5 DEF SettingsOK
<1>7. UNCHANGED <<saved, issued, intended, contract, configured, gap>>
  BY DEF WrittenBack
<1>8. \A u \in Threads \ {t} : Same(u)
  BY <1>4 DEF Same
<1>9. Filling(t)
  BY <1>1, <1>4, <1>6, <1>7, <1>8, WaitingIsRequest DEF Filling, Writers
<1> QED BY <1>4, <1>6, <1>7, <1>9, WaitingIsRequest DEF SettingsOK

LEMMA SavedFills ==
  ASSUME SettingsOK, NEW t \in Threads, Saved(t)
  PROVE  LET r == requests[t]
             x == r.rec.id
         IN  /\ SettingsOK' /\ Filling(t) /\ r \in Saving /\ "unsettled" \in gap'[x]
             /\ \/ /\ requests'[t] = Waiting
                   /\ r.rec \in ToSet(saved) \/ "torn" \in gap'[x]
                \/ /\ requests'[t].at = "written" /\ requests'[t].rec = r.rec
                   /\ requests'[t].read = r.read
<1> USE DEF drivers
<1> DEFINE r == requests[t]
           x == r.rec.id
           list == Put(r.read, r.rec)
           orphans == Ids \ IdsOf(list)
           w == [at |-> "written", read |-> r.read, contract |-> r.contract, rec |-> r.rec]
           s == IF list = r.read THEN Waiting ELSE w
<1>1. r \in Saving /\ r.at = "saving" /\ r.at \in Writers
  BY RequestAt DEF Saved, SettingsOK, Writers
<1>2. r.rec \in Sound /\ x \in Ids /\ r.text \in File /\ Closed(r) \subseteq Old
  BY <1>1, ClosedIsFile
<1>3. x \in IdsOf(list)
  BY <1>1, PutSound DEF Saving
<1>4. w \in Request /\ w.at = "written" /\ w.rec = r.rec /\ w.read = r.read
  <2>1. w \in Fetched
    BY <1>1 DEF Saving, Fetched
  <2> QED BY <2>1 DEF Request
<1> HIDE DEF w
<1>5. s \in Request /\ s.at \in {"idle", "written"}
  BY <1>4, WaitingIsRequest
<1> HIDE DEF list
<1>6. Takes(t, s, orphans, "swept")
  BY DEF Saved, list, w
<1> HIDE DEF s
<1>7. /\ requests' \in [Threads -> Request] /\ requests'[t] = s
      /\ \A u \in Threads \ {t} :
           /\ Same(u)
           /\ IF \E y \in orphans : Holds(u, y) THEN requests'[u].hold = "swept"
              ELSE requests'[u] = requests[u]
  <2> HIDE DEF orphans
  <2> QED BY <1>5, <1>6, TakesTyped DEF Hold, SettingsOK
<1>8. PICK file \in Closed(r) :
        files' = [y \in Ids |-> IF y = x THEN file ELSE IF y \in orphans THEN None ELSE files[y]]
  BY DEF Saved, list
<1>9. gap' = [y \in Ids |->
           gap[y] \cup (IF y = x THEN {"unsettled"} ELSE {})
                  \cup (IF y = x /\ list = r.read /\ r.rec \notin ToSet(saved) THEN {"torn"} ELSE {})
                  \cup (IF y \in orphans /\ files[y] # None THEN {"stale", "lost"} ELSE {})]
  BY DEF Saved, list
<1>10. UNCHANGED <<saved, issued, intended, contract, configured>>
  BY DEF Saved
<1>11. x \notin orphans
  BY <1>3
<1> HIDE DEF orphans
<1>12. /\ files' \in [Ids -> Old] /\ files'[x] \in Closed(r)
       /\ \A y \in Ids \ {x} : files'[y] = IF y \in orphans THEN None ELSE files[y]
  BY <1>2, <1>8 DEF SettingsOK, Old
<1>13. /\ gap' \in [Ids -> SUBSET Reasons] /\ "unsettled" \in gap'[x]
       /\ \A y \in Ids : gap[y] \subseteq gap'[y]
       /\ list = r.read /\ r.rec \notin ToSet(saved) => "torn" \in gap'[x]
       /\ \A y \in Ids : y \in orphans /\ files[y] # None => {"stale", "lost"} \subseteq gap'[y]
  BY <1>2, <1>9 DEF SettingsOK, Reasons
<1>14. \A u \in Threads : \A y, z : Holds(u, y) /\ Holds(u, z) => z = y
  BY DEF Holds
<1>15. ASSUME NEW u \in Threads \ {t}, NEW y \in Ids \ orphans, Holds(u, y)
       PROVE  requests'[u] = requests[u]
  BY <1>7, <1>14, <1>15
<1>16. ASSUME NEW u \in Threads \ {t}, NEW y \in orphans, Holds(u, y)'
       PROVE  FALSE
  <2>1. Same(u) /\ requests'[u].at \in Writers /\ requests'[u].rec.id = y /\ requests'[u].hold # "swept"
    BY <1>7, <1>16 DEF Holds, Writers
  <2>2. requests'[u] = requests[u]
    BY <1>7, <2>1
  <2>3. Holds(u, y)
    BY <1>16, <2>2 DEF Holds
  <2> QED BY <1>7, <1>16, <2>1, <2>3
<1>17. \A y \in Ids \ {x} :
           \/ files'[y] = files[y]
              /\ \A u \in Threads \ {t} : Holds(u, y) => requests'[u] = requests[u]
           \/ files'[y] = None /\ (files[y] # None => {"stale", "lost"} \subseteq gap'[y])
              /\ \A u \in Threads \ {t} : ~Holds(u, y)'
  BY <1>12, <1>13, <1>15, <1>16
<1>18. Filling(t)
  <2>1. requests'[t].at \notin Writers
    BY <1>5, <1>7 DEF Writers
  <2>2. \A u \in Threads \ {t} :
          Same(u) /\ (requests'[u] = requests[u] \/ requests'[u].hold = "swept")
    BY <1>7
  <2>3. \A u \in Threads \ {t} : Holds(u, x) => requests'[u] = requests[u]
    BY <1>2, <1>11, <1>15
  <2> QED BY <1>1, <1>10, <1>12, <1>13, <1>17, <2>1, <2>2, <2>3 DEF Filling
<1>19. SettingsOK'
  BY <1>7, <1>10, <1>12, <1>13 DEF SettingsOK
<1>20. CASE list = r.read
  BY <1>1, <1>7, <1>13, <1>18, <1>19, <1>20 DEF s
<1>21. CASE list # r.read
  <2>1. requests'[t] = w
    BY <1>7, <1>21 DEF s
  <2> QED BY <1>1, <1>4, <1>13, <1>18, <1>19, <2>1
<1> QED BY <1>20, <1>21

(* Steps that neither open nor close a file: their types, and what they    *)
(* leave alone.                                                            *)
LEMMA OthersTyped ==
  ASSUME SettingsOK, SettingsStep
  PROVE  \/ \E t \in Threads : Save(t) \/ Saved(t) \/ Posted(t) \/ WriteBack(t) \/ WrittenBack(t)
         \/ \E t \in Threads, values \in [Fields -> Texts] : Post(t, values)
         \/ SettingsOK' /\ Elsewhere
<1> USE SettingsAssumption, WaitingIsRequest DEF drivers
<1> DEFINE Done == SettingsOK' /\ Elsewhere
<1>0. ASSUME NEW t \in Threads, NEW r \in Request, Goes(t, r), r.at \notin Writers,
             requests[t].at \notin Writers
      PROVE  /\ requests' \in [Threads -> Request]
             /\ \A u \in Threads :
                  \/ requests'[u] = requests[u]
                  \/ requests[u].at \notin Writers /\ requests'[u].at \notin Writers
  BY <1>0, GoesTyped DEF SettingsOK
<1>1. ASSUME NEW t \in Threads, NEW x \in Ids, NEW d \in Drivers, NEW i \in Interfaces,
             NEW e \in BOOLEAN, Submit(t, x, d, i, e)
      PROVE  Done
  <2> DEFINE r == [at |-> "submitted", id |-> x, driver |-> d, interface |-> i, enabled |-> e]
  <2>1. r \in Request /\ Goes(t, r) /\ r.at \notin Writers /\ requests[t].at \notin Writers
    BY <1>1 DEF Submit, Request, Submitted, Writers
  <2> HIDE DEF r
  <2>2. /\ requests' \in [Threads -> Request]
        /\ \A u \in Threads :
             \/ requests'[u] = requests[u]
             \/ requests[u].at \notin Writers /\ requests'[u].at \notin Writers
    BY <2>1, <1>0
  <2>3. issued' \in 0..MaxIds
    BY <1>1 DEF Submit, Ids, SettingsOK
  <2>4. UNCHANGED <<saved, files, intended, contract, configured, gap>>
    BY <1>1 DEF Submit
  <2> QED BY <2>2, <2>3, <2>4 DEF SettingsOK, Elsewhere
<1>2. ASSUME NEW t \in Threads, NEW x \in Ids, OpenPage(t, x)
      PROVE  Done
  <2> DEFINE text == IF files[x] = None THEN Empty ELSE files[x]
             r == [at |-> "page", id |-> x, text |-> text]
  <2>1. text \in File
    BY <1>2, FilesAreFiles DEF SettingsOK, OpenPage, Old
  <2>2. r \in Request /\ Goes(t, r) /\ r.at \notin Writers /\ requests[t].at \notin Writers
    BY <1>2, <2>1 DEF OpenPage, Request, Viewing, Writers
  <2> HIDE DEF r
  <2>3. /\ requests' \in [Threads -> Request]
        /\ \A u \in Threads :
             \/ requests'[u] = requests[u]
             \/ requests[u].at \notin Writers /\ requests'[u].at \notin Writers
    BY <2>2, <1>0
  <2>4. UNCHANGED <<saved, files, issued, intended, contract, configured, gap>>
    BY <1>2 DEF OpenPage
  <2> QED BY <2>3, <2>4 DEF SettingsOK, Elsewhere
<1>3. ASSUME NEW t \in Threads, Fetch(t)
      PROVE  Done
  <2> DEFINE r == requests[t]
             c == contract[r.driver]
             i == Selected(c, r.interface)
             p == [id |-> r.id, driver |-> r.driver, interface |-> i,
                   target |-> TargetOf(c, i), enabled |-> r.enabled]
             s == [at |-> "fetched", read |-> saved, contract |-> c, rec |-> p]
  <2>1. r \in Submitted /\ Choosable(c, r.interface) /\ r.at = "submitted"
    BY <1>3, RequestAt DEF Fetch, SettingsOK
  <2>2. c \in Contract /\ r.interface \in Interfaces
    BY <2>1 DEF Submitted, SettingsOK
  <2>3. /\ i = r.interface /\ TargetOf(c, i) = IF i = "http" THEN "url" ELSE "grpc"
        /\ i = "grpc" => GrpcFields \subseteq c.required
    BY <2>1, <2>2, ChoiceStands
  <2>4. p \in Sound
    <3>1. TargetOf(c, i) \in {None, "grpc", "url"}
      BY <2>3
    <3>2. p \in Provider
      BY <2>1, <2>2, <2>3, <3>1 DEF Submitted, Provider
    <3> QED BY <2>3, <3>2 DEF Sound, Usable
  <2>5. Suits(p, c.required)
    BY <2>3 DEF Suits
  <2> HIDE DEF p, c
  <2>6. s \in Fetched
    BY <2>2, <2>4, <2>5 DEF Fetched, SettingsOK
  <2>7. s \in Request /\ Goes(t, s) /\ s.at \notin Writers /\ requests[t].at \notin Writers
    BY <1>3, <2>1, <2>6 DEF Fetch, Request, Writers, p, c
  <2> HIDE DEF s
  <2>8. /\ requests' \in [Threads -> Request]
        /\ \A u \in Threads :
             \/ requests'[u] = requests[u]
             \/ requests[u].at \notin Writers /\ requests'[u].at \notin Writers
    BY <2>7, <1>0
  <2>9. UNCHANGED <<saved, files, issued, intended, contract, configured, gap>>
    BY <1>3 DEF Fetch
  <2> QED BY <2>8, <2>9 DEF SettingsOK, Elsewhere
<1>4. ASSUME NEW t \in Threads, FetchFails(t)
      PROVE  Done
  <2>1. Goes(t, Waiting) /\ requests[t].at \notin Writers
    BY <1>4 DEF FetchFails, Writers
  <2>2. /\ requests' \in [Threads -> Request]
        /\ \A u \in Threads :
             \/ requests'[u] = requests[u]
             \/ requests[u].at \notin Writers /\ requests'[u].at \notin Writers
    BY <2>1, <1>0 DEF Writers
  <2>3. UNCHANGED <<saved, files, issued, intended, contract, configured, gap>>
    BY <1>4 DEF FetchFails
  <2> QED BY <2>2, <2>3 DEF SettingsOK, Elsewhere
<1>5. ASSUME NEW t \in Threads, Load(t)
      PROVE  Done
  <2> DEFINE r == requests[t]
             s == [at |-> "loaded", read |-> r.read, contract |-> r.contract, rec |-> r.rec,
                   old |-> files[r.rec.id]]
  <2>1. r \in Fetched /\ r.at = "fetched"
    BY <1>5, RequestAt DEF Load, SettingsOK
  <2>2. files[r.rec.id] \in Old
    BY <2>1 DEF Fetched, Sound, Provider, SettingsOK
  <2>3. s \in Loaded
    BY <2>1, <2>2 DEF Fetched, Loaded
  <2>4. s \in Request /\ Goes(t, s) /\ s.at \notin Writers /\ requests[t].at \notin Writers
    BY <1>5, <2>1, <2>3 DEF Load, Request, Writers
  <2> HIDE DEF s
  <2>5. /\ requests' \in [Threads -> Request]
        /\ \A u \in Threads :
             \/ requests'[u] = requests[u]
             \/ requests[u].at \notin Writers /\ requests'[u].at \notin Writers
    BY <2>4, <1>0
  <2>6. UNCHANGED <<saved, files, issued, intended, contract, configured, gap>>
    BY <1>5 DEF Load
  <2> QED BY <2>5, <2>6 DEF SettingsOK, Elsewhere
<1>6. ASSUME NEW t \in Threads, Commit(t)
      PROVE  Done
  <2> DEFINE r == requests[t]
  <2>1. r \in Fetched /\ r.at = "written"
    BY <1>6, RequestAt DEF Commit, SettingsOK
  <2>2. saved' \in Lists
    BY <1>6, <2>1, PutSound DEF Commit, Fetched
  <2>3. Goes(t, Waiting) /\ requests[t].at \notin Writers
    BY <1>6, <2>1 DEF Commit, Writers
  <2>4. /\ requests' \in [Threads -> Request]
        /\ \A u \in Threads :
             \/ requests'[u] = requests[u]
             \/ requests[u].at \notin Writers /\ requests'[u].at \notin Writers
    BY <2>3, <1>0 DEF Writers
  <2>5. gap' \in [Ids -> SUBSET Reasons] /\ \A x \in Ids : gap[x] \subseteq gap'[x]
    BY <1>6 DEF Commit, SettingsOK, Reasons
  <2>6. UNCHANGED <<files, issued, intended, contract, configured>>
    BY <1>6 DEF Commit
  <2> QED BY <2>2, <2>4, <2>5, <2>6 DEF SettingsOK, Elsewhere
<1>7. ASSUME NEW t \in Threads, CommitFails(t)
      PROVE  Done
  <2>1. Goes(t, Waiting) /\ requests[t].at \notin Writers
    BY <1>7 DEF CommitFails, Writers
  <2>2. /\ requests' \in [Threads -> Request]
        /\ \A u \in Threads :
             \/ requests'[u] = requests[u]
             \/ requests[u].at \notin Writers /\ requests'[u].at \notin Writers
    BY <2>1, <1>0 DEF Writers
  <2>3. gap' \in [Ids -> SUBSET Reasons] /\ \A x \in Ids : gap[x] \subseteq gap'[x]
    BY <1>7 DEF CommitFails, SettingsOK, Reasons
  <2>4. UNCHANGED <<saved, files, issued, intended, contract, configured>>
    BY <1>7 DEF CommitFails
  <2> QED BY <2>2, <2>3, <2>4 DEF SettingsOK, Elsewhere
<1>8. ASSUME NEW t \in Threads, InitDriver(t)
      PROVE  Done
  <2> DEFINE r == requests[t]
  <2>1. r \in Filled /\ r.at = "posted"
    BY <1>8, RequestAt DEF InitDriver, SettingsOK
  <2>2. /\ [r EXCEPT !.at = "accepted"] \in Request /\ [r EXCEPT !.at = "refused"] \in Request
        /\ [r EXCEPT !.at = "accepted"].at = "accepted"
        /\ [r EXCEPT !.at = "refused"].at = "refused"
    BY <2>1 DEF Filled, Request
  <2>3. Goes(t, [r EXCEPT !.at = "accepted"]) \/ Goes(t, [r EXCEPT !.at = "refused"])
    BY <1>8 DEF InitDriver
  <2>4. PICK s \in Request : Goes(t, s) /\ s.at \in {"accepted", "refused"}
    BY <2>2, <2>3
  <2>5. /\ requests' \in [Threads -> Request]
        /\ \A u \in Threads :
             \/ requests'[u] = requests[u]
             \/ requests[u].at \notin Writers /\ requests'[u].at \notin Writers
    BY <2>1, <2>4, <1>0 DEF Writers
  <2>6. PICK g : g = Replaced(r)
    OBVIOUS
  <2>7. g \in [Ids -> SUBSET Reasons] /\ \A x \in Ids : gap[x] \subseteq g[x]
    BY <2>6 DEF Replaced, SettingsOK, Reasons
  <2>8. /\ AfterInit(g, r.rec) \in [Ids -> SUBSET Reasons]
        /\ \A x \in Ids : g[x] \ {"unsettled"} \subseteq AfterInit(g, r.rec)[x]
    BY <2>7 DEF AfterInit, Reasons
  <2>9. gap' = AfterInit(g, r.rec) \/ gap' = [gap EXCEPT ![r.rec.id] = @ \cup {"unsettled"}]
    BY <1>8, <2>6 DEF InitDriver
  <2>10. gap' \in [Ids -> SUBSET Reasons] /\ \A x \in Ids : gap[x] \ {"unsettled"} \subseteq gap'[x]
    <3>1. CASE gap' = AfterInit(g, r.rec)
      BY <2>7, <2>8, <3>1
    <3>2. CASE gap' = [gap EXCEPT ![r.rec.id] = @ \cup {"unsettled"}]
      BY <3>2 DEF SettingsOK, Reasons
    <3> QED BY <2>9, <3>1, <3>2
  <2>11. configured' = [d \in Drivers |-> configured'[d]]
    <3>1. \/ configured' = configured
          \/ configured' = [configured EXCEPT ![r.rec.driver] = Sent(r.rec.interface, Body(r.text))]
      BY <1>8 DEF InitDriver
    <3>2. PICK c : c = Sent(r.rec.interface, Body(r.text))
      OBVIOUS
    <3> QED BY <3>1, <3>2 DEF SettingsOK
  <2>12. UNCHANGED <<saved, files, issued, intended, contract>>
    BY <1>8 DEF InitDriver
  <2> QED BY <2>5, <2>10, <2>11, <2>12 DEF SettingsOK, Elsewhere
<1>9. ASSUME NEW d \in Drivers, NEW c \in Contracts, Upgrade(d, c)
      PROVE  Done
  BY <1>9 DEF Upgrade, settings, SettingsOK, Elsewhere
<1>10. ASSUME NEW ps, NEW last(_)
       PROVE  /\ AfterPass(ps, last) \in [Ids -> SUBSET Reasons]
              /\ \A x \in Ids : gap[x] \ {"unsettled"} \subseteq AfterPass(ps, last)[x]
              /\ Told(ps, last) = [d \in Drivers |-> Told(ps, last)[d]]
  BY DEF AfterPass, Told, SettingsOK, Reasons
<1>11. CASE Start
  <2>1. PICK ps, g, c :
          /\ gap' = g /\ configured' = c
          /\ g \in [Ids -> SUBSET Reasons] /\ \A x \in Ids : gap[x] \ {"unsettled"} \subseteq g[x]
          /\ c = [d \in Drivers |-> c[d]]
    <3> DEFINE e == Enabled(saved)
               Ps(bad) == Initialised(bad) \cup (Initialised({}) \cap {e})
    <3>1. PICK bad \in SUBSET Drivers :
            LET last(d) == IF e \in Ps(bad) /\ e \notin Initialised(bad) /\ e.driver = d
                           THEN e ELSE saved[LastOn(d, Ps(bad))]
            IN  configured' = Told(Ps(bad), last) /\ gap' = AfterPass(Ps(bad), last)
      BY <1>11 DEF Start
    <3> QED BY <3>1, <1>10
  <2>2. UNCHANGED <<saved, files, issued, requests, intended, contract>>
    BY <1>11 DEF Start, settings
  <2> QED BY <2>1, <2>2 DEF SettingsOK, Elsewhere
<1>12. ASSUME NEW i \in Ids, ~serving, StartStops(i)
       PROVE  Done
  <2>1. /\ i \in DOMAIN saved /\ files' = [files EXCEPT ![saved[i].id] = Unreadable]
        /\ Readable(files[saved[i].id])
        /\ UNCHANGED <<saved, issued, requests, intended, contract>>
    BY <1>12 DEF StartStops, Initialisable
  <2>2. PICK y \in Ids : y = saved[i].id
    BY <2>1 DEF SettingsOK, Lists, Sound, Provider
  <2>3. PICK g, c :
          /\ gap' = [g EXCEPT ![y] = @ \cup {"stale"}] /\ configured' = c
          /\ g \in [Ids -> SUBSET Reasons] /\ \A x \in Ids : gap[x] \ {"unsettled"} \subseteq g[x]
          /\ c = [d \in Drivers |-> c[d]]
    <3> DEFINE Ps(bad) == {saved[j] : j \in {k \in DOMAIN saved : k <= i}} \cap Initialised(bad)
    <3>1. PICK bad \in SUBSET Drivers :
            LET last(d) == saved[LastOn(d, Ps(bad))]
            IN  /\ configured' = Told(Ps(bad), last)
                /\ gap' = [AfterPass(Ps(bad), last) EXCEPT ![y] = @ \cup {"stale"}]
      BY <1>12, <2>2 DEF StartStops
    <3> DEFINE last(d) == saved[LastOn(d, Ps(bad))]
    <3>2. PICK g : g = AfterPass(Ps(bad), last)
      OBVIOUS
    <3>3. PICK c : c = Told(Ps(bad), last)
      OBVIOUS
    <3>4. gap' = [g EXCEPT ![y] = @ \cup {"stale"}] /\ configured' = c
      BY <3>1, <3>2, <3>3
    <3>5. /\ g \in [Ids -> SUBSET Reasons] /\ \A x \in Ids : gap[x] \ {"unsettled"} \subseteq g[x]
          /\ c = [d \in Drivers |-> c[d]]
      BY <1>10, <3>2, <3>3
    <3> HIDE DEF last, Ps
    <3> QED BY <3>4, <3>5
  <2>4. files' \in [Ids -> Old]
    BY <2>1, <2>2 DEF SettingsOK, Old
  <2>5. /\ gap' \in [Ids -> SUBSET Reasons] /\ "stale" \in gap'[y]
        /\ \A x \in Ids : gap[x] \ {"unsettled"} \subseteq gap'[x]
    BY <2>2, <2>3 DEF Reasons
  <2>6. SettingsOK'
    BY <2>1, <2>3, <2>4, <2>5 DEF SettingsOK
  <2>7. files'[y] = Unreadable /\ files[y] # None /\ \A x \in Ids \ {y} : files'[x] = files[x]
    BY <2>1, <2>2 DEF SettingsOK, Readable
  <2>8. Elsewhere
    BY <1>12, <2>1, <2>5, <2>7 DEF Elsewhere
  <2> QED BY <2>6, <2>8
<1>13. CASE Restarted
  <2>1. gap' \in [Ids -> SUBSET Reasons] /\ \A x \in Ids : gap[x] \ {"unsettled"} \subseteq gap'[x]
    BY <1>13 DEF Restarted, SettingsOK, Reasons
  <2>2. configured' = [d \in Drivers |-> configured'[d]]
    <3>1. PICK d, s : configured' = [configured EXCEPT ![d] = s]
      BY <1>13 DEF Restarted
    <3> QED BY <3>1 DEF SettingsOK
  <2>3. UNCHANGED <<saved, files, issued, requests, intended, contract>>
    BY <1>13 DEF Restarted, settings
  <2> QED BY <2>1, <2>2, <2>3 DEF SettingsOK, Elsewhere
<1>14. CASE Crash
  <2>1. /\ gap' \in [Ids -> SUBSET Reasons] /\ \A x \in Ids : gap[x] \subseteq gap'[x]
        /\ \A u \in Threads, x \in Ids : Holds(u, x) => "stale" \in gap'[x]
    BY <1>14 DEF Crash, SettingsOK, Reasons
  <2>2. requests' = [v \in Threads |-> Waiting] /\ requests' \in [Threads -> Request]
    BY <1>14 DEF Crash
  <2>3. UNCHANGED <<saved, files, issued, intended, contract, configured>>
    BY <1>14 DEF Crash
  <2> QED BY <2>1, <2>2, <2>3 DEF SettingsOK, Elsewhere
<1>15. CASE UNCHANGED told
  BY <1>15 DEF told, SettingsOK, Elsewhere
<1> QED
  BY <1>1, <1>2, <1>3, <1>4, <1>5, <1>6, <1>7, <1>8, <1>9, <1>11, <1>12, <1>13, <1>14, <1>15
  DEF SettingsStep

LEMMA SettingsKeepTypes ==
  ASSUME SettingsOK, SettingsStep
  PROVE  SettingsOK'
<1>1. CASE \E t \in Threads : Save(t) \/ Saved(t) \/ Posted(t) \/ WriteBack(t) \/ WrittenBack(t)
  BY <1>1, SaveOpens, SavedFills, PostedFills, WriteBackOpens, WrittenBackFills
<1>2. CASE \E t \in Threads, values \in [Fields -> Texts] : Post(t, values)
  BY <1>2, PostOpens
<1> QED BY <1>1, <1>2, OthersTyped

-----------------------------------------------------------------------------
(* While the application is down nothing is under way.                     *)
Offline ==
  ~serving => running = None /\ Quiet /\ \A t \in Threads : requests[t] = Waiting

LEMMA OfflineStays ==
  ASSUME Offline, [Next]_vars
  PROVE  Offline'
<1> SUFFICES ASSUME ~serving'
             PROVE  running' = None /\ Quiet' /\ \A t \in Threads : requests'[t] = Waiting
  BY DEF Offline
<1> DEFINE Idle == running = None /\ Quiet /\ \A t \in Threads : requests[t] = Waiting
<1>1. CASE UNCHANGED vars
  BY <1>1 DEF vars, settingsVars, settings, runtimeVars, Offline, Quiet
<1>2. CASE serving /\ SettingsNext /\ UNCHANGED runtimeVars
  BY <1>2 DEF runtimeVars
<1>3. ASSUME NEW t \in Threads, Finish(t)
      PROVE  FALSE
  <2>1. requests[t] # Waiting /\ serving' = serving
    BY <1>3 DEF Finish, WrittenBack, Waiting
  <2> QED BY <2>1 DEF Offline
<1>4. ASSUME NEW a \in Activations,
             Begin(a) \/ Close(a) \/ Clear(a) \/ Reconciled(a) \/ ReconcileFails(a)
      PROVE  FALSE
  <2>1. ensures[a].at # "idle"
    BY <1>4 DEF Begin, Close, Clear, Reconciled, ReconcileFails
  <2>2. serving' = serving
    <3>1. CASE Begin(a)
      BY <3>1 DEF Begin
    <3>2. CASE Close(a)
      BY <3>2 DEF Close
    <3>3. CASE Clear(a)
      BY <3>3 DEF Clear
    <3>4. CASE Reconciled(a) \/ ReconcileFails(a)
      BY <3>4 DEF Reconciled, ReconcileFails
    <3> QED BY <1>4, <3>1, <3>2, <3>3, <3>4
  <2> QED BY <2>1, <2>2 DEF Offline, Quiet, Ended
<1>5. CASE Start
  BY <1>5 DEF Start
<1>6. CASE Restarted
  BY <1>6 DEF Restarted, runtimeVars, Offline
<1>7. CASE Crash
  BY <1>7 DEF Crash, Quiet
<1>8. ASSUME NEW i \in Ids, StartStops(i)
      PROVE  running' = None /\ Quiet' /\ \A t \in Threads : requests'[t] = Waiting
  BY <1>8 DEF StartStops, runtimeVars, Offline, Quiet
<1> QED BY <1>1, <1>2, <1>3, <1>4, <1>5, <1>6, <1>7, <1>8 DEF Next

-----------------------------------------------------------------------------
(* Who writes a file holds it alone, or it is lost.                        *)

(* A step opens a file, closes one, or does neither.                       *)
LEMMA OpensOrCloses ==
  ASSUME SettingsOK, SettingsStep
  PROVE  \/ \E t \in Threads, y \in Ids : Opened(t, y)
         \/ \E t \in Threads : Filling(t)
         \/ Elsewhere
<1>1. ASSUME NEW t \in Threads, NEW values \in [Fields -> Texts], Post(t, values)
      PROVE  (\E y \in Ids : Opened(t, y)) \/ Elsewhere
  <2>1. CASE Goes(t, Waiting) /\ UNCHANGED <<files, intended, gap>>
    <3>1. requests[t].at = "page"
      BY <1>1 DEF Post
    <3>2. requests'[t] = Waiting /\ \A u \in Threads \ {t} : requests'[u] = requests[u]
      BY <2>1, GoesTyped, WaitingIsRequest DEF SettingsOK
    <3> QED BY <2>1, <3>1, <3>2, WaitingIsRequest DEF Elsewhere, Writers
  <2>2. CASE Opened(t, requests[t].id)
    BY <2>2 DEF Opened
  <2> QED BY <1>1, <2>1, <2>2, PostOpens
<1>2. ASSUME NEW t \in Threads, Save(t) \/ WriteBack(t)
      PROVE  \E y \in Ids : Opened(t, y)
  <2>1. Opened(t, requests[t].rec.id)
    BY <1>2, SaveOpens, WriteBackOpens
  <2> QED BY <2>1 DEF Opened
<1>3. ASSUME NEW t \in Threads, Saved(t) \/ Posted(t) \/ WrittenBack(t)
      PROVE  Filling(t)
  BY <1>3, SavedFills, PostedFills, WrittenBackFills
<1> QED BY <1>1, <1>2, <1>3, OthersTyped

(* What is lost stays lost, and a record torn from its file stays so.      *)
LEMMA LossesLast ==
  ASSUME SettingsOK, SettingsStep, NEW x \in Ids
  PROVE  gap[x] \cap {"lost", "torn"} \subseteq gap'[x]
<1>1. ASSUME NEW t \in Threads, NEW y \in Ids, Opened(t, y)
      PROVE  gap[x] \ {"stale"} \subseteq gap'[x]
  BY <1>1 DEF Opened
<1>2. ASSUME NEW t \in Threads, Filling(t)
      PROVE  gap[x] \subseteq gap'[x]
  BY <1>2 DEF Filling
<1>3. CASE Elsewhere
  BY <1>3 DEF Elsewhere
<1> QED BY <1>1, <1>2, <1>3, OpensOrCloses

(* Request t writes the file of x.                                         *)
On(t, x) == requests[t].at \in Writers /\ requests[t].rec.id = x

HeldAlone(t, x) ==
  /\ requests[t].hold = "alone" /\ files[x] = Unreadable
  /\ \A u \in Threads \ {t} : ~On(u, x)

HeldInv ==
  \A x \in Ids : "lost" \in gap[x] \/ \A t \in Threads : On(t, x) => HeldAlone(t, x)

LEMMA HeldStays ==
  ASSUME SettingsOK, SettingsOK', SettingsStep, HeldInv, Offline
  PROVE  HeldInv'
<1> USE FilesAreFiles
<1> SUFFICES ASSUME NEW x \in Ids, "lost" \notin gap'[x], NEW t \in Threads, On(t, x)'
             PROVE  HeldAlone(t, x)'
  BY DEF HeldInv
<1>1. "lost" \notin gap[x]
  BY LossesLast
<1>2. \A u \in Threads : On(u, x) => HeldAlone(u, x)
  BY <1>1 DEF HeldInv
<1>3. ASSUME NEW u \in Threads, NEW y \in Ids, Opened(u, y)
      PROVE  HeldAlone(t, x)'
  <2>1. \A v \in Threads \ {u} : Same(v) /\ (On(v, x)' <=> On(v, x))
    BY <1>3 DEF Opened, On, Same
  <2>2. requests[u].at \notin Writers
    BY <1>3 DEF Opened, Writers
  <2>3. CASE x = y
    <3>1. ~Shared(u, x)
      BY <1>1, <1>3, <2>3 DEF Opened
    <3>2. \A v \in Threads \ {u} : ~On(v, x)
      <4>1. ASSUME NEW v \in Threads \ {u}, On(v, x)
            PROVE  FALSE
        <5>1. requests[v].hold = "alone"
          BY <1>2, <4>1 DEF HeldAlone
        <5>2. Holds(v, x)
          BY <4>1, <5>1 DEF Holds, On, Writers
        <5> QED BY <3>1, <5>2 DEF Shared
      <4> QED BY <4>1
    <3>3. t = u /\ \A v \in Threads \ {t} : ~On(v, x)'
      BY <2>1, <3>2
    <3>4. requests'[t].hold = "alone"
      BY <1>3, <2>3, <3>1, <3>3 DEF Opened, HoldOn
    <3>5. files'[x] = Unreadable
      BY <1>3, <2>3 DEF Opened, SettingsOK
    <3> QED BY <3>3, <3>4, <3>5 DEF HeldAlone
  <2>4. CASE x # y
    <3>1. t # u /\ ~On(u, x)'
      BY <1>3, <2>4 DEF Opened, On
    <3>2. On(t, x)
      BY <2>1, <3>1
    <3>3. ~Holds(t, y)
      BY <2>4, <3>2 DEF On, Holds
    <3>4. requests'[t] = requests[t]
      BY <1>3, <3>1, <3>3 DEF Opened
    <3>5. files'[x] = files[x]
      BY <1>3, <2>4 DEF Opened, SettingsOK
    <3> QED BY <1>2, <2>1, <2>2, <3>1, <3>2, <3>4, <3>5 DEF HeldAlone
  <2> QED BY <2>3, <2>4
<1>4. ASSUME NEW u \in Threads, Filling(u)
      PROVE  HeldAlone(t, x)'
  <2> DEFINE y == requests[u].rec.id
  <2>1. /\ \A v \in Threads \ {u} : Same(v) /\ (On(v, x)' <=> On(v, x))
        /\ ~On(u, x)'
    BY <1>4 DEF Filling, On, Same
  <2>2. t # u /\ On(t, x)
    BY <2>1
  <2>3. HeldAlone(t, x)
    BY <1>2, <2>2
  <2>4. x # y
    BY <1>4, <2>2, <2>3 DEF HeldAlone, On, Filling
  <2>5. Holds(t, x)
    BY <2>2, <2>3 DEF HeldAlone, On, Holds, Writers
  <2>6. files'[x] = files[x] /\ requests'[t] = requests[t]
    BY <1>4, <2>2, <2>3, <2>4, <2>5, <1>1 DEF Filling, HeldAlone
  <2> QED BY <2>1, <2>3, <2>6 DEF HeldAlone
<1>5. CASE Elsewhere
  <2>1. requests'[t] = requests[t]
    BY <1>5, WaitingIsRequest DEF Elsewhere, On, Writers
  <2>2. On(t, x)
    BY <2>1 DEF On
  <2>3. requests[t] # Waiting
    BY <2>2, WaitingIsRequest DEF On, Writers
  <2>4. \A u \in Threads : On(u, x)' => On(u, x)
    <3>1. ASSUME NEW u \in Threads, On(u, x)'
          PROVE  On(u, x)
      <4>1. requests'[u] = requests[u]
        BY <1>5, <3>1, WaitingIsRequest DEF Elsewhere, On, Writers
      <4> QED BY <3>1, <4>1 DEF On
    <3> QED BY <3>1
  <2>5. files'[x] = files[x]
    BY <1>5, <2>3 DEF Elsewhere, Offline
  <2> QED BY <1>2, <2>1, <2>2, <2>4, <2>5 DEF HeldAlone
<1> QED BY <1>3, <1>4, <1>5, OpensOrCloses

-----------------------------------------------------------------------------
(* The files keep what the operator saved.                                 *)

Right(file, x) ==
  \/ Readable(file) /\ file.values = intended[x]
  \/ file = None /\ intended[x] = Empty.values

(* Who holds the file writes what was saved; else the file says it, and a  *)
(* file that was never written nothing.                                    *)
FileKept(x) ==
  \/ "stale" \in gap[x]
  \/ /\ \A t \in Threads : Holds(t, x) =>
          /\ requests[t].hold = "alone" /\ ~Shared(t, x) /\ files[x] # None
          /\ requests[t].text.values = intended[x]
     /\ (\A t \in Threads : ~Holds(t, x)) => Right(files[x], x)

There(x) == files[x] # None \/ "stale" \in gap[x]

(* Every provider that is saved, or that a request is about to save, has a *)
(* file, or what was in it is gone.                                        *)
ListsThere ==
  /\ \A x \in IdsOf(saved) : There(x)
  /\ \A t \in Threads : requests[t].at \in {"fetched", "loaded", "saving", "written"} =>
       \A x \in IdsOf(requests[t].read) : There(x)
  /\ \A t \in Threads : requests[t].at \in {"saving", "written"} => There(requests[t].rec.id)

KeptInv == (\A x \in Ids : FileKept(x)) /\ ListsThere

(* What is opened and stays is right if the text is.                       *)
LEMMA OpenedKeeps ==
  ASSUME SettingsOK, NEW t \in Threads, NEW y \in Ids, Opened(t, y),
         "stale" \notin gap'[y] => requests'[t].text.values = intended'[y],
         NEW x \in Ids, FileKept(x)
  PROVE  FileKept(x)'
<1> USE FilesAreFiles
<1> SUFFICES ASSUME "stale" \notin gap'[x]
             PROVE  FileKept(x)'
  BY DEF FileKept
<1>1. \A u \in Threads \ {t} : Same(u)
  BY DEF Opened
<1>2. CASE x = y
  <2>1. ~Shared(t, x)
    BY <1>2 DEF Opened
  <2>2. \A u \in Threads \ {t} : ~Holds(u, x) /\ requests'[u] = requests[u]
    BY <1>2, <2>1 DEF Opened, Shared
  <2>3. \A u \in Threads \ {t} : ~Holds(u, x)'
    BY <2>2 DEF Holds
  <2>4. requests'[t].hold = "alone"
    BY <1>2, <2>1 DEF Opened, HoldOn
  <2>5. Holds(t, x)'
    BY <1>2, <2>4 DEF Opened, Holds, Writers
  <2>6. ~Shared(t, x)' /\ files'[x] # None
    BY <1>2, <2>3 DEF Opened, Shared, SettingsOK
  <2> QED BY <1>2, <2>3, <2>4, <2>5, <2>6 DEF FileKept
<1>3. CASE x # y
  <2>1. /\ gap'[x] = gap[x] /\ intended'[x] = intended[x] /\ files'[x] = files[x]
        /\ ~Holds(t, x) /\ ~Holds(t, x)'
    BY <1>3 DEF Opened, Holds, SettingsOK
  <2>2. \A u \in Threads : Holds(u, x) => requests'[u] = requests[u]
    BY <1>3, <2>1 DEF Opened, Holds
  <2>3. ASSUME NEW u \in Threads, Holds(u, x)'
        PROVE  Holds(u, x)
    <3>1. u # t /\ Same(u) /\ requests[u].at \in Writers /\ requests[u].rec.id = x
      BY <1>1, <2>1, <2>3 DEF Same, Holds, Writers
    <3>2. ~Holds(u, y)
      BY <1>3, <3>1 DEF Holds
    <3>3. requests'[u] = requests[u]
      BY <3>1, <3>2 DEF Opened
    <3> QED BY <2>3, <3>3 DEF Holds
  <2>4. \A u \in Threads : Holds(u, x)' <=> Holds(u, x)
    <3>1. ASSUME NEW u \in Threads, Holds(u, x)
          PROVE  Holds(u, x)'
      BY <2>2, <3>1 DEF Holds
    <3> QED BY <2>3, <3>1
  <2>5. \A u \in Threads : Shared(u, x)' <=> Shared(u, x)
    BY <2>4 DEF Shared
  <2>6. /\ \A u \in Threads : Holds(u, x) =>
             /\ requests[u].hold = "alone" /\ ~Shared(u, x) /\ files[x] # None
             /\ requests[u].text.values = intended[x]
        /\ (\A u \in Threads : ~Holds(u, x)) => Right(files[x], x)
    BY <2>1 DEF FileKept
  <2>7. Right(files[x], x) => Right(files[x], x)'
    BY <2>1 DEF Right
  <2> QED BY <2>1, <2>2, <2>4, <2>5, <2>6, <2>7 DEF FileKept
<1> QED BY <1>2, <1>3

LEMMA FilledKeeps ==
  ASSUME SettingsOK, NEW t \in Threads, Filling(t), NEW x \in Ids, FileKept(x)
  PROVE  FileKept(x)'
<1> USE FilesAreFiles
<1> DEFINE r == requests[t]
           y == r.rec.id
<1> SUFFICES ASSUME "stale" \notin gap'[x]
             PROVE  FileKept(x)'
  BY DEF FileKept
<1>1. intended'[x] = intended[x] /\ "stale" \notin gap[x]
  BY DEF Filling
<1>2. /\ \A u \in Threads : Holds(u, x) =>
           /\ requests[u].hold = "alone" /\ ~Shared(u, x) /\ files[x] # None
           /\ requests[u].text.values = intended[x]
      /\ (\A u \in Threads : ~Holds(u, x)) => Right(files[x], x)
  BY <1>1 DEF FileKept
<1>3. ~Holds(t, x)' /\ \A u \in Threads \ {t} : Holds(u, x)' => Holds(u, x)
  BY DEF Filling, Holds, Writers
<1>4. ASSUME files'[x] = files[x], ~Holds(t, x),
             \A u \in Threads \ {t} : Holds(u, x) => requests'[u] = requests[u]
      PROVE  FileKept(x)'
  <2>1. \A u \in Threads : Holds(u, x) => requests'[u] = requests[u] /\ Holds(u, x)'
    BY <1>4 DEF Holds
  <2>2. \A u \in Threads : Holds(u, x)' <=> Holds(u, x)
    BY <1>3, <1>4, <2>1
  <2>3. \A u \in Threads : Shared(u, x)' <=> Shared(u, x)
    BY <2>2 DEF Shared
  <2>4. Right(files[x], x) => Right(files[x], x)'
    BY <1>1, <1>4 DEF Right
  <2> QED BY <1>1, <1>2, <1>4, <2>1, <2>2, <2>3, <2>4 DEF FileKept
<1>5. CASE x = y /\ Holds(t, x)
  <2>1. r.at \in Writers /\ r.hold = "alone" /\ files'[x] \in Closed(r)
    BY <1>2, <1>5 DEF Filling
  <2>2. files'[x] = r.text /\ r.text \in File
    BY <2>1, ClosedIsFile
  <2>3. \A u \in Threads : ~Holds(u, x)'
    BY <1>2, <1>3, <1>5 DEF Shared
  <2>4. Right(files[x], x)'
    BY <1>1, <1>2, <1>5, <2>2 DEF Right, Readable
  <2> QED BY <2>3, <2>4 DEF FileKept
<1>6. CASE x = y /\ ~Holds(t, x)
  <2>1. r.at \in Writers /\ r.hold = "swept" /\ files'[x] \in Closed(r)
    BY <1>6 DEF Filling, Holds, Writers
  <2>2. files'[x] = files[x]
    BY <1>6, <2>1, ClosedIsFile
  <2>3. \A u \in Threads \ {t} : Holds(u, x) => requests'[u] = requests[u]
    BY <1>6 DEF Filling
  <2> QED BY <1>4, <1>6, <2>2, <2>3
<1>7. CASE x # y
  <2>1. ~Holds(t, x)
    BY <1>7 DEF Holds
  <2>2. CASE files'[x] = files[x] /\ \A u \in Threads \ {t} : Holds(u, x) => requests'[u] = requests[u]
    BY <1>4, <2>1, <2>2
  <2>3. CASE /\ files'[x] = None /\ (files[x] # None => {"stale", "lost"} \subseteq gap'[x])
             /\ \A u \in Threads \ {t} : ~Holds(u, x)'
    <3>1. files[x] = None
      BY <2>3
    <3>2. Right(files[x], x)
      BY <1>2, <3>1
    <3>3. Right(files[x], x)'
      BY <1>1, <2>3, <3>1, <3>2 DEF Right
    <3> QED BY <1>3, <2>3, <3>3 DEF FileKept
  <2> QED BY <1>7, <2>2, <2>3 DEF Filling
<1> QED BY <1>5, <1>6, <1>7

LEMMA ElsewhereKeeps ==
  ASSUME SettingsOK, Elsewhere, NEW x \in Ids, FileKept(x)
  PROVE  FileKept(x)'
<1> SUFFICES ASSUME "stale" \notin gap'[x]
             PROVE  FileKept(x)'
  BY DEF FileKept
<1>1. /\ intended'[x] = intended[x] /\ files'[x] = files[x] /\ "stale" \notin gap[x]
  BY DEF Elsewhere
<1>2. ASSUME NEW u \in Threads, Holds(u, x)
      PROVE  requests'[u] = requests[u] /\ Holds(u, x)'
  BY <1>2 DEF Elsewhere, Holds, Writers
<1>3. ASSUME NEW u \in Threads, Holds(u, x)'
      PROVE  Holds(u, x)
  BY <1>3, WaitingIsRequest DEF Elsewhere, Holds, Writers
<1>4. \A u \in Threads : Holds(u, x)' <=> Holds(u, x)
  BY <1>2, <1>3
<1>5. \A u \in Threads : Shared(u, x)' <=> Shared(u, x)
  BY <1>4 DEF Shared
<1>6. Right(files[x], x) => Right(files[x], x)'
  BY <1>1 DEF Right
<1> QED BY <1>1, <1>2, <1>4, <1>5, <1>6 DEF FileKept

LEMMA FilesStay ==
  ASSUME SettingsOK, SettingsStep, \A y \in Ids : FileKept(y), NEW x \in Ids
  PROVE  FileKept(x)'
<1> USE FilesAreFiles
<1>1. ASSUME NEW t \in Threads, Save(t)
      PROVE  FileKept(x)'
  <2> DEFINE r == requests[t]
             y == r.rec.id
             file == Refreshed(r.contract, r.old)
  <2>1. /\ Opened(t, y) /\ r \in Loaded /\ requests'[t].text = file
        /\ gap[y] \subseteq gap'[y]
        /\ files[y] = r.old \/ "stale" \in gap'[y]
        /\ intended'[y] = [f \in Fields |-> IF f \in Listed(file) THEN intended[y][f] ELSE "blank"]
    <3>1. /\ Opened(t, y) /\ r \in Loaded /\ requests'[t].text = file
          /\ gap[y] \subseteq gap'[y]
          /\ files[y] = r.old \/ "stale" \in gap'[y]
      BY <1>1, SaveOpens
    <3>2. intended'[y] = [f \in Fields |-> IF f \in Listed(requests'[t].text)
                                          THEN intended[y][f] ELSE "blank"]
      BY <1>1, SaveOpens
    <3> QED BY <3>1, <3>2
  <2>2. y \in Ids /\ r.old \in Old
    BY <2>1 DEF Loaded, Sound, Provider
  <2>3. ASSUME "stale" \notin gap'[y]
        PROVE  file.values = intended'[y]
    <3>1. ~Shared(t, y) /\ ~Holds(t, y)
      BY <2>1, <2>3 DEF Opened, Holds
    <3>2. \A u \in Threads : ~Holds(u, y)
      BY <3>1 DEF Shared
    <3>3. Right(r.old, y)
      BY <2>1, <2>3, <3>2 DEF FileKept, Opened
    <3>4. PICK L : L = Listed(file)
      OBVIOUS
    <3>5. file.values = [f \in Fields |-> IF f \in L /\ Readable(r.old)
                                          THEN r.old.values[f] ELSE "blank"]
      <4>1. L = r.contract.required \cup r.contract.described
        BY <3>4 DEF Listed, Refreshed
      <4> QED BY <4>1 DEF Refreshed
    <3> HIDE DEF file
    <3>6. \A f \in Fields : ~Readable(r.old) => intended[y][f] = "blank"
      BY <3>3 DEF Right, Empty, Readable
    <3>7. Readable(r.old) => r.old.values = intended[y]
      BY <3>3 DEF Right, Readable
    <3> QED BY <2>1, <3>4, <3>5, <3>6, <3>7
  <2> QED BY <2>1, <2>2, <2>3, OpenedKeeps
<1>2. ASSUME NEW t \in Threads, NEW values \in [Fields -> Texts], Post(t, values)
      PROVE  FileKept(x)'
  <2>1. CASE Goes(t, Waiting) /\ UNCHANGED <<files, intended, gap>>
    <3>1. requests[t].at = "page"
      BY <1>2 DEF Post
    <3>2. requests'[t] = Waiting /\ \A u \in Threads \ {t} : requests'[u] = requests[u]
      BY <2>1, GoesTyped, WaitingIsRequest DEF SettingsOK
    <3>3. Elsewhere
      BY <2>1, <3>1, <3>2, WaitingIsRequest DEF Elsewhere, Writers
    <3> QED BY <3>3, ElsewhereKeeps
  <2>2. CASE /\ Opened(t, requests[t].id)
             /\ requests'[t].text.values = values /\ intended'[requests[t].id] = values
    <3>1. requests[t].id \in Ids
      BY <2>2 DEF Opened
    <3> QED BY <2>2, <3>1, OpenedKeeps
  <2> QED BY <1>2, <2>1, <2>2, PostOpens
<1>3. ASSUME NEW t \in Threads, WriteBack(t)
      PROVE  FileKept(x)'
  <2> DEFINE r == requests[t]
             y == r.rec.id
  <2>1. /\ Opened(t, y) /\ requests'[t].text = r.text /\ intended' = intended
        /\ r.text \in File
        /\ gap[y] \subseteq gap'[y] /\ (files[y] = r.text \/ "stale" \in gap'[y])
    BY <1>3, WriteBackOpens
  <2>2. y \in Ids
    BY <2>1 DEF Opened
  <2>3. ASSUME "stale" \notin gap'[y]
        PROVE  r.text.values = intended'[y]
    <3>1. ~Shared(t, y) /\ ~Holds(t, y)
      BY <2>1, <2>3 DEF Opened, Holds
    <3>2. \A u \in Threads : ~Holds(u, y)
      BY <3>1 DEF Shared
    <3>3. Right(r.text, y)
      <4>1. FileKept(y) /\ "stale" \notin gap[y] /\ files[y] = r.text
        BY <2>1, <2>2, <2>3
      <4> QED BY <3>2, <4>1 DEF FileKept
    <3> QED BY <2>1, <3>3 DEF Right
  <2> QED BY <2>1, <2>2, <2>3, OpenedKeeps
<1>4. ASSUME NEW t \in Threads, Saved(t) \/ Posted(t) \/ WrittenBack(t)
      PROVE  FileKept(x)'
  BY <1>4, FilledKeeps, SavedFills, PostedFills, WrittenBackFills
<1> QED BY <1>1, <1>2, <1>3, <1>4, OthersTyped, ElsewhereKeeps

LEMMA ThereStays ==
  ASSUME SettingsOK, SettingsStep, NEW x \in Ids, There(x)
  PROVE  There(x)'
<1> USE FilesAreFiles
<1>1. ASSUME NEW t \in Threads, NEW y \in Ids, Opened(t, y)
      PROVE  There(x)'
  BY <1>1 DEF Opened, There, SettingsOK
<1>2. ASSUME NEW t \in Threads, Filling(t)
      PROVE  There(x)'
  <2> DEFINE r == requests[t]
  <2>1. gap[x] \subseteq gap'[x] /\ r.at \in Writers /\ files'[r.rec.id] \in Closed(r)
    BY <1>2 DEF Filling
  <2>2. CASE x = r.rec.id
    <3>1. files'[x] \in {r.text, Unreadable, files[x]} /\ r.text \in File
      BY <2>1, <2>2, ClosedIsFile
    <3> QED BY <2>1, <3>1 DEF There
  <2>3. CASE x # r.rec.id
    BY <1>2, <2>1, <2>3 DEF Filling, There
  <2> QED BY <2>2, <2>3
<1>3. CASE Elsewhere
  BY <1>3 DEF Elsewhere, There
<1> QED BY <1>1, <1>2, <1>3, OpensOrCloses

Readers == {"fetched", "loaded", "saving", "written"}

(* What request u has read and is about to save it had read before, or     *)
(* reads it now.                                                           *)
Known(u) ==
  /\ requests'[u].at \in Readers =>
       \/ requests[u].at \in Readers /\ requests'[u].read = requests[u].read
       \/ requests'[u].read = saved
  /\ requests'[u].at \in {"saving", "written"} =>
       \/ requests[u].at \in {"saving", "written"} /\ requests'[u].rec = requests[u].rec
       \/ files'[requests'[u].rec.id] # None

LEMMA AllKnown ==
  ASSUME SettingsOK, SettingsStep, NEW u \in Threads
  PROVE  Known(u)
<1> USE FilesAreFiles, WaitingIsRequest DEF Readers
<1>1. ASSUME requests'[u] = requests[u]
      PROVE  Known(u)
  BY <1>1 DEF Known
<1>2. ASSUME requests'[u].at \notin Readers
      PROVE  Known(u)
  BY <1>2 DEF Known
<1>3. ASSUME Same(u)
      PROVE  Known(u)
  BY <1>3 DEF Known, Same, Writers
<1>4. ASSUME NEW t \in Threads, NEW r, Goes(t, r), r.at \notin Readers
      PROVE  Known(u)
  BY <1>1, <1>2, <1>4 DEF Goes, SettingsOK
<1>5. ASSUME NEW t \in Threads, NEW x \in Ids, NEW d \in Drivers, NEW i \in Interfaces,
             NEW e \in BOOLEAN, Submit(t, x, d, i, e)
      PROVE  Known(u)
  BY <1>4, <1>5 DEF Submit
<1>6. ASSUME NEW t \in Threads, NEW x \in Ids, OpenPage(t, x)
      PROVE  Known(u)
  <2>1. PICK text : Goes(t, [at |-> "page", id |-> x, text |-> text])
    BY <1>6 DEF OpenPage
  <2> QED BY <1>4, <2>1
<1>7. ASSUME NEW t \in Threads, NEW values \in [Fields -> Texts], Post(t, values)
      PROVE  Known(u)
  <2>1. CASE Goes(t, Waiting)
    BY <1>4, <2>1
  <2>2. CASE Opened(t, requests[t].id) /\ requests'[t].at = "posting"
    BY <1>2, <1>3, <2>2 DEF Opened
  <2> QED BY <1>7, <2>1, <2>2, PostOpens
<1>8. ASSUME NEW t \in Threads, Fetch(t)
      PROVE  Known(u)
  <2>1. PICK c, p : Goes(t, [at |-> "fetched", read |-> saved, contract |-> c, rec |-> p])
    BY <1>8 DEF Fetch
  <2>2. /\ requests'[t] = [at |-> "fetched", read |-> saved, contract |-> c, rec |-> p]
        /\ \A v \in Threads \ {t} : requests'[v] = requests[v]
    BY <2>1 DEF Goes, SettingsOK
  <2>3. CASE u = t
    BY <2>2, <2>3 DEF Known
  <2> QED BY <1>1, <2>2, <2>3
<1>9. ASSUME NEW t \in Threads, FetchFails(t) \/ Commit(t) \/ CommitFails(t)
      PROVE  Known(u)
  <2>1. Goes(t, Waiting)
    BY <1>9 DEF FetchFails, Commit, CommitFails
  <2> QED BY <1>4, <2>1
<1>10. ASSUME NEW t \in Threads, Load(t)
      PROVE  Known(u)
  <2>1. PICK c, p, old : Goes(t, [at |-> "loaded", read |-> requests[t].read, contract |-> c,
                                  rec |-> p, old |-> old])
    BY <1>10 DEF Load
  <2>2. /\ requests'[t].at = "loaded" /\ requests'[t].read = requests[t].read
        /\ requests[t].at = "fetched"
        /\ \A v \in Threads \ {t} : requests'[v] = requests[v]
    BY <1>10, <2>1 DEF Goes, SettingsOK, Load
  <2>3. CASE u = t
    BY <2>2, <2>3 DEF Known
  <2> QED BY <1>1, <2>2, <2>3
<1>11. ASSUME NEW t \in Threads, Save(t)
      PROVE  Known(u)
  <2>1. /\ Opened(t, requests[t].rec.id) /\ requests'[t].at = "saving"
        /\ requests'[t].read = requests[t].read /\ requests'[t].rec = requests[t].rec
        /\ requests[t].at = "loaded"
    BY <1>11, SaveOpens DEF Save
  <2>2. CASE u = t
    <3>1. files'[requests'[u].rec.id] = Unreadable
      BY <2>1, <2>2 DEF Opened, SettingsOK
    <3> QED BY <2>1, <2>2, <3>1 DEF Known
  <2>3. CASE u # t
    BY <1>3, <2>1, <2>3 DEF Opened
  <2> QED BY <2>2, <2>3
<1>12. ASSUME NEW t \in Threads, Saved(t)
      PROVE  Known(u)
  <2>1. /\ Filling(t) /\ requests[t].at = "saving"
        /\ \/ requests'[t] = Waiting
           \/ /\ requests'[t].at = "written" /\ requests'[t].rec = requests[t].rec
              /\ requests'[t].read = requests[t].read
    BY <1>12, SavedFills DEF Saved
  <2>2. CASE u = t
    BY <2>1, <2>2 DEF Known
  <2>3. CASE u # t
    BY <1>3, <2>1, <2>3 DEF Filling
  <2> QED BY <2>2, <2>3
<1>13. ASSUME NEW t \in Threads, Posted(t) \/ WrittenBack(t)
      PROVE  Known(u)
  <2>1. Filling(t) /\ requests'[t].at \in {"posted", "idle"}
    BY <1>13, PostedFills, WrittenBackFills
  <2>2. CASE u = t
    BY <1>2, <2>1, <2>2
  <2>3. CASE u # t
    BY <1>3, <2>1, <2>3 DEF Filling
  <2> QED BY <2>2, <2>3
<1>14. ASSUME NEW t \in Threads, InitDriver(t)
      PROVE  Known(u)
  <2> DEFINE r == requests[t]
  <2>1. r \in Filled
    BY <1>14, RequestAt DEF InitDriver, SettingsOK
  <2>2. [r EXCEPT !.at = "accepted"].at = "accepted" /\ [r EXCEPT !.at = "refused"].at = "refused"
    BY <2>1 DEF Filled
  <2>3. Goes(t, [r EXCEPT !.at = "accepted"]) \/ Goes(t, [r EXCEPT !.at = "refused"])
    BY <1>14 DEF InitDriver
  <2> QED BY <1>4, <2>2, <2>3
<1>15. ASSUME NEW t \in Threads, WriteBack(t)
      PROVE  Known(u)
  <2>1. Opened(t, requests[t].rec.id) /\ requests'[t].at = "closing"
    BY <1>15, WriteBackOpens
  <2>2. CASE u = t
    BY <1>2, <2>1, <2>2
  <2>3. CASE u # t
    BY <1>3, <2>1, <2>3 DEF Opened
  <2> QED BY <2>2, <2>3
<1>16. CASE Crash
  BY <1>2, <1>16 DEF Crash
<1>17. CASE Start \/ Restarted \/ UNCHANGED told \/ \E i \in Ids : ~serving /\ StartStops(i)
  BY <1>1, <1>17 DEF Start, Restarted, StartStops, told, settings
<1>18. ASSUME NEW d \in Drivers, NEW c \in Contracts, Upgrade(d, c)
       PROVE  Known(u)
  BY <1>1, <1>18 DEF Upgrade, settings
<1> QED
  BY <1>5, <1>6, <1>7, <1>8, <1>9, <1>10, <1>11, <1>12, <1>13, <1>14, <1>15, <1>16, <1>17, <1>18
  DEF SettingsStep

(* A list changes in a commit.                                             *)
LEMMA OthersKeepList ==
  ASSUME SettingsOK, SettingsStep
  PROVE  saved' = saved \/ \E t \in Threads : Commit(t)
<1>1. ASSUME NEW t \in Threads, NEW y \in Ids, Opened(t, y)
      PROVE  saved' = saved
  BY <1>1 DEF Opened
<1>2. ASSUME NEW t \in Threads, Save(t) \/ Saved(t) \/ Posted(t) \/ WriteBack(t) \/ WrittenBack(t)
      PROVE  saved' = saved
  BY <1>2 DEF Save, Saved, Posted, WriteBack, WrittenBack
<1>3. ASSUME NEW t \in Threads, NEW values \in [Fields -> Texts], Post(t, values)
      PROVE  saved' = saved
  BY <1>3 DEF Post
<1>4. ASSUME NEW t \in Threads, NEW x \in Ids, NEW d \in Drivers, NEW i \in Interfaces,
             NEW e \in BOOLEAN, Submit(t, x, d, i, e)
      PROVE  saved' = saved
  BY <1>4 DEF Submit
<1>5. ASSUME NEW t \in Threads, \/ \E x \in Ids : OpenPage(t, x)
                                \/ Fetch(t) \/ FetchFails(t) \/ Load(t) \/ CommitFails(t)
                                \/ InitDriver(t)
      PROVE  saved' = saved
  BY <1>5 DEF OpenPage, Fetch, FetchFails, Load, CommitFails, InitDriver
<1>6. ASSUME \/ \E d \in Drivers, c \in Contracts : Upgrade(d, c)
             \/ Start \/ (\E i \in Ids : ~serving /\ StartStops(i)) \/ Restarted \/ Crash
             \/ UNCHANGED told
      PROVE  saved' = saved
  BY <1>6 DEF Upgrade, Start, StartStops, Restarted, Crash, told, settings
<1> QED BY <1>2, <1>3, <1>4, <1>5, <1>6 DEF SettingsStep

LEMMA KeptStays ==
  ASSUME SettingsOK, SettingsOK', SettingsStep, KeptInv
  PROVE  KeptInv'
<1> USE FilesAreFiles
<1>1. \A x \in Ids : FileKept(x)'
  BY FilesStay DEF KeptInv
<1>2. \A x \in Ids : There(x) => There(x)'
  BY ThereStays
<1>3. /\ IdsOf(saved) \subseteq Ids
      /\ \A t \in Threads : requests[t].at \in Readers =>
           /\ requests[t].read \in Lists /\ IdsOf(requests[t].read) \subseteq Ids
           /\ requests[t].rec.id \in Ids /\ requests[t].rec \in Sound
  <2>1. \A t \in Threads : requests[t].at \in Readers =>
          requests[t] \in Fetched \cup Loaded \cup Saving
    BY RequestAt DEF SettingsOK, Readers
  <2> QED BY <2>1, IdsDiffer DEF SettingsOK, Fetched, Loaded, Saving, Sound, Provider
<1>4. /\ \A x \in IdsOf(saved) : There(x)'
      /\ \A t \in Threads : requests[t].at \in Readers => \A x \in IdsOf(requests[t].read) : There(x)'
      /\ \A t \in Threads : requests[t].at \in {"saving", "written"} =>
           \A x \in {requests[t].rec.id} : There(x)'
  <2>1. \A x \in IdsOf(saved) : There(x)'
    BY <1>2, <1>3 DEF KeptInv, ListsThere
  <2>2. ASSUME NEW t \in Threads, requests[t].at \in Readers, NEW x \in IdsOf(requests[t].read)
        PROVE  There(x)'
    BY <1>2, <1>3, <2>2 DEF KeptInv, ListsThere, Readers
  <2>3. ASSUME NEW t \in Threads, requests[t].at \in {"saving", "written"},
               NEW x \in {requests[t].rec.id}
        PROVE  There(x)'
    BY <1>2, <1>3, <2>3 DEF KeptInv, ListsThere, Readers
  <2> QED BY <2>1, <2>2, <2>3
<1>5. \A x \in IdsOf(saved') : There(x)'
  <2>1. CASE saved' = saved
    BY <1>4, <2>1
  <2>2. ASSUME NEW t \in Threads, Commit(t)
        PROVE  \A x \in IdsOf(saved') : There(x)'
    <3> DEFINE r == requests[t]
    <3>1. r.at = "written" /\ saved' = Put(r.read, r.rec)
      BY <2>2 DEF Commit
    <3>2. IdsOf(saved') = IdsOf(r.read) \cup {r.rec.id}
      BY <1>3, <3>1, PutSound DEF Readers
    <3>3. \A x \in {r.rec.id} : There(x)'
      BY <1>4, <3>1
    <3>4. \A x \in IdsOf(r.read) : There(x)'
      BY <1>4, <3>1 DEF Readers
    <3>5. ASSUME NEW x \in IdsOf(saved')
          PROVE  There(x)'
      BY <3>2, <3>3, <3>4
    <3> QED BY <3>5
  <2> QED BY <2>1, <2>2, OthersKeepList
<1>6. ASSUME NEW u \in Threads, requests'[u].at \in Readers
      PROVE  \A x \in IdsOf(requests'[u].read) : There(x)'
  <2>1. Known(u)
    BY AllKnown
  <2> QED BY <1>4, <1>6, <2>1 DEF Known
<1>7. ASSUME NEW u \in Threads, requests'[u].at \in {"saving", "written"}
      PROVE  There(requests[u].rec.id)'
  <2>1. Known(u)
    BY AllKnown
  <2>2. CASE files'[requests'[u].rec.id] # None
    BY <2>2 DEF There
  <2>3. CASE requests[u].at \in {"saving", "written"} /\ requests'[u].rec = requests[u].rec
    BY <1>4, <2>3 DEF There
  <2> QED BY <1>7, <2>1, <2>2, <2>3 DEF Known
<1>8. ListsThere'
  BY <1>5, <1>6, <1>7 DEF ListsThere, Readers
<1> QED BY <1>1, <1>8 DEF KeptInv

LEMMA KeptBegins ==
  ASSUME SettingsInit, SettingsOK
  PROVE  KeptInv /\ HeldInv
<1> USE FilesAreFiles, WaitingIsRequest
<1>1. \A t \in Threads : requests[t] = Waiting
  BY DEF SettingsInit
<1>2. \A t \in Threads, x \in Ids : ~Holds(t, x) /\ ~On(t, x)
  BY <1>1 DEF Holds, On, Writers
<1>3. CASE /\ saved = <<>> /\ files = [x \in Ids |-> None]
           /\ intended = [x \in Ids |-> Empty.values]
  <2>1. \A x \in Ids : FileKept(x)
    BY <1>2, <1>3 DEF FileKept, Right
  <2>2. ListsThere
    BY <1>1, <1>3 DEF ListsThere, IdsOf
  <2> QED BY <1>2, <2>1, <2>2 DEF KeptInv, HeldInv
<1>4. ASSUME NEW p \in Provider, NEW file \in File, Registered(p), saved = <<p>>,
             files = [x \in Ids |-> IF x = 1 THEN file ELSE None],
             intended = [x \in Ids |-> IF x = 1 THEN file.values ELSE Empty.values]
      PROVE  KeptInv /\ HeldInv
  <2>1. \A x \in Ids : FileKept(x)
    <3>1. \A x \in Ids : Right(files[x], x)
      BY <1>4 DEF Right, Readable
    <3> QED BY <1>2, <3>1 DEF FileKept
  <2>2. \A x \in IdsOf(saved) : x = 1 /\ x \in Ids
    BY <1>4, IdsDiffer DEF IdsOf, Registered, SettingsOK
  <2>3. \A x \in IdsOf(saved) : There(x)
    BY <1>4, <2>2 DEF There
  <2>4. ListsThere
    BY <1>1, <2>3 DEF ListsThere
  <2> QED BY <1>2, <2>1, <2>4 DEF KeptInv, HeldInv
<1> QED BY <1>3, <1>4 DEF SettingsInit

-----------------------------------------------------------------------------
(* What keeps a saved provider and its file together.                      *)

(* The file, and what is being written to it from a page, list what the    *)
(* interface needs.                                                        *)
Fits(p) ==
  /\ files[p.id] = Unreadable \/ (Readable(files[p.id]) /\ Suits(p, files[p.id].required))
  /\ \A t \in Threads :
       On(t, p.id) /\ requests[t].at \in {"posting", "closing"} =>
         Suits(p, requests[t].text.required)

(* It does, but while a request has written the file and not yet committed *)
(* the record.                                                             *)
SuitedInv ==
  \A p \in ToSet(saved) :
    Excused(p.id, {"lost", "torn"}) \/ Writing(p.id) \/ Fits(p)

(* The requests of the others stay as they are.                            *)
LEMMA WritersGoOn ==
  ASSUME NEW t \in Threads, NEW x, Writing(x),
         requests[t].at = "written" => requests[t].rec.id # x,
         \A u \in Threads \ {t} : requests[u].at \notin Writers => requests'[u] = requests[u]
  PROVE  Writing(x)'
<1>1. PICK u \in Threads : requests[u].at = "written" /\ requests[u].rec.id = x
  BY DEF Writing
<1>2. u # t
  BY <1>1
<1>3. requests'[u] = requests[u]
  BY <1>1, <1>2 DEF Writers
<1> QED BY <1>1, <1>3 DEF Writing

LEMMA SuitedStays ==
  ASSUME SettingsOK, SettingsOK', SettingsStep, SuitedInv, HeldInv
  PROVE  SuitedInv'
<1> USE FilesAreFiles, WaitingIsRequest
<1> SUFFICES ASSUME NEW p \in ToSet(saved'), ~Excused(p.id, {"lost", "torn"})'
             PROVE  Writing(p.id)' \/ Fits(p)'
  BY DEF SuitedInv
<1> DEFINE x == p.id
           Goal == Writing(p.id)' \/ Fits(p)'
<1>1. p \in Sound /\ x \in Ids
  BY IdsDiffer DEF SettingsOK, Sound, Provider
<1>2. "lost" \notin gap'[x] /\ "torn" \notin gap'[x] /\ "lost" \notin gap[x]
      /\ ~Excused(x, {"lost", "torn"})
  BY <1>1, LossesLast DEF Excused
<1>3. p \in ToSet(saved) => Writing(x) \/ Fits(p)
  BY <1>2 DEF SuitedInv
<1>4. \A t \in Threads : On(t, x) => HeldAlone(t, x)
  BY <1>1, <1>2 DEF HeldInv
<1>5. ASSUME NEW t \in Threads, \A u \in Threads \ {t} : Same(u) /\ (On(u, x)' <=> On(u, x)),
             files'[x] = files[x] \/ files'[x] = Unreadable,
             On(t, x)' /\ requests'[t].at \in {"posting", "closing"} =>
               Suits(p, requests'[t].text.required),
             Fits(p)
      PROVE  Fits(p)'
  BY <1>5 DEF Fits, Same, On, Writers
<1>6. ASSUME NEW t \in Threads, \A u \in Threads \ {t} : Same(u), requests[t].at # "written",
             saved' = saved, Fits(p) => Fits(p)'
      PROVE  Goal
  <2>1. Writing(x) => Writing(x)'
    BY <1>6, WritersGoOn DEF Same
  <2> QED BY <1>3, <1>6, <2>1
<1>7. ASSUME NEW t \in Threads, NEW y \in Ids, Opened(t, y), requests'[t].at = "saving" \/ x # y
      PROVE  Goal
  <2>1. \A u \in Threads \ {t} : Same(u) /\ (On(u, x)' <=> On(u, x))
    BY <1>7 DEF Opened, On, Same
  <2>2. files'[x] = files[x] \/ files'[x] = Unreadable
    BY <1>1, <1>7 DEF Opened, SettingsOK
  <2>3. saved' = saved /\ requests[t].at # "written" /\ requests'[t].rec.id = y
    BY <1>7 DEF Opened
  <2>4. Fits(p) => Fits(p)'
    BY <1>5, <1>7, <2>1, <2>2, <2>3 DEF On
  <2> QED BY <1>6, <2>1, <2>3, <2>4
<1>8. ASSUME NEW t \in Threads, Save(t)
      PROVE  Goal
  <2>1. Opened(t, requests[t].rec.id) /\ requests'[t].at = "saving"
    BY <1>8, SaveOpens
  <2> QED BY <1>7, <2>1 DEF Opened
<1>9. ASSUME NEW t \in Threads, NEW y \in Ids, Opened(t, y), x = y,
             Fits(p) => Suits(p, requests'[t].text.required)
      PROVE  Goal
  <2>1. \A u \in Threads \ {t} : Same(u) /\ (On(u, x)' <=> On(u, x))
    BY <1>9 DEF Opened, On, Same
  <2>2. files'[x] = Unreadable
    BY <1>1, <1>9 DEF Opened, SettingsOK
  <2>3. saved' = saved /\ requests[t].at # "written"
    BY <1>9 DEF Opened
  <2>4. Fits(p) => Fits(p)'
    BY <1>5, <1>9, <2>1, <2>2
  <2> QED BY <1>6, <2>1, <2>3, <2>4
<1>10. ASSUME Elsewhere
       PROVE  Fits(p) => Fits(p)'
  <2> SUFFICES ASSUME Fits(p) PROVE Fits(p)'
    OBVIOUS
  <2>1. \A t \in Threads : On(t, x)' => requests'[t] = requests[t]
    BY <1>10 DEF Elsewhere, On, Writers
  <2>2. files'[x] = files[x] \/ files'[x] = Unreadable
    BY <1>1, <1>10 DEF Elsewhere
  <2> QED BY <2>1, <2>2 DEF Fits, On
<1>11. ASSUME Elsewhere, NEW t \in Threads, NEW r, Goes(t, r), requests[t].at # "written", saved' = saved
       PROVE  Goal
  <2>1. \A u \in Threads \ {t} : Same(u)
    BY <1>11 DEF Goes, Same, SettingsOK
  <2> QED BY <1>6, <1>10, <1>11, <2>1
<1>12. ASSUME NEW t \in Threads, NEW values \in [Fields -> Texts], Post(t, values)
       PROVE  Goal
  <2> DEFINE r == requests[t]
  <2>1. r \in Viewing /\ r.at = "page" /\ saved' = saved
    BY <1>12, RequestAt DEF Post, SettingsOK
  <2>2. CASE Goes(t, Waiting) /\ UNCHANGED <<files, intended, gap, saved, contract, configured>>
    <3>1. requests'[t] = Waiting /\ \A u \in Threads \ {t} : requests'[u] = requests[u]
      BY <2>2, GoesTyped DEF SettingsOK
    <3>2. Elsewhere
      BY <2>1, <2>2, <3>1 DEF Elsewhere, Writers
    <3> QED BY <1>11, <2>1, <2>2, <3>2
  <2>3. CASE /\ Opened(t, r.id) /\ requests'[t].text \in File
             /\ "lost" \in gap'[r.id] \/ SameFields(r.id, requests'[t].text)
    <3>1. CASE x = r.id
      <4>1. SameFields(x, requests'[t].text)
        BY <1>2, <2>3, <3>1
      <4>2. Fits(p) => Suits(p, requests'[t].text.required)
        BY <4>1 DEF SameFields, Fits, Readable
      <4> QED BY <1>9, <2>3, <3>1, <4>2 DEF Opened
    <3>2. CASE x # r.id
      BY <1>7, <2>3, <3>2 DEF Opened
    <3> QED BY <3>1, <3>2
  <2> QED BY <1>12, <2>2, <2>3, PostOpens
<1>13. ASSUME NEW t \in Threads, WriteBack(t)
       PROVE  Goal
  <2> DEFINE r == requests[t]
             y == r.rec.id
  <2>1. /\ Opened(t, y) /\ requests'[t].text = r.text /\ r.text \in File
        /\ files[y] = r.text \/ {"stale", "lost"} \subseteq gap'[y]
    BY <1>13, WriteBackOpens
  <2>2. CASE x = y
    <3>1. files[x] = r.text
      BY <1>2, <2>1, <2>2
    <3>2. Fits(p) => Suits(p, requests'[t].text.required)
      BY <2>1, <3>1 DEF Fits
    <3> QED BY <1>9, <2>1, <2>2, <3>2 DEF Opened
  <2>3. CASE x # y
    BY <1>7, <2>1, <2>3 DEF Opened
  <2> QED BY <2>2, <2>3
<1>14. ASSUME NEW t \in Threads, Filling(t), x # requests[t].rec.id
       PROVE  Goal
  <2>1. \A u \in Threads \ {t} : Same(u) /\ (On(u, x)' <=> On(u, x))
    BY <1>14 DEF Filling, On, Same
  <2>2. ~On(t, x)' /\ saved' = saved /\ requests[t].at # "written"
    BY <1>14 DEF Filling, On, Writers
  <2>3. Fits(p) => files'[x] = files[x]
    BY <1>1, <1>2, <1>14 DEF Filling, Fits, Readable
  <2>4. Fits(p) => Fits(p)'
    BY <1>5, <2>1, <2>2, <2>3
  <2> QED BY <1>6, <2>1, <2>2, <2>4
<1>15. ASSUME NEW t \in Threads, Filling(t), x = requests[t].rec.id
       PROVE  /\ files'[x] = requests[t].text /\ requests[t].text \in File
              /\ \A u \in Threads : ~On(u, x)'
              /\ saved' = saved /\ requests[t].at # "written" /\ \A u \in Threads \ {t} : Same(u)
  <2>1. On(t, x)
    BY <1>15 DEF Filling, On
  <2>2. HeldAlone(t, x)
    BY <1>4, <2>1
  <2>3. files'[x] = requests[t].text /\ requests[t].text \in File
    BY <1>15, <2>1, <2>2, ClosedIsFile DEF Filling, On, HeldAlone
  <2>4. \A u \in Threads : ~On(u, x)'
    BY <1>15, <2>2 DEF Filling, On, Same, HeldAlone
  <2> QED BY <1>15, <2>3, <2>4 DEF Filling, Writers
<1>16. ASSUME NEW t \in Threads, Posted(t) \/ WrittenBack(t)
       PROVE  Goal
  <2>1. Filling(t) /\ requests[t].at \in {"posting", "closing"}
    BY <1>16, PostedFills, WrittenBackFills DEF Posted, WrittenBack
  <2>2. CASE x = requests[t].rec.id
    <3>1. Fits(p) => Suits(p, requests[t].text.required)
      BY <2>1, <2>2 DEF Fits, On, Writers
    <3>2. Fits(p) => Fits(p)'
      BY <1>15, <2>1, <2>2, <3>1 DEF Fits, Readable
    <3> QED BY <1>6, <1>15, <2>1, <2>2, <3>2
  <2> QED BY <1>14, <2>1, <2>2
<1>17. ASSUME NEW t \in Threads, Saved(t)
       PROVE  Goal
  <2> DEFINE r == requests[t]
  <2>1. /\ Filling(t) /\ r \in Saving
        /\ \/ r.rec \in ToSet(saved) \/ "torn" \in gap'[r.rec.id]
           \/ requests'[t].at = "written" /\ requests'[t].rec = r.rec
    BY <1>17, SavedFills
  <2>2. CASE x = r.rec.id
    <3>1. CASE requests'[t].at = "written" /\ requests'[t].rec = r.rec
      BY <2>2, <3>1 DEF Writing
    <3>2. CASE r.rec \in ToSet(saved)
      <4>1. p \in ToSet(saved)
        BY <1>15, <2>1, <2>2
      <4>2. p = r.rec
        BY <2>2, <3>2, <4>1, IdsDiffer DEF SettingsOK
      <4>3. files'[x] = r.text /\ r.text \in File /\ Suits(p, r.text.required)
        BY <1>15, <2>1, <2>2, <4>2 DEF Saving
      <4> QED BY <1>15, <2>1, <2>2, <4>3 DEF Fits, Readable
    <3> QED BY <1>2, <2>1, <2>2, <3>1, <3>2
  <2> QED BY <1>14, <2>1, <2>2
<1>18. ASSUME NEW t \in Threads, Commit(t)
       PROVE  Goal
  <2> DEFINE r == requests[t]
             reverted == {q.id : q \in ToSet(Put(r.read, r.rec)) \ (ToSet(saved) \cup {r.rec})}
  <2>1. /\ r \in Fetched /\ saved' = Put(r.read, r.rec) /\ Goes(t, Waiting)
        /\ files' = files /\ r.at = "written"
    BY <1>18, RequestAt DEF Commit, SettingsOK
  <2>2. (x \in reverted \/ (x = r.rec.id /\ ~StillFor(x, r.contract))) => "torn" \in gap'[x]
    BY <1>1, <1>18 DEF Commit
  <2>3. requests'[t] = Waiting /\ \A u \in Threads \ {t} : requests'[u] = requests[u]
    BY <2>1, GoesTyped DEF SettingsOK
  <2>4. CASE p = r.rec
    <3>1. StillFor(x, r.contract)
      BY <1>2, <2>2, <2>4
    <3>2. Suits(p, r.contract.required)
      BY <2>1, <2>4 DEF Fetched
    <3>3. files[x] = Unreadable \/ (Readable(files[x]) /\ files[x].required = r.contract.required)
      BY <3>1 DEF StillFor, Readable
    <3>4. ASSUME NEW u \in Threads, On(u, x)'
          PROVE  requests'[u].text.required = r.contract.required
      <4>1. u # t /\ requests'[u] = requests[u] /\ On(u, x)
        BY <2>3, <3>4 DEF On, Writers
      <4>2. requests[u].text \in File
        BY <4>1, ClosedIsFile DEF On
      <4>3. Holds(u, x)
        BY <1>4, <4>1 DEF HeldAlone, Holds, On, Writers
      <4>4. Readable(requests[u].text)
        BY <4>2 DEF Readable
      <4>5. requests[u].text.required = r.contract.required
        BY <3>1, <4>3, <4>4 DEF StillFor
      <4> QED BY <4>1, <4>5
    <3> QED BY <2>1, <3>2, <3>3, <3>4 DEF Fits
  <2>5. CASE p # r.rec
    <3>1. p.id # r.rec.id
      BY <2>1, <2>5, PutSound DEF Fetched
    <3>2. p \in ToSet(saved)
      BY <1>2, <2>1, <2>2, <2>5
    <3>3. Writing(x) => Writing(x)'
      BY <2>1, <2>3, <3>1, WritersGoOn
    <3>4. Fits(p) => Fits(p)'
      BY <2>1, <2>3 DEF Fits, On, Writers
    <3> QED BY <1>3, <3>2, <3>3, <3>4
  <2> QED BY <2>4, <2>5
<1>19. ASSUME NEW t \in Threads, CommitFails(t)
       PROVE  Goal
  <2>1. requests[t].rec.id # x /\ Goes(t, Waiting) /\ saved' = saved /\ files' = files
    BY <1>1, <1>2, <1>19 DEF CommitFails, SettingsOK
  <2>2. requests'[t] = Waiting /\ \A u \in Threads \ {t} : requests'[u] = requests[u]
    BY <2>1, GoesTyped DEF SettingsOK
  <2>3. Writing(x) => Writing(x)'
    BY <2>1, <2>2, WritersGoOn
  <2>4. Fits(p) => Fits(p)'
    BY <2>1, <2>2 DEF Fits, On, Writers
  <2> QED BY <1>3, <2>1, <2>3, <2>4
<1>20. CASE Elsewhere
  <2>1. ASSUME NEW t \in Threads,
               \/ \E y \in Ids, d \in Drivers, i \in Interfaces, e \in BOOLEAN : Submit(t, y, d, i, e)
               \/ \E y \in Ids : OpenPage(t, y)
               \/ Fetch(t) \/ FetchFails(t) \/ Load(t) \/ InitDriver(t)
        PROVE  Goal
    <3>1. (\E r : Goes(t, r)) /\ requests[t].at # "written" /\ saved' = saved
      <4>1. CASE \E y \in Ids, d \in Drivers, i \in Interfaces, e \in BOOLEAN : Submit(t, y, d, i, e)
        BY <4>1 DEF Submit
      <4>2. CASE \E y \in Ids : OpenPage(t, y)
        BY <4>2 DEF OpenPage
      <4>3. CASE Fetch(t)
        BY <4>3 DEF Fetch
      <4>4. CASE FetchFails(t)
        BY <4>4 DEF FetchFails
      <4>5. CASE Load(t)
        BY <4>5 DEF Load
      <4>6. CASE InitDriver(t)
        BY <4>6 DEF InitDriver
      <4> QED BY <2>1, <4>1, <4>2, <4>3, <4>4, <4>5, <4>6
    <3> QED BY <1>11, <1>20, <3>1
  <2>2. CASE Crash
    <3>1. Writing(x) => "torn" \in gap'[x]
      BY <1>1, <2>2 DEF Crash
    <3> QED BY <1>2, <1>3, <1>10, <1>20, <2>2, <3>1 DEF Crash
  <2>3. CASE \/ Start \/ Restarted \/ UNCHANGED told \/ \E i \in Ids : ~serving /\ StartStops(i)
             \/ \E d \in Drivers, c \in Contracts : Upgrade(d, c)
    <3>1. UNCHANGED <<saved, requests>>
      BY <2>3 DEF Start, Restarted, StartStops, Upgrade, told, settings
    <3>2. Writing(x) => Writing(x)'
      BY <3>1 DEF Writing
    <3> QED BY <1>3, <1>10, <1>20, <3>1, <3>2
  <2> QED
    BY <1>8, <1>12, <1>13, <1>16, <1>17, <1>18, <1>19, <2>1, <2>2, <2>3 DEF SettingsStep
<1> QED BY <1>8, <1>12, <1>13, <1>16, <1>17, <1>20, OthersTyped

LEMMA SuitedBegins ==
  ASSUME SettingsInit, SettingsOK
  PROVE  SuitedInv
<1> USE FilesAreFiles, SettingsAssumption, WaitingIsRequest
<1>1. CASE saved = <<>>
  BY <1>1 DEF SuitedInv, ToSet
<1>2. ASSUME NEW p \in Provider, NEW file \in File, Registered(p), saved = <<p>>,
             file.required = FirstContract.required,
             files = [x \in Ids |-> IF x = 1 THEN file ELSE None]
      PROVE  SuitedInv
  <2>1. \A q \in ToSet(saved) : q = p
    BY <1>2 DEF ToSet
  <2>2. p.id = 1 /\ p.id \in Ids /\ p.interface \in Interfaces
    BY <1>2 DEF Registered, Provider
  <2>3. files[p.id] = file
    BY <1>2, <2>2
  <2>4. Suits(p, FirstContract.required)
    BY <1>2, <2>2, ChoiceStands DEF Registered, Suits
  <2>5. \A t \in Threads : requests[t] = Waiting
    BY DEF SettingsInit
  <2>6. Fits(p)
    BY <1>2, <2>3, <2>4, <2>5 DEF Fits, On, Writers, Readable
  <2> QED BY <2>1, <2>6 DEF SuitedInv
<1> QED BY <1>1, <1>2 DEF SettingsInit

-----------------------------------------------------------------------------
(* What keeps a driver and the file of a saved provider together.          *)

Says(p, file) ==
  Initialisable(file) => configured[p.driver] = Sent(p.interface, Body(file))

(* The file says what the driver was told, and so does what is written to  *)
(* it with the outcome of an init.                                         *)
ToldSo(p) ==
  /\ Says(p, files[p.id])
  /\ \A t \in Threads :
       On(t, p.id) /\ requests[t].at = "closing" => Says(p, requests[t].text)

(* It does unless the driver awaits its next init.                         *)
ToldInv ==
  \A p \in ToSet(saved) : Excused(p.id, {"lost", "torn", "unsettled"}) \/ ToldSo(p)

(* A pass over providers that are saved leaves each that it does not       *)
(* unsettle told, if it was.                                               *)
LEMMA PassTells ==
  ASSUME SettingsOK, NEW ps \in SUBSET ToSet(saved), NEW last(_), NEW p \in ToSet(saved),
         configured' = Told(ps, last),
         "unsettled" \notin AfterPass(ps, last)[p.id],
         "unsettled" \notin gap[p.id] => Says(p, files[p.id])
  PROVE  Initialisable(files[p.id]) =>
           configured'[p.driver] = Sent(p.interface, Body(files[p.id]))
<1>1. p \in Sound /\ p.id \in Ids /\ p.driver \in Drivers
  BY IdsDiffer DEF SettingsOK, Sound, Provider
<1>2. PICK l : l = last(p.driver)
  OBVIOUS
<1>3. configured'[p.driver] = IF \E q \in ps : q.driver = p.driver
                              THEN Sent(l.interface, Body(files[l.id]))
                              ELSE configured[p.driver]
  BY <1>1, <1>2 DEF Told
<1>4. AfterPass(ps, last)[p.id] =
        IF \E q \in ps : q.id = p.id
        THEN (gap[p.id] \ {"unsettled"})
               \cup (IF \E q \in ps : q.id = p.id /\ last(q.driver) # q THEN {"unsettled"} ELSE {})
        ELSE IF \E q \in ToSet(saved) : q.id = p.id /\ \E o \in ps : o.driver = q.driver
             THEN gap[p.id] \cup {"unsettled"} ELSE gap[p.id]
  BY <1>1 DEF AfterPass
<1>5. CASE p \in ps
  <2>1. last(p.driver) = p
    BY <1>4, <1>5
  <2> QED BY <1>2, <1>3, <1>5, <2>1
<1>6. CASE p \notin ps
  <2>1. ~\E q \in ps : q.id = p.id
    BY <1>6, IdsDiffer DEF SettingsOK
  <2>2. ~\E q \in ps : q.driver = p.driver
    BY <1>4, <2>1
  <2>3. "unsettled" \notin gap[p.id]
    BY <1>4, <2>1
  <2> QED BY <1>3, <2>2, <2>3 DEF Says
<1> QED BY <1>5, <1>6

LEMMA ToldStays ==
  ASSUME SettingsOK, SettingsOK', SettingsStep, Offline, ToldInv, HeldInv
  PROVE  ToldInv'
<1> USE FilesAreFiles, WaitingIsRequest
<1> SUFFICES ASSUME NEW p \in ToSet(saved'), ~Excused(p.id, {"lost", "torn", "unsettled"})'
             PROVE  ToldSo(p)'
  BY DEF ToldInv
<1> DEFINE x == p.id
<1>1. p \in Sound /\ x \in Ids /\ p.driver \in Drivers
  BY IdsDiffer DEF SettingsOK, Sound, Provider
<1>2. "lost" \notin gap'[x] /\ "torn" \notin gap'[x] /\ "unsettled" \notin gap'[x]
  BY DEF Excused
<1>3. "lost" \notin gap[x] /\ "torn" \notin gap[x]
  BY <1>1, <1>2, LossesLast
<1>4. p \in ToSet(saved) /\ "unsettled" \notin gap[x] => ToldSo(p)
  BY <1>3 DEF ToldInv, Excused
<1>5. \A t \in Threads : On(t, x) => HeldAlone(t, x)
  BY <1>1, <1>3 DEF HeldInv
<1> HIDE DEF x
<1>6. ASSUME saved' = saved, "unsettled" \notin gap[x],
             configured'[p.driver] = configured[p.driver],
             files'[x] \in {files[x], Unreadable, None},
             \A t \in Threads : On(t, x)' /\ requests'[t].at = "closing" =>
               \/ On(t, x) /\ requests[t].at = "closing" /\ requests'[t].text = requests[t].text
               \/ requests'[t].text = files[x]
      PROVE  ToldSo(p)'
  <2>1. Says(p, files[x]) /\ \A t \in Threads :
          On(t, x) /\ requests[t].at = "closing" => Says(p, requests[t].text)
    BY <1>4, <1>6 DEF ToldSo, x
  <2>2. Says(p, files[x])'
    BY <1>6, <2>1 DEF Says, Initialisable, Readable
  <2>3. ASSUME NEW t \in Threads, On(t, x)', requests'[t].at = "closing"
        PROVE  Says(p, requests[t].text)'
    BY <1>6, <2>1, <2>3 DEF Says
  <2> QED BY <2>2, <2>3 DEF ToldSo, x
<1>7. ASSUME NEW t \in Threads, NEW y \in Ids, Opened(t, y),
             x = y /\ requests'[t].at = "closing" => requests'[t].text = files[x]
      PROVE  ToldSo(p)'
  <2>1. "unsettled" \notin gap[x]
    BY <1>1, <1>2, <1>7 DEF Opened, x
  <2>2. files'[x] \in {files[x], Unreadable}
    BY <1>1, <1>7 DEF Opened, SettingsOK, x
  <2>3. saved' = saved /\ configured' = configured
    BY <1>7 DEF Opened
  <2>4. ASSUME NEW u \in Threads, On(u, x)', requests'[u].at = "closing"
        PROVE  \/ On(u, x) /\ requests[u].at = "closing" /\ requests'[u].text = requests[u].text
               \/ requests'[u].text = files[x]
    BY <1>7, <2>4 DEF Opened, On, Same
  <2> QED BY <1>6, <2>1, <2>2, <2>3, <2>4
<1>8. ASSUME Elsewhere, configured'[p.driver] = configured[p.driver], saved' = saved,
             "unsettled" \notin gap[x]
      PROVE  ToldSo(p)'
  <2>1. files'[x] \in {files[x], Unreadable}
    BY <1>1, <1>8 DEF Elsewhere, x
  <2>2. \A u \in Threads : On(u, x)' => requests'[u] = requests[u]
    BY <1>8 DEF Elsewhere, On, Writers
  <2> QED BY <1>6, <1>8, <2>1, <2>2 DEF On
<1>9. ASSUME NEW t \in Threads, Save(t)
      PROVE  ToldSo(p)'
  <2>1. Opened(t, requests[t].rec.id) /\ requests'[t].at = "saving"
    BY <1>9, SaveOpens
  <2> QED BY <1>7, <2>1 DEF Opened
<1>10. ASSUME NEW t \in Threads, NEW values \in [Fields -> Texts], Post(t, values)
       PROVE  ToldSo(p)'
  <2>1. CASE Goes(t, Waiting) /\ UNCHANGED <<files, intended, gap, saved, contract, configured>>
    <3>1. requests'[t] = Waiting /\ \A u \in Threads \ {t} : requests'[u] = requests[u]
      BY <2>1, GoesTyped DEF SettingsOK
    <3>2. "unsettled" \notin gap[x]
      BY <1>2, <2>1
    <3> QED BY <1>6, <2>1, <3>1, <3>2 DEF On, Writers
  <2>2. CASE Opened(t, requests[t].id) /\ requests'[t].at = "posting"
    BY <1>7, <2>2 DEF Opened
  <2> QED BY <1>10, <2>1, <2>2, PostOpens
<1>11. ASSUME NEW t \in Threads, WriteBack(t)
       PROVE  ToldSo(p)'
  <2> DEFINE r == requests[t]
  <2>1. /\ Opened(t, r.rec.id) /\ requests'[t].text = r.text
        /\ files[r.rec.id] = r.text \/ {"stale", "lost"} \subseteq gap'[r.rec.id]
    BY <1>11, WriteBackOpens
  <2>2. x = r.rec.id => requests'[t].text = files[x]
    BY <1>2, <2>1
  <2>3. r.rec.id \in Ids
    BY <2>1 DEF Opened
  <2> HIDE DEF r
  <2> QED BY <1>7, <2>1, <2>2, <2>3
<1>12. ASSUME NEW t \in Threads, Filling(t), x # requests[t].rec.id
       PROVE  ToldSo(p)'
  <2>1. "unsettled" \notin gap[x] /\ saved' = saved /\ configured' = configured
    BY <1>1, <1>2, <1>12 DEF Filling, x
  <2>2. files'[x] \in {files[x], None}
    BY <1>1, <1>12 DEF Filling, x
  <2>3. ASSUME NEW u \in Threads, On(u, x)'
        PROVE  On(u, x) /\ requests'[u].at = requests[u].at /\ requests'[u].text = requests[u].text
    BY <1>12, <2>3 DEF Filling, On, Same
  <2> QED BY <1>6, <2>1, <2>2, <2>3
<1>13. ASSUME NEW t \in Threads, Saved(t) \/ Posted(t)
       PROVE  ToldSo(p)'
  <2>1. Filling(t) /\ "unsettled" \in gap'[requests[t].rec.id]
    BY <1>13, SavedFills, PostedFills
  <2> QED BY <1>2, <1>12, <2>1
<1>14. ASSUME NEW t \in Threads, WrittenBack(t)
       PROVE  ToldSo(p)'
  <2> DEFINE r == requests[t]
  <2>1. Filling(t) /\ gap' = gap /\ r.at = "closing" /\ saved' = saved /\ configured' = configured
    BY <1>14, WrittenBackFills DEF WrittenBack, drivers
  <2>2. CASE x = r.rec.id
    <3>1. On(t, x)
      BY <2>1, <2>2 DEF On, Writers
    <3>2. HeldAlone(t, x)
      BY <1>5, <3>1
    <3>3. files'[x] = r.text
      BY <2>1, <2>2, <3>2, ClosedIsFile DEF Filling, HeldAlone
    <3>4. ToldSo(p)
      BY <1>2, <1>4, <2>1
    <3>5. Says(p, r.text)
      BY <2>1, <3>1, <3>4 DEF ToldSo, x
    <3>6. Says(p, files[x])'
      BY <2>1, <3>3, <3>5 DEF Says
    <3>7. \A u \in Threads : ~On(u, x)'
      BY <2>1, <2>2, <3>2 DEF Filling, HeldAlone, On, Same
    <3> QED BY <3>6, <3>7 DEF ToldSo, x
  <2> QED BY <1>12, <2>1, <2>2
<1>15. ASSUME NEW t \in Threads, Commit(t), Elsewhere
       PROVE  ToldSo(p)'
  <2> DEFINE r == requests[t]
             reverted == {q.id : q \in ToSet(Put(r.read, r.rec)) \ (ToSet(saved) \cup {r.rec})}
  <2>1. /\ r \in Fetched /\ saved' = Put(r.read, r.rec) /\ Goes(t, Waiting)
        /\ files' = files /\ configured' = configured /\ r.at = "written"
    BY <1>15, RequestAt DEF Commit, SettingsOK, drivers
  <2>2. gap[x] \subseteq gap'[x] /\ x # r.rec.id /\ x \notin reverted
    BY <1>1, <1>2, <1>15 DEF Commit, SettingsOK, x
  <2>3. p \in ToSet(saved)
    BY <2>1, <2>2 DEF x
  <2>4. ToldSo(p)
    BY <1>2, <1>4, <2>2, <2>3
  <2>5. requests'[t] = Waiting /\ \A u \in Threads \ {t} : requests'[u] = requests[u]
    BY <2>1, GoesTyped DEF SettingsOK
  <2>6. \A u \in Threads : On(u, x)' => requests'[u] = requests[u] /\ On(u, x)
    BY <2>5 DEF On, Writers
  <2>7. Says(p, files[x])'
    BY <2>1, <2>4 DEF ToldSo, Says, x
  <2>8. ASSUME NEW u \in Threads, On(u, x)', requests'[u].at = "closing"
        PROVE  Says(p, requests[u].text)'
    <3>1. On(u, x) /\ requests[u].at = "closing" /\ requests'[u] = requests[u]
      BY <2>6, <2>8
    <3>2. Says(p, requests[u].text)
      BY <2>4, <3>1 DEF ToldSo, x
    <3> QED BY <2>1, <3>1, <3>2 DEF Says
  <2> QED BY <2>7, <2>8 DEF ToldSo, x
<1>16. ASSUME NEW t \in Threads, InitDriver(t), Elsewhere
       PROVE  ToldSo(p)'
  <2> DEFINE r == requests[t]
             d == r.rec.driver
             body == Body(r.text)
  <2>1. r \in Filled /\ r.at = "posted" /\ saved' = saved /\ files' = files
    BY <1>16, RequestAt DEF InitDriver, SettingsOK
  <2>2. p \in ToSet(saved)
    BY <2>1
  <2>3. PICK g : g = Replaced(r)
    OBVIOUS
  <2>4. gap[x] \subseteq g[x] /\ (r.rec.id = x /\ files[x] # r.text => "lost" \in g[x])
    BY <1>1, <2>3 DEF Replaced, SettingsOK, x
  <2>5. CASE /\ configured' = [configured EXCEPT ![d] = Sent(r.rec.interface, body)]
             /\ gap' = AfterInit(g, r.rec)
    <3>1. CASE p = r.rec
      <4>1. gap'[x] = g[x] \ {"unsettled"}
        BY <1>1, <2>2, <2>5, <3>1 DEF AfterInit, x
      <4>2. files[x] = r.text /\ r.text \in File
        BY <1>2, <2>1, <2>4, <3>1, <4>1 DEF x, Filled
      <4>3. PICK c : c = Sent(r.rec.interface, body)
        OBVIOUS
      <4>4. configured'[p.driver] = c
        BY <1>1, <2>5, <3>1, <4>3 DEF SettingsOK
      <4>5. Says(p, files[x])'
        BY <2>1, <3>1, <4>2, <4>3, <4>4 DEF Says
      <4>6. ASSUME NEW u \in Threads, On(u, x)'
            PROVE  FALSE
        <5>1. On(u, x)
          BY <1>16, <4>6 DEF Elsewhere, On, Writers
        <5> QED BY <1>5, <4>2, <5>1 DEF HeldAlone
      <4> QED BY <4>5, <4>6 DEF ToldSo, x
    <3>2. CASE p # r.rec
      <4>1. ~(x = r.rec.id /\ r.rec \in ToSet(saved))
        BY <2>2, <3>2, IdsDiffer DEF SettingsOK, x
      <4>2. gap'[x] = IF \E q \in ToSet(saved) : q.id = x /\ q.driver = d
                      THEN g[x] \cup {"unsettled"} ELSE g[x]
        BY <1>1, <2>5, <4>1 DEF AfterInit, x
      <4>3. p.driver # d
        BY <1>2, <2>2, <4>2 DEF x
      <4>4. configured'[p.driver] = configured[p.driver]
        <5>1. PICK c : configured' = [configured EXCEPT ![d] = c]
          BY <2>5
        <5> QED BY <1>1, <4>3, <5>1 DEF SettingsOK
      <4>5. "unsettled" \notin gap[x]
        BY <1>2, <2>4, <4>2
      <4> QED BY <1>8, <1>16, <2>1, <4>4, <4>5
    <3> QED BY <3>1, <3>2
  <2>6. CASE configured' = configured /\ gap' = [gap EXCEPT ![r.rec.id] = @ \cup {"unsettled"}]
    <3>1. gap'[x] = gap[x]
      BY <1>1, <1>2, <2>6 DEF SettingsOK, x
    <3> QED BY <1>2, <1>8, <1>16, <2>1, <2>6, <3>1
  <2> QED BY <1>16, <2>3, <2>5, <2>6 DEF InitDriver
<1>17. CASE Restarted /\ Elsewhere
  <2> DEFINE q == Enabled(saved)
             i == runtimes[running].for.interface
             d == runtimes[running].for.driver
             body == Body(files[q.id])
  <2>1. UNCHANGED <<saved, files, requests>> /\ Initialisable(files[q.id])
    BY <1>17 DEF Restarted, settings
  <2>2. configured' = [configured EXCEPT ![d] = Sent(i, body)]
    BY <1>17 DEF Restarted
  <2>3. gap'[x] = IF x = q.id /\ q.driver = d /\ q.interface = i
                  THEN gap[x] \ {"unsettled"}
                  ELSE IF \E o \in ToSet(saved) : o.id = x /\ o.driver = d
                       THEN gap[x] \cup {"unsettled"} ELSE gap[x]
    BY <1>1, <1>17 DEF Restarted, x
  <2>4. q \in ToSet(saved)
    <3>1. saved # <<>>
      BY <2>1 DEF ToSet
    <3> QED BY <3>1, EnabledIsSaved DEF SettingsOK
  <2>5. p \in ToSet(saved)
    BY <2>1
  <2>6. PICK c : c = Sent(i, body)
    OBVIOUS
  <2>7. CASE x = q.id /\ q.driver = d /\ q.interface = i
    <3>1. p = q
      BY <2>4, <2>5, <2>7, IdsDiffer DEF SettingsOK, x
    <3>2. configured'[p.driver] = c
      BY <1>1, <2>2, <2>6, <2>7, <3>1 DEF SettingsOK
    <3>3. Says(p, files[x])'
      BY <2>1, <2>6, <2>7, <3>1, <3>2 DEF Says, x
    <3>4. \A u \in Threads : ~On(u, x)
      BY <1>5, <2>1, <2>7 DEF HeldAlone, Initialisable, Readable
    <3> QED BY <2>1, <3>3, <3>4 DEF ToldSo, On, x
  <2>8. CASE ~(x = q.id /\ q.driver = d /\ q.interface = i)
    <3>1. p.driver # d /\ "unsettled" \notin gap[x]
      BY <1>2, <2>3, <2>5, <2>8 DEF x
    <3>2. configured'[p.driver] = configured[p.driver]
      BY <1>1, <2>2, <2>6, <3>1 DEF SettingsOK
    <3> QED BY <1>8, <1>17, <2>1, <3>1, <3>2
  <2> QED BY <2>7, <2>8
<1>18. ASSUME ~serving, saved' = saved, requests' = requests,
              NEW ps \in SUBSET ToSet(saved), NEW last(_), configured' = Told(ps, last),
              "unsettled" \notin AfterPass(ps, last)[x],
              files'[x] \in {files[x], Unreadable}
       PROVE  ToldSo(p)'
  <2>1. \A t \in Threads : ~On(t, x)'
    BY <1>18 DEF Offline, On, Writers
  <2>2. p \in ToSet(saved)
    BY <1>18
  <2>3. "unsettled" \notin gap[x] => Says(p, files[p.id])
    BY <1>4, <2>2 DEF ToldSo, x
  <2>4. Initialisable(files[x]) => configured'[p.driver] = Sent(p.interface, Body(files[x]))
    BY <1>18, <2>2, <2>3, PassTells DEF x
  <2>5. Says(p, files[x])'
    BY <1>18, <2>4 DEF Says, Initialisable, Readable
  <2> QED BY <2>1, <2>5 DEF ToldSo, x
<1>19. CASE Start
  <2>1. UNCHANGED <<saved, files, requests>> /\ ~serving
    BY <1>19 DEF Start, settings
  <2> DEFINE e == Enabled(saved)
             Ps(bad) == Initialised(bad) \cup (Initialised({}) \cap {e})
  <2>2. PICK bad \in SUBSET Drivers :
          LET last(d) == IF e \in Ps(bad) /\ e \notin Initialised(bad) /\ e.driver = d
                         THEN e ELSE saved[LastOn(d, Ps(bad))]
          IN  configured' = Told(Ps(bad), last) /\ gap' = AfterPass(Ps(bad), last)
    BY <1>19 DEF Start
  <2>3. Ps(bad) \in SUBSET ToSet(saved)
    BY DEF Initialised
  <2> HIDE DEF Ps
  <2> QED BY <1>2, <1>18, <2>1, <2>2, <2>3
<1>20. ASSUME NEW i \in Ids, ~serving, StartStops(i)
       PROVE  ToldSo(p)'
  <2> DEFINE Ps(bad) == {saved[j] : j \in {k \in DOMAIN saved : k <= i}} \cap Initialised(bad)
  <2>1. UNCHANGED <<saved, requests>> /\ files' = [files EXCEPT ![saved[i].id] = Unreadable]
    BY <1>20 DEF StartStops
  <2>2. PICK bad \in SUBSET Drivers :
          LET last(d) == saved[LastOn(d, Ps(bad))]
          IN  /\ configured' = Told(Ps(bad), last)
              /\ gap' = [AfterPass(Ps(bad), last) EXCEPT ![saved[i].id] = @ \cup {"stale"}]
    BY <1>20 DEF StartStops
  <2>3. Ps(bad) \in SUBSET ToSet(saved)
    BY DEF Initialised
  <2>4. files'[x] \in {files[x], Unreadable}
    BY <1>1, <2>1 DEF SettingsOK, x
  <2> HIDE DEF Ps
  <2>5. ASSUME NEW last(_), gap' = [AfterPass(Ps(bad), last) EXCEPT ![saved[i].id] = @ \cup {"stale"}]
        PROVE  "unsettled" \notin AfterPass(Ps(bad), last)[x]
    <3>1. x \in DOMAIN AfterPass(Ps(bad), last)
      BY <1>1 DEF AfterPass, x
    <3> QED BY <1>2, <2>5, <3>1
  <2> QED BY <1>18, <1>20, <2>1, <2>2, <2>3, <2>4, <2>5
<1>21. CASE Elsewhere
  <2>1. ASSUME gap[x] \subseteq gap'[x], saved' = saved, configured' = configured
        PROVE  ToldSo(p)'
    BY <1>2, <1>8, <1>21, <2>1
  <2>2. ASSUME NEW t \in Threads,
               \/ \E y \in Ids, d \in Drivers, i \in Interfaces, e \in BOOLEAN : Submit(t, y, d, i, e)
               \/ \E y \in Ids : OpenPage(t, y)
               \/ Fetch(t) \/ FetchFails(t) \/ Load(t)
        PROVE  gap' = gap /\ saved' = saved /\ configured' = configured
    <3> USE DEF drivers
    <3>1. CASE \E y \in Ids, d \in Drivers, i \in Interfaces, e \in BOOLEAN : Submit(t, y, d, i, e)
      BY <3>1 DEF Submit
    <3>2. CASE \E y \in Ids : OpenPage(t, y)
      BY <3>2 DEF OpenPage
    <3>3. CASE Fetch(t)
      BY <3>3 DEF Fetch
    <3>4. CASE FetchFails(t)
      BY <3>4 DEF FetchFails
    <3>5. CASE Load(t)
      BY <3>5 DEF Load
    <3> QED BY <2>2, <3>1, <3>2, <3>3, <3>4, <3>5
  <2>3. ASSUME NEW t \in Threads, CommitFails(t)
        PROVE  gap[x] \subseteq gap'[x] /\ saved' = saved /\ configured' = configured
    BY <1>1, <2>3 DEF CommitFails, SettingsOK, x, drivers
  <2>4. ASSUME Crash
        PROVE  gap[x] \subseteq gap'[x] /\ saved' = saved /\ configured' = configured
    BY <1>1, <2>4 DEF Crash, SettingsOK, x, drivers
  <2>5. ASSUME UNCHANGED told \/ \E d \in Drivers, c \in Contracts : Upgrade(d, c)
        PROVE  gap' = gap /\ saved' = saved /\ configured' = configured
    BY <2>5 DEF told, Upgrade, settings
  <2> QED
    BY <1>9, <1>10, <1>11, <1>13, <1>14, <1>15, <1>16, <1>17, <1>19, <1>20, <1>21, <2>1, <2>2,
       <2>3, <2>4, <2>5
    DEF SettingsStep
<1> QED BY <1>9, <1>10, <1>11, <1>13, <1>14, <1>21, OthersTyped

LEMMA ToldBegins ==
  ASSUME SettingsInit, SettingsOK
  PROVE  ToldInv
<1>1. CASE saved = <<>>
  BY <1>1 DEF ToldInv, ToSet
<1>2. ASSUME NEW p \in Provider, Registered(p), saved = <<p>>
      PROVE  ToldInv
  <2>1. \A q \in ToSet(saved) : q = p
    BY <1>2 DEF ToSet
  <2>2. p.id = 1 /\ p.id \in Ids
    BY <1>2 DEF Registered, Provider
  <2>3. "unsettled" \in gap[p.id]
    BY <2>2 DEF SettingsInit
  <2> QED BY <2>1, <2>3 DEF ToldInv, Excused
<1> QED BY <1>1, <1>2 DEF SettingsInit
-----------------------------------------------------------------------------
(* The types of the runtimes and the activations.                          *)

Signatures == {None} \cup {Signature(p) : p \in Provider}

Live == [for : Provider, sig : Signatures, tasks : BOOLEAN, open : BOOLEAN]

Activation ==
  {Ended, [at |-> "called"]} \cup [at : {"reconcile"}, first : BOOLEAN]
    \cup [at : {"cancelled", "closed"}, of : Runtimes \cup {None}, sig : Signatures,
          builds : BOOLEAN]

RuntimeOK ==
  /\ serving \in BOOLEAN
  /\ running \in Runtimes \cup {None} /\ registered \in Runtimes \cup {None}
  /\ runtimes \in [Runtimes -> {Gone} \cup Live]
  /\ running # None => runtimes[running] \in Live
  /\ ensures \in [Activations -> Activation]

(* What is left when a runtime is dropped: those whose tasks go on.        *)
Left == [r \in Runtimes |-> IF runtimes[r].tasks THEN runtimes[r] ELSE Gone]

(* The number of a new runtime is that of none that is referred to.        *)
LEMMA NextIsFree ==
  ASSUME Free # {}
  PROVE  NextRuntime \in Free
<1>1. Free \in SUBSET Nat
  BY RuntimeAssumption DEF Free, Runtimes
<1>2. \E n \in Free : \A m \in Free : n <= m
  BY <1>1, SmallestNumber
<1> QED BY <1>2 DEF NextRuntime

(* The client of the enabled provider always has a target, whatever its    *)
(* driver says of itself by now, and whether it can be asked or not.       *)
LEMMA EnabledHasTarget ==
  ASSUME NEW p \in Sound, NEW c \in Contract, NEW seen \in BOOLEAN,
         p.interface # "grpc" => seen
  PROVE  TargetInUse(p.interface, p.target, c, seen) # None
<1>1. p.interface \in Interfaces /\ Usable(p)
  BY DEF Sound, Provider
<1>2. CASE p.interface = "http"
  BY <1>1, <1>2, ContractAssumption DEF TargetInUse, Selected, InterfacesOf, TargetOf
<1>3. CASE p.interface = "grpc"
  BY <1>1, <1>3, ContractAssumption DEF TargetInUse, Usable
<1> QED BY <1>1, <1>2, <1>3 DEF Interfaces

(* How a new runtime is built.                                             *)
LEMMA Building ==
  ASSUME SettingsOK, NEW a \in Activations, NEW sig, NEW known, Build(a, sig, known)
  PROVE  /\ asked' = Enabled(saved)
         /\ \/ /\ Enabled(saved) = None
               /\ running' = None /\ registered' = registered /\ runtimes' = Left
               /\ slips' = known \ {"failed", "mixed"} /\ Step(a, Ended)
            \/ /\ Enabled(saved) \in Sound /\ Enabled(saved) # None
               /\ \E n \in Free :
                    /\ running' = n /\ registered' = n
                    /\ runtimes' = [Left EXCEPT ![n] =
                         [for |-> Enabled(saved), sig |-> sig, tasks |-> TRUE, open |-> TRUE]]
               /\ slips' = (known \ {"failed", "mixed"})
                             \cup (IF sig = Signature(Enabled(saved)) THEN {} ELSE {"mixed"})
               /\ Step(a, [at |-> "reconcile", first |-> TRUE])
<1> DEFINE p == Enabled(saved)
           live == {r \in Runtimes : runtimes[r].tasks}
           left == [r \in Runtimes |-> IF r \in live THEN runtimes[r] ELSE Gone]
           Seen == IF p # None /\ p.interface = "grpc" THEN BOOLEAN ELSE {TRUE}
           Targeted(seen) == TargetInUse(p.interface, p.target, contract[p.driver], seen) # None
<1>1. left = Left
  BY DEF Left
<1>2. p # None => p \in Sound
  BY EnabledIsSaved DEF SettingsOK
<1>3. ASSUME p # None, NEW seen \in Seen
      PROVE  Targeted(seen)
  <2>1. p.driver \in Drivers
    BY <1>2, <1>3 DEF Sound, Provider
  <2>2. contract[p.driver] \in Contract
    BY <2>1, SettingsAssumption DEF SettingsOK
  <2>3. seen \in BOOLEAN /\ (p.interface # "grpc" => seen)
    BY <1>3
  <2> QED BY <1>2, <1>3, <2>2, <2>3, EnabledHasTarget
<1>4. asked' = p
  BY DEF Build
<1>5. PICK seen \in Seen :
        IF p = None \/ ~Targeted(seen)
        THEN /\ Step(a, Ended) /\ running' = None
             /\ slips' = (known \ {"failed", "mixed"})
                           \cup (IF p = None THEN {} ELSE {"untargeted"})
             /\ runtimes' = left /\ UNCHANGED registered
        ELSE /\ Free # {}
             /\ running' = NextRuntime /\ registered' = NextRuntime
             /\ runtimes' = [left EXCEPT ![NextRuntime] =
                  [for |-> p, sig |-> sig, tasks |-> TRUE, open |-> TRUE]]
             /\ slips' = (known \ {"failed", "mixed"})
                           \cup (IF sig = Signature(p) THEN {} ELSE {"mixed"})
             /\ Step(a, [at |-> "reconcile", first |-> TRUE])
  BY DEF Build
<1>6. CASE p = None
  BY <1>1, <1>4, <1>5, <1>6
<1>7. CASE p # None
  <2>1. Targeted(seen)
    BY <1>3, <1>7
  <2> HIDE DEF left, Targeted
  <2>2. /\ Free # {}
        /\ running' = NextRuntime /\ registered' = NextRuntime
        /\ runtimes' = [Left EXCEPT ![NextRuntime] =
             [for |-> p, sig |-> sig, tasks |-> TRUE, open |-> TRUE]]
        /\ slips' = (known \ {"failed", "mixed"})
                      \cup (IF sig = Signature(p) THEN {} ELSE {"mixed"})
        /\ Step(a, [at |-> "reconcile", first |-> TRUE])
    BY <1>1, <1>5, <1>7, <2>1
  <2>3. NextRuntime \in Free
    BY <2>2, NextIsFree
  <2> HIDE DEF p
  <2>4. \E n \in Free :
          /\ running' = n /\ registered' = n
          /\ runtimes' = [Left EXCEPT ![n] =
               [for |-> p, sig |-> sig, tasks |-> TRUE, open |-> TRUE]]
    BY <2>2, <2>3
  <2> QED BY <1>2, <1>4, <1>7, <2>2, <2>4 DEF p
<1> QED BY <1>6, <1>7

(* What is known of any activation.                                        *)
LEMMA ActivationAt ==
  ASSUME NEW e \in Activation
  PROVE  /\ e.at \in {"cancelled", "closed"} =>
              /\ e \in [at : {"cancelled", "closed"}, of : Runtimes \cup {None},
                        sig : Signatures, builds : BOOLEAN]
              /\ e.of \in Runtimes \cup {None} /\ e.sig \in Signatures
         /\ e.at = "reconcile" => e.first \in BOOLEAN
BY DEF Activation, Ended

LEMMA StepTyped ==
  ASSUME RuntimeOK, NEW a \in Activations, NEW e, Step(a, e)
  PROVE  /\ e \in Activation => ensures' \in [Activations -> Activation]
         /\ ensures'[a] = e /\ \A b \in Activations \ {a} : ensures'[b] = ensures[b]
BY DEF Step, RuntimeOK

LEMMA SimpleActivations ==
  /\ Ended \in Activation /\ [at |-> "called"] \in Activation
  /\ \A b \in BOOLEAN : [at |-> "reconcile", first |-> b] \in Activation
BY DEF Activation

LEMMA BuildKeepsTypes ==
  ASSUME SettingsOK, RuntimeOK, serving' \in BOOLEAN,
         NEW a \in Activations, NEW sig \in Signatures, NEW known, Build(a, sig, known)
  PROVE  RuntimeOK'
<1> USE SimpleActivations
<1>1. Left \in [Runtimes -> {Gone} \cup Live]
  BY DEF Left, RuntimeOK
<1>2. CASE /\ running' = None /\ registered' = registered /\ runtimes' = Left
           /\ Step(a, Ended)
  <2>1. ensures' \in [Activations -> Activation]
    BY <1>2, StepTyped
  <2> QED BY <1>1, <1>2, <2>1 DEF RuntimeOK
<1>3. ASSUME NEW n \in Free, NEW p \in Sound, running' = n, registered' = n,
             runtimes' = [Left EXCEPT ![n] =
               [for |-> p, sig |-> sig, tasks |-> TRUE, open |-> TRUE]],
             Step(a, [at |-> "reconcile", first |-> TRUE])
      PROVE  RuntimeOK'
  <2>1. ensures' \in [Activations -> Activation]
    BY <1>3, StepTyped
  <2>2. [for |-> p, sig |-> sig, tasks |-> TRUE, open |-> TRUE] \in Live
    BY DEF Live, Sound
  <2>3. n \in Runtimes
    BY DEF Free
  <2> QED BY <1>1, <1>3, <2>1, <2>2, <2>3 DEF RuntimeOK
<1> QED BY <1>2, <1>3, Building

LEMMA EnabledHasSignature ==
  ASSUME SettingsOK
  PROVE  Signature(Enabled(saved)) \in Signatures
<1>1. Enabled(saved) = None \/ Enabled(saved) \in Provider
  BY EnabledIsSaved DEF SettingsOK, Sound
<1> QED BY <1>1 DEF Signature, Signatures

(* Cancelling the tasks of the current runtime.                            *)
LEMMA CancelKeepsTypes ==
  ASSUME RuntimeOK, UNCHANGED <<serving, running>>, registered' = None,
         runtimes' = IF running = None THEN runtimes
                     ELSE [runtimes EXCEPT ![running].tasks = FALSE],
         NEW a \in Activations, NEW sig \in Signatures, NEW builds \in BOOLEAN,
         Step(a, [at |-> "cancelled", of |-> running, sig |-> sig, builds |-> builds])
  PROVE  RuntimeOK'
<1>1. [at |-> "cancelled", of |-> running, sig |-> sig, builds |-> builds] \in Activation
  BY DEF Activation, RuntimeOK
<1>2. ensures' \in [Activations -> Activation]
  BY <1>1, StepTyped
<1>3. CASE running = None
  BY <1>2, <1>3 DEF RuntimeOK
<1>4. CASE running # None
  <2>1. running \in Runtimes /\ runtimes[running] \in Live
    BY <1>4 DEF RuntimeOK
  <2>2. [runtimes[running] EXCEPT !.tasks = FALSE] \in Live
    BY <2>1 DEF Live
  <2> QED BY <1>2, <1>4, <2>1, <2>2 DEF RuntimeOK
<1> QED BY <1>3, <1>4

LEMMA RuntimesKeepTypes ==
  ASSUME SettingsOK, RuntimeOK, [Next]_vars
  PROVE  RuntimeOK'
<1> USE SimpleActivations
<1>1. CASE UNCHANGED runtimeVars
  BY <1>1 DEF runtimeVars, RuntimeOK
<1>2. ASSUME NEW t \in Threads, Finish(t)
      PROVE  RuntimeOK'
  <2>1. ensures' \in [Activations -> Activation]
    BY <1>2, StepTyped DEF Finish, RuntimeOK
  <2> QED BY <1>2, <2>1 DEF Finish, RuntimeOK
<1>3. ASSUME NEW a \in Activations, Begin(a)
      PROVE  RuntimeOK'
  <2> DEFINE sig == Signature(Enabled(saved))
  <2>1. sig \in Signatures /\ serving' = serving /\ serving \in BOOLEAN
    BY <1>3, EnabledHasSignature DEF Begin, RuntimeOK
  <2> HIDE DEF sig
  <2>2. CASE Build(a, sig, slips)
    BY <2>1, <2>2, BuildKeepsTypes
  <2>3. CASE /\ Step(a, [at |-> "reconcile", first |-> FALSE])
             /\ UNCHANGED <<running, registered, runtimes, slips>>
    <3>1. ensures' \in [Activations -> Activation]
      BY <2>3, StepTyped
    <3> QED BY <2>1, <2>3, <3>1 DEF RuntimeOK
  <2>4. CASE Cancel(a, sig, TRUE)
    BY <2>1, <2>4, CancelKeepsTypes DEF Cancel
  <2> QED BY <1>3, <2>2, <2>3, <2>4 DEF Begin, sig
<1>4. ASSUME NEW a \in Activations, Close(a)
      PROVE  RuntimeOK'
  <2> DEFINE e == ensures[a]
  <2>1. e \in Activation /\ e.at = "cancelled" /\ Step(a, [e EXCEPT !.at = "closed"])
    BY <1>4 DEF Close, RuntimeOK
  <2>2. [e EXCEPT !.at = "closed"] \in Activation
    BY <2>1, ActivationAt DEF Activation
  <2>3. ensures' \in [Activations -> Activation]
    BY <2>1, <2>2, StepTyped
  <2>4. CASE running = None
    BY <1>4, <2>3, <2>4 DEF Close, RuntimeOK
  <2>5. CASE running # None
    <3>1. running \in Runtimes /\ runtimes[running] \in Live
      BY <2>5 DEF RuntimeOK
    <3>2. [runtimes[running] EXCEPT !.open = FALSE] \in Live
      BY <3>1 DEF Live
    <3> QED BY <1>4, <2>3, <2>5, <3>1, <3>2 DEF Close, RuntimeOK
  <2> QED BY <2>4, <2>5
<1>5. ASSUME NEW a \in Activations, Clear(a)
      PROVE  RuntimeOK'
  <2> DEFINE e == ensures[a]
             known == slips \cup (IF running \in {None, e.of} THEN {} ELSE {"overtaken"})
  <2>1. e.sig \in Signatures /\ serving' = serving /\ serving \in BOOLEAN
    BY <1>5, ActivationAt DEF Clear, RuntimeOK
  <2> HIDE DEF known
  <2>2. CASE Build(a, e.sig, known)
    BY <2>1, <2>2, BuildKeepsTypes
  <2>3. CASE running' = None /\ Step(a, Ended) /\ UNCHANGED <<registered, runtimes>>
    <3>1. ensures' \in [Activations -> Activation]
      BY <2>3, StepTyped
    <3> QED BY <2>1, <2>3, <3>1 DEF RuntimeOK
  <2> QED BY <1>5, <2>2, <2>3 DEF Clear, known
<1>6. ASSUME NEW a \in Activations, Reconciled(a)
      PROVE  RuntimeOK'
  <2>1. ensures' \in [Activations -> Activation]
    BY <1>6, StepTyped DEF Reconciled
  <2> QED BY <1>6, <2>1 DEF Reconciled, RuntimeOK
<1>7. ASSUME NEW a \in Activations, ReconcileFails(a)
      PROVE  RuntimeOK'
  <2>1. CASE ~ensures[a].first
    <3>1. ensures' \in [Activations -> Activation]
      BY <1>7, <2>1, StepTyped DEF ReconcileFails
    <3> QED BY <1>7, <2>1, <3>1 DEF ReconcileFails, RuntimeOK
  <2>2. CASE ensures[a].first
    <3>1. None \in Signatures
      BY DEF Signatures
    <3> QED BY <1>7, <2>2, <3>1, CancelKeepsTypes DEF ReconcileFails
  <2> QED BY <2>1, <2>2
<1>8. CASE Start
  <2>1. PICK a \in Activations : Build(a, Signature(Enabled(saved)), slips)
    BY <1>8 DEF Start
  <2>2. serving' \in BOOLEAN
    BY <1>8 DEF Start
  <2> QED BY <2>1, <2>2, BuildKeepsTypes, EnabledHasSignature
<1>9. CASE Crash
  BY <1>9 DEF Crash, RuntimeOK
<1> QED
  BY <1>1, <1>2, <1>3, <1>4, <1>5, <1>6, <1>7, <1>8, <1>9 DEF Next, StartStops, Restarted, vars

LEMMA RuntimesBegin ==
  ASSUME SettingsInit, Down
  PROVE  RuntimeOK /\ Offline
<1>1. runtimes \in [Runtimes -> {Gone} \cup Live]
  BY DEF Down
<1>2. ensures \in [Activations -> Activation]
  BY SimpleActivations DEF Down
<1>3. RuntimeOK
  BY <1>1, <1>2 DEF Down, RuntimeOK
<1>4. Offline
  BY DEF Down, SettingsInit, Offline, Quiet
<1> QED BY <1>3, <1>4

-----------------------------------------------------------------------------
(* One runtime at most has tasks.                                          *)

(* The runtime that an activation has cancelled has none any more, and its *)
(* number is not used again until the activation is done with it.          *)
Cancelled ==
  \A a \in Activations : ShuttingDown(a) /\ ensures[a].of # None =>
    ~runtimes[ensures[a].of].tasks

ConsumerInv == OneConsumer /\ Cancelled

LEMMA OthersActivations ==
  ASSUME RuntimeOK, NEW a \in Activations, NEW e, Step(a, e),
         e.at \notin {"cancelled", "closed"},
         NEW b \in Activations, ShuttingDown(b)'
  PROVE  b # a /\ ShuttingDown(b) /\ ensures'[b] = ensures[b]
         /\ (ensures[b].of # None => ensures[b].of \in Runtimes)
<1>1. b # a
  BY StepTyped DEF ShuttingDown
<1>2. ensures'[b] = ensures[b]
  BY <1>1, StepTyped
<1>3. ShuttingDown(b) /\ ensures[b] \in Activation
  BY <1>2 DEF ShuttingDown, RuntimeOK
<1>4. ensures[b].of # None => ensures[b].of \in Runtimes
  BY <1>3, ActivationAt DEF ShuttingDown
<1> QED BY <1>1, <1>2, <1>3, <1>4

(* A runtime is built when no other has tasks, unless one was overtaken.   *)
LEMMA BuildKeepsOne ==
  ASSUME SettingsOK, RuntimeOK, Cancelled, NEW a \in Activations, NEW sig, NEW known,
         "overtaken" \in known \/ \A r \in Runtimes : ~runtimes[r].tasks,
         Build(a, sig, known)
  PROVE  ConsumerInv'
<1> DEFINE e == IF Enabled(saved) = None THEN Ended ELSE [at |-> "reconcile", first |-> TRUE]
<1>1. "overtaken" \in known => "overtaken" \in slips'
  BY Building
<1>2. PICK s : Step(a, s) /\ s.at \notin {"cancelled", "closed"}
  BY Building DEF Ended
<1>3. \A r \in Runtimes : Left[r].tasks <=> runtimes[r].tasks
  BY DEF Left, Gone
<1>4. CASE running' = None /\ runtimes' = Left
  <2>1. OneConsumer'
    BY <1>1, <1>3, <1>4 DEF OneConsumer
  <2>2. Cancelled'
    <3>1. SUFFICES ASSUME NEW b \in Activations, ShuttingDown(b)', ensures'[b].of # None
                   PROVE  ~runtimes'[ensures'[b].of].tasks
      BY DEF Cancelled
    <3>2. ShuttingDown(b) /\ ensures'[b] = ensures[b] /\ ensures[b].of \in Runtimes
      BY <1>2, <3>1, OthersActivations
    <3> QED BY <1>3, <1>4, <3>1, <3>2 DEF Cancelled
  <2> QED BY <2>1, <2>2 DEF ConsumerInv
<1>5. ASSUME NEW n \in Free, NEW new, running' = n, runtimes' = [Left EXCEPT ![n] = new]
      PROVE  ConsumerInv'
  <2>1. \A r \in Runtimes \ {n} : runtimes'[r].tasks <=> runtimes[r].tasks
    BY <1>3, <1>5 DEF Left
  <2>2. OneConsumer'
    BY <1>1, <1>5, <2>1 DEF OneConsumer
  <2>3. Cancelled'
    <3>1. SUFFICES ASSUME NEW b \in Activations, ShuttingDown(b)', ensures'[b].of # None
                   PROVE  ~runtimes'[ensures'[b].of].tasks
      BY DEF Cancelled
    <3>2. ShuttingDown(b) /\ ensures'[b] = ensures[b] /\ ensures[b].of \in Runtimes
      BY <1>2, <3>1, OthersActivations
    <3>3. ensures[b].of # n
      BY <3>2 DEF Free
    <3> QED BY <2>1, <3>1, <3>2, <3>3 DEF Cancelled
  <2> QED BY <2>2, <2>3 DEF ConsumerInv
<1> QED BY <1>4, <1>5, Building

LEMMA CancelKeepsOne ==
  ASSUME RuntimeOK, ConsumerInv, running' = running, slips \subseteq slips',
         runtimes' = IF running = None THEN runtimes
                     ELSE [runtimes EXCEPT ![running].tasks = FALSE],
         NEW a \in Activations, NEW sig, NEW builds,
         Step(a, [at |-> "cancelled", of |-> running, sig |-> sig, builds |-> builds])
  PROVE  ConsumerInv'
<1>1. /\ running # None => runtimes' = [runtimes EXCEPT ![running].tasks = FALSE]
                           /\ running \in Runtimes /\ runtimes[running] \in Live
      /\ running = None => runtimes' = runtimes
  BY DEF RuntimeOK
<1>2. \A r \in Runtimes : runtimes'[r].tasks => runtimes[r].tasks
  BY <1>1 DEF RuntimeOK, Live, Gone
<1>3. running # None => ~runtimes'[running].tasks
  BY <1>1 DEF RuntimeOK, Live
<1>4. OneConsumer'
  BY <1>2 DEF OneConsumer, ConsumerInv
<1>5. Cancelled'
  <2>1. SUFFICES ASSUME NEW b \in Activations, ShuttingDown(b)', ensures'[b].of # None
                 PROVE  ~runtimes'[ensures'[b].of].tasks
    BY DEF Cancelled
  <2>2. CASE b = a
    <3>1. ensures'[b].of = running
      BY <2>2, StepTyped
    <3> QED BY <1>3, <2>1, <3>1
  <2>3. CASE b # a
    <3>1. ensures'[b] = ensures[b]
      BY <2>3, StepTyped
    <3>2. ShuttingDown(b) /\ ensures[b] \in Activation
      BY <2>1, <3>1 DEF ShuttingDown, RuntimeOK
    <3>3. ensures[b].of \in Runtimes
      BY <2>1, <3>1, <3>2, ActivationAt DEF ShuttingDown
    <3> QED BY <1>2, <2>1, <3>1, <3>2, <3>3 DEF Cancelled, ConsumerInv
  <2> QED BY <2>2, <2>3
<1> QED BY <1>4, <1>5 DEF ConsumerInv

(* A step of an activation that is not shutting down and changes no        *)
(* runtime.                                                                *)
LEMMA IdleStepKeepsOne ==
  ASSUME RuntimeOK, ConsumerInv, UNCHANGED <<running, runtimes>>, slips \subseteq slips',
         NEW a \in Activations, NEW e, Step(a, e), e.at \notin {"cancelled", "closed"}
  PROVE  ConsumerInv'
<1>1. OneConsumer'
  BY DEF OneConsumer, ConsumerInv
<1>2. ASSUME NEW b \in Activations, ShuttingDown(b)', ensures'[b].of # None
      PROVE  ~runtimes'[ensures'[b].of].tasks
  BY <1>2, OthersActivations DEF ConsumerInv, Cancelled
<1>3. Cancelled'
  BY <1>2 DEF Cancelled
<1> QED BY <1>1, <1>3 DEF ConsumerInv

LEMMA OneConsumerStays ==
  ASSUME SettingsOK, RuntimeOK, Offline, ConsumerInv, [Next]_vars
  PROVE  ConsumerInv'
<1>1. running = None => "overtaken" \in slips \/ \A r \in Runtimes : ~runtimes[r].tasks
  BY RuntimeAssumption DEF ConsumerInv, OneConsumer, Runtimes
<1>2. CASE UNCHANGED runtimeVars
  BY <1>2 DEF runtimeVars, ConsumerInv, OneConsumer, Cancelled, ShuttingDown
<1>3. ASSUME NEW t \in Threads, Finish(t)
      PROVE  ConsumerInv'
  <2>1. CASE ensures' = ensures
    BY <1>3, <2>1 DEF Finish, ConsumerInv, OneConsumer, Cancelled, ShuttingDown
  <2>2. ASSUME NEW a \in Activations, Step(a, [at |-> "called"])
        PROVE  ConsumerInv'
    BY <1>3, <2>2, IdleStepKeepsOne DEF Finish
  <2> QED BY <1>3, <2>1, <2>2 DEF Finish
<1>4. ASSUME NEW a \in Activations, Begin(a)
      PROVE  ConsumerInv'
  <2> DEFINE sig == Signature(Enabled(saved))
  <2>1. CASE running = None /\ Build(a, sig, slips)
    BY <1>1, <2>1, BuildKeepsOne DEF ConsumerInv
  <2>2. CASE /\ Step(a, [at |-> "reconcile", first |-> FALSE])
             /\ UNCHANGED <<running, registered, runtimes, slips>>
    BY <2>2, IdleStepKeepsOne
  <2>3. CASE Cancel(a, sig, TRUE)
    BY <2>3, CancelKeepsOne DEF Cancel
  <2> QED BY <1>4, <2>1, <2>2, <2>3 DEF Begin
<1>5. ASSUME NEW a \in Activations, Close(a)
      PROVE  ConsumerInv'
  <2> DEFINE e == ensures[a]
  <2>1. e \in Activation /\ e.at = "cancelled" /\ Step(a, [e EXCEPT !.at = "closed"])
    BY <1>5 DEF Close, RuntimeOK
  <2>2. /\ running # None => runtimes' = [runtimes EXCEPT ![running].open = FALSE]
                             /\ running \in Runtimes /\ runtimes[running] \in Live
        /\ running = None => runtimes' = runtimes
    BY <1>5 DEF Close, RuntimeOK
  <2>3. \A r \in Runtimes : runtimes'[r].tasks <=> runtimes[r].tasks
    BY <2>2 DEF RuntimeOK, Live, Gone
  <2>4. OneConsumer'
    BY <1>5, <2>3 DEF Close, OneConsumer, ConsumerInv
  <2>5. Cancelled'
    <3>1. SUFFICES ASSUME NEW b \in Activations, ShuttingDown(b)', ensures'[b].of # None
                   PROVE  ~runtimes'[ensures'[b].of].tasks
      BY DEF Cancelled
    <3>2. ShuttingDown(b) /\ ensures'[b].of = ensures[b].of
      <4>1. CASE b = a
        BY <2>1, <4>1, StepTyped, ActivationAt DEF ShuttingDown
      <4>2. CASE b # a
        BY <2>1, <3>1, <4>2, StepTyped DEF ShuttingDown
      <4> QED BY <4>1, <4>2
    <3>3. ensures[b].of \in Runtimes
      BY <3>1, <3>2, ActivationAt DEF ShuttingDown, RuntimeOK
    <3> QED BY <2>3, <3>1, <3>2, <3>3 DEF Cancelled, ConsumerInv
  <2> QED BY <2>4, <2>5 DEF ConsumerInv
<1>6. ASSUME NEW a \in Activations, Clear(a)
      PROVE  ConsumerInv'
  <2> DEFINE e == ensures[a]
             known == slips \cup (IF running \in {None, e.of} THEN {} ELSE {"overtaken"})
  <2>1. e.at = "closed" /\ ShuttingDown(a) /\ e \in Activation
    BY <1>6 DEF Clear, ShuttingDown, RuntimeOK
  <2>2. e.of \in Runtimes \cup {None} /\ (e.of # None => ~runtimes[e.of].tasks)
    BY <2>1, ActivationAt DEF ConsumerInv, Cancelled
  <2>3. "overtaken" \in known \/ \A r \in Runtimes : ~runtimes[r].tasks
    <3>1. CASE running \notin {None, e.of} \/ "overtaken" \in slips
      BY <3>1
    <3>2. CASE running \in {None, e.of} /\ "overtaken" \notin slips
      BY <1>1, <2>2, <3>2 DEF ConsumerInv, OneConsumer
    <3> QED BY <3>1, <3>2
  <2> HIDE DEF known
  <2>4. CASE Build(a, e.sig, known)
    BY <2>3, <2>4, BuildKeepsOne DEF ConsumerInv
  <2>5. CASE /\ running' = None /\ slips' = known \cup {"failed"} /\ Step(a, Ended)
             /\ UNCHANGED <<registered, runtimes>>
    <3>1. OneConsumer'
      BY <2>3, <2>5 DEF OneConsumer
    <3>2. ASSUME NEW b \in Activations, ShuttingDown(b)', ensures'[b].of # None
          PROVE  ~runtimes'[ensures'[b].of].tasks
      BY <2>5, <3>2, OthersActivations DEF ConsumerInv, Cancelled, Ended
    <3>3. Cancelled'
      BY <3>2 DEF Cancelled
    <3> QED BY <3>1, <3>3 DEF ConsumerInv
  <2> QED BY <1>6, <2>4, <2>5 DEF Clear, known
<1>7. ASSUME NEW a \in Activations, Reconciled(a)
      PROVE  ConsumerInv'
  BY <1>7, IdleStepKeepsOne DEF Reconciled, Ended
<1>8. ASSUME NEW a \in Activations, ReconcileFails(a)
      PROVE  ConsumerInv'
  <2>1. CASE ~ensures[a].first
    BY <1>8, <2>1, IdleStepKeepsOne DEF ReconcileFails, Ended
  <2>2. CASE ensures[a].first
    BY <1>8, <2>2, CancelKeepsOne DEF ReconcileFails
  <2> QED BY <2>1, <2>2
<1>9. CASE Start
  <2>1. PICK a \in Activations : Build(a, Signature(Enabled(saved)), slips)
    BY <1>9 DEF Start
  <2>2. running = None
    BY <1>9 DEF Start, Offline
  <2> QED BY <1>1, <2>1, <2>2, BuildKeepsOne DEF ConsumerInv
<1>10. CASE Crash
  <2>1. OneConsumer'
    BY <1>10 DEF Crash, OneConsumer, Gone
  <2>2. \A a \in Activations : ~ShuttingDown(a)'
    BY <1>10 DEF Crash, ShuttingDown, Ended
  <2> QED BY <2>1, <2>2 DEF ConsumerInv, Cancelled
<1> QED
  BY <1>2, <1>3, <1>4, <1>5, <1>6, <1>7, <1>8, <1>9, <1>10 DEF Next, StartStops, Restarted, vars

-----------------------------------------------------------------------------
(* The current runtime is that of the provider that an activation last     *)
(* found enabled.                                                          *)

Settled == \A a \in Activations : ~ShuttingDown(a)

Serves ==
  /\ running # None /\ registered = running
  /\ runtimes[running].open /\ runtimes[running].tasks
  /\ SameService(runtimes[running].for, asked)
  /\ runtimes[running].sig = Signature(runtimes[running].for)

(* While no activation is shutting a runtime down, the current one is as   *)
(* it was built, unless an activation failed or read different settings.   *)
FollowInv ==
  /\ "untargeted" \notin slips
  /\ serving /\ Settled /\ slips \cap {"failed", "mixed"} = {} =>
       (asked = None /\ running = None) \/ Serves

LEMMA BuildFollows ==
  ASSUME SettingsOK, RuntimeOK, NEW a \in Activations, NEW sig, NEW known,
         "untargeted" \notin known, Build(a, sig, known)
  PROVE  FollowInv'
<1>1. CASE Enabled(saved) = None /\ running' = None /\ asked' = Enabled(saved)
           /\ slips' = known \ {"failed", "mixed"}
  BY <1>1 DEF FollowInv
<1>2. ASSUME NEW n \in Free, NEW p \in Sound, p = Enabled(saved), p # None, asked' = p,
             running' = n, registered' = n,
             runtimes' = [Left EXCEPT ![n] =
               [for |-> p, sig |-> sig, tasks |-> TRUE, open |-> TRUE]],
             slips' = (known \ {"failed", "mixed"})
                        \cup (IF sig = Signature(p) THEN {} ELSE {"mixed"})
      PROVE  FollowInv'
  <2>1. "untargeted" \notin slips' /\ ("mixed" \notin slips' => sig = Signature(p))
    BY <1>2
  <2>2. n \in Runtimes /\ n # None
    BY RuntimeAssumption DEF Free, Runtimes
  <2>3. runtimes'[n] = [for |-> p, sig |-> sig, tasks |-> TRUE, open |-> TRUE]
    BY <1>2, <2>2 DEF Left
  <2>4. SameService(p, p)
    BY <1>2 DEF SameService
  <2>5. "mixed" \notin slips' => Serves'
    BY <1>2, <2>1, <2>2, <2>3, <2>4 DEF Serves
  <2> QED BY <2>1, <2>5 DEF FollowInv
<1>3. CASE Enabled(saved) = None
  BY <1>1, <1>3, Building DEF Signature
<1>4. CASE Enabled(saved) # None
  BY <1>2, <1>4, Building
<1> QED BY <1>3, <1>4

(* A step of an activation that is not shutting down leaves the others as  *)
(* they are.                                                               *)
LEMMA SettledBefore ==
  ASSUME RuntimeOK, NEW a \in Activations, NEW e, Step(a, e), ~ShuttingDown(a), Settled'
  PROVE  Settled
<1>1. ASSUME NEW b \in Activations, ShuttingDown(b)
      PROVE  FALSE
  <2>1. ensures'[b] = ensures[b]
    BY <1>1, StepTyped
  <2> QED BY <1>1, <2>1 DEF Settled, ShuttingDown
<1> QED BY <1>1 DEF Settled

LEMMA NotSettled ==
  ASSUME RuntimeOK, NEW a \in Activations, NEW e, Step(a, e),
         e.at \in {"cancelled", "closed"}
  PROVE  ~Settled'
BY StepTyped DEF Settled, ShuttingDown

LEMMA FollowStays ==
  ASSUME SettingsOK, RuntimeOK, FollowInv, [Next]_vars
  PROVE  FollowInv'
<1>1. ASSUME UNCHANGED <<serving, running, registered, runtimes, asked, slips>>,
             Settled' => Settled
      PROVE  FollowInv'
  BY <1>1 DEF FollowInv, Serves
<1>2. CASE UNCHANGED runtimeVars
  BY <1>1, <1>2 DEF runtimeVars, Settled, ShuttingDown
<1>3. ASSUME NEW t \in Threads, Finish(t)
      PROVE  FollowInv'
  <2>1. CASE ensures' = ensures
    BY <1>1, <1>3, <2>1 DEF Finish, Settled, ShuttingDown
  <2>2. ASSUME NEW a \in Activations, ensures[a] = Ended, Step(a, [at |-> "called"])
        PROVE  FollowInv'
    <3>1. ~ShuttingDown(a)
      BY <2>2 DEF ShuttingDown, Ended
    <3>2. Settled' => Settled
      BY <2>2, <3>1, SettledBefore
    <3> QED BY <1>1, <1>3, <3>2 DEF Finish
  <2> QED BY <1>3, <2>1, <2>2 DEF Finish
<1>4. ASSUME NEW a \in Activations, Begin(a)
      PROVE  FollowInv'
  <2> DEFINE p == Enabled(saved)
             sig == Signature(p)
  <2>1. CASE Build(a, sig, slips)
    BY <2>1, BuildFollows DEF FollowInv
  <2>2. CASE Cancel(a, sig, TRUE)
    <3>1. ~Settled'
      BY <2>2, NotSettled DEF Cancel
    <3> QED BY <2>2, <3>1 DEF Cancel, FollowInv
  <2>3. CASE /\ running # None /\ asked' = p /\ sig # None /\ runtimes[running].sig = sig
             /\ Step(a, [at |-> "reconcile", first |-> FALSE])
             /\ UNCHANGED <<running, registered, runtimes, slips>>
    <3>1. serving' = serving /\ ~ShuttingDown(a)
      BY <1>4 DEF Begin, ShuttingDown
    <3>2. "untargeted" \notin slips'
      BY <2>3 DEF FollowInv
    <3>3. ASSUME serving', Settled', slips' \cap {"failed", "mixed"} = {}
          PROVE  Serves'
      <4>1. Serves
        BY <2>3, <3>1, <3>3, SettledBefore DEF FollowInv
      <4> DEFINE q == runtimes[running].for
      <4>2. p # None /\ q # None
        BY <2>3, <4>1 DEF Signature, Serves, SameService
      <4>3. Signature(q) = Signature(p)
        BY <2>3, <4>1 DEF Serves
      <4>4. SameService(q, p)
        BY <4>2, <4>3 DEF Signature, SameService
      <4> QED BY <2>3, <4>1, <4>4 DEF Serves
    <3> QED BY <3>2, <3>3 DEF FollowInv
  <2> QED BY <1>4, <2>1, <2>2, <2>3 DEF Begin
<1>5. ASSUME NEW a \in Activations, Close(a)
      PROVE  FollowInv'
  <2>1. ensures[a] \in Activation /\ ensures[a].at = "cancelled"
    BY <1>5 DEF Close, RuntimeOK
  <2>2. [ensures[a] EXCEPT !.at = "closed"].at = "closed"
    BY <2>1, ActivationAt
  <2>3. ~Settled'
    BY <1>5, <2>2, NotSettled DEF Close
  <2> QED BY <1>5, <2>3 DEF Close, FollowInv
<1>6. ASSUME NEW a \in Activations, Clear(a)
      PROVE  FollowInv'
  <2> DEFINE e == ensures[a]
             known == slips \cup (IF running \in {None, e.of} THEN {} ELSE {"overtaken"})
  <2>1. "untargeted" \notin known
    BY DEF FollowInv
  <2> HIDE DEF known
  <2>2. CASE Build(a, e.sig, known)
    BY <2>1, <2>2, BuildFollows
  <2>3. CASE slips' = known \cup {"failed"}
    BY <2>1, <2>3 DEF FollowInv
  <2> QED BY <1>6, <2>2, <2>3 DEF Clear, known
<1>7. ASSUME NEW a \in Activations, Reconciled(a)
      PROVE  FollowInv'
  <2>1. ~ShuttingDown(a)
    BY <1>7 DEF Reconciled, ShuttingDown
  <2>2. Settled' => Settled
    BY <1>7, <2>1, SettledBefore DEF Reconciled
  <2> QED BY <1>1, <1>7, <2>2 DEF Reconciled
<1>8. ASSUME NEW a \in Activations, ReconcileFails(a)
      PROVE  FollowInv'
  <2>1. CASE ~ensures[a].first
    <3>1. ~ShuttingDown(a)
      BY <1>8 DEF ReconcileFails, ShuttingDown
    <3>2. Settled' => Settled
      BY <1>8, <2>1, <3>1, SettledBefore DEF ReconcileFails
    <3> QED BY <1>1, <1>8, <2>1, <3>2 DEF ReconcileFails
  <2>2. CASE ensures[a].first
    BY <1>8, <2>2 DEF ReconcileFails, FollowInv
  <2> QED BY <2>1, <2>2
<1>9. CASE Start
  <2>1. PICK a \in Activations : Build(a, Signature(Enabled(saved)), slips)
    BY <1>9 DEF Start
  <2> QED BY <2>1, BuildFollows DEF FollowInv
<1>10. CASE Crash
  BY <1>10 DEF Crash, FollowInv
<1> QED
  BY <1>2, <1>3, <1>4, <1>5, <1>6, <1>7, <1>8, <1>9, <1>10 DEF Next, StartStops, Restarted, vars

-----------------------------------------------------------------------------
(* The invariant of the specification.                                     *)

DriverInv ==
  /\ SettingsOK /\ RuntimeOK /\ Offline
  /\ HeldInv /\ KeptInv /\ SuitedInv /\ ToldInv /\ ConsumerInv /\ FollowInv

LEMMA DriverInvHolds == Spec => []DriverInv
<1>1. Init => DriverInv
  <2> SUFFICES ASSUME Init PROVE DriverInv
    OBVIOUS
  <2>1. SettingsOK
    BY SettingsBegin DEF Init
  <2>2. RuntimeOK /\ Offline
    BY RuntimesBegin DEF Init
  <2>3. HeldInv /\ KeptInv /\ SuitedInv /\ ToldInv
    BY <2>1, KeptBegins, SuitedBegins, ToldBegins DEF Init
  <2>4. ConsumerInv
    BY DEF Init, Down, ConsumerInv, OneConsumer, Cancelled, ShuttingDown, Gone, Ended
  <2>5. FollowInv
    BY DEF Init, Down, FollowInv
  <2> QED BY <2>1, <2>2, <2>3, <2>4, <2>5 DEF DriverInv
<1>2. DriverInv /\ [Next]_vars => DriverInv'
  <2> SUFFICES ASSUME DriverInv, [Next]_vars PROVE DriverInv'
    OBVIOUS
  <2> USE DEF DriverInv
  <2>1. SettingsStep
    BY EveryStepIsSettingsStep
  <2>2. SettingsOK'
    BY <2>1, SettingsKeepTypes
  <2>3. RuntimeOK' /\ Offline'
    BY RuntimesKeepTypes, OfflineStays
  <2>4. HeldInv' /\ KeptInv' /\ SuitedInv' /\ ToldInv'
    BY <2>1, <2>2, HeldStays, KeptStays, SuitedStays, ToldStays
  <2>5. ConsumerInv' /\ FollowInv'
    BY OneConsumerStays, FollowStays
  <2> QED BY <2>2, <2>3, <2>4, <2>5
<1> QED BY <1>1, <1>2, PTL DEF Spec

(* The settings and the runtimes have their types, a runtime is for a      *)
(* provider, and the saved list has no id twice (save_provider_settings).  *)
THEOREM TypeCorrect == Spec => []TypeOK
<1>1. DriverInv => TypeOK
  <2> SUFFICES ASSUME DriverInv PROVE TypeOK
    OBVIOUS
  <2> USE DEF DriverInv, SettingsOK, RuntimeOK
  <2>1. saved \in Seq(Provider) /\ \A i, j \in DOMAIN saved : saved[i].id = saved[j].id => i = j
    BY DEF Lists, Sound
  <2>2. \A r \in Runtimes : runtimes[r] = Gone \/ runtimes[r].for \in Provider
    BY DEF Live
  <2>3. running # None => runtimes[running].for \in Provider
    BY DEF Live
  <2>4. {running, registered} \ {None} \subseteq Runtimes
    OBVIOUS
  <2> QED BY <2>1, <2>2, <2>3, <2>4 DEF TypeOK, Old
<1> QED BY <1>1, DriverInvHolds, PTL

(* A saved provider has its config file, with the values that the operator *)
(* last saved, whenever no request is writing it; unless saves, posts and  *)
(* write-backs met so that they were lost (save_provider_settings).        *)
THEOREM ConfigStays == Spec => []ConfigKept
<1>1. DriverInv => ConfigKept
  <2> SUFFICES ASSUME DriverInv, NEW x \in IdsOf(saved), ~Excused(x, {"stale"}),
                      \A t \in Threads : ~Holds(t, x)
               PROVE  /\ Readable(files[x])
                      /\ \A f \in Listed(files[x]) : files[x].values[f] = intended[x][f]
    BY DEF ConfigKept
  <2>1. x \in Ids /\ "stale" \notin gap[x]
    BY IdsDiffer DEF DriverInv, SettingsOK, Excused
  <2>2. FileKept(x) /\ There(x)
    BY <2>1 DEF DriverInv, KeptInv, ListsThere
  <2>3. Readable(files[x]) /\ files[x].values = intended[x]
    BY <2>1, <2>2 DEF FileKept, There, Right
  <2> QED BY <2>3
<1> QED BY <1>1, DriverInvHolds, PTL

(* The driver of a saved provider was last initialised with what its file  *)
(* says, over the interface chosen for it, which has what it needs; but    *)
(* while a request has written the file and not yet committed the record,  *)
(* before the next init, and when file and record belong to different      *)
(* requests (init_provider_from_payload).                                  *)
THEOREM DriverIsTold == Spec => []DriverFollowsConfig
<1>1. DriverInv => DriverFollowsConfig
  <2> SUFFICES ASSUME DriverInv, NEW p \in ToSet(saved), ~Writing(p.id),
                      ~Excused(p.id, {"lost", "torn"}), Initialisable(files[p.id])
               PROVE  /\ Accepted(p.interface, Body(files[p.id]))
                      /\ \/ Excused(p.id, {"unsettled"})
                         \/ configured[p.driver] = Sent(p.interface, Body(files[p.id]))
    BY DEF DriverFollowsConfig
  <2> DEFINE file == files[p.id]
  <2>1. Readable(file) /\ Valid(file)
    BY DEF Initialisable
  <2>2. Suits(p, file.required)
    BY <2>1 DEF DriverInv, SuitedInv, Fits, Readable
  <2>3. Accepted(p.interface, Body(file))
    BY <2>1, <2>2 DEF Suits, Accepted, Valid, Body, Listed
  <2>4. Excused(p.id, {"unsettled"}) \/ ToldSo(p)
    BY DEF DriverInv, ToldInv, Excused
  <2> QED BY <2>3, <2>4 DEF ToldSo, Says
<1> QED BY <1>1, DriverInvHolds, PTL

(* When activations are over, the live runtime is that of the provider     *)
(* which the last one found enabled (ensure_metering_runtime), and no      *)
(* activation ever stops for the want of a target.                         *)
THEOREM RuntimeIsAsked == Spec => []RuntimeFollowsSettings
<1>1. DriverInv => RuntimeFollowsSettings
  <2> SUFFICES ASSUME DriverInv PROVE RuntimeFollowsSettings
    OBVIOUS
  <2>1. Quiet => Settled
    BY DEF Quiet, Settled, ShuttingDown, Ended
  <2> QED
    BY <2>1 DEF DriverInv, FollowInv, Serves, RuntimeFollowsSettings, SameService
<1> QED BY <1>1, DriverInvHolds, PTL

(* No task outlives its runtime (shutdown_metering_runtime), unless an     *)
(* activation cleared the state that another had filled in.                *)
THEOREM OneConsumes == Spec => []OneConsumer
<1>1. DriverInv => OneConsumer
  BY DEF DriverInv, ConsumerInv
<1> QED BY <1>1, DriverInvHolds, PTL
=============================================================================
