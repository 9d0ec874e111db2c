------------------------------- MODULE Fleet -------------------------------
(***************************************************************************)
(* The meters of a ground and the requests that add and edit them, by the  *)
(* API and by the pages of the web.  Both write meter_view, whose trigger  *)
(* meter_view_dml writes the tables below it, a column at a time.  The     *)
(* tags of a meter are rows of meters_tags, which stay when a tag is taken *)
(* off (active goes false); the API writes them itself, the pages have the *)
(* trigger do it.  A request reads, and writes and commits later.          *)
(*                                                                         *)
(* A row that the API makes has an id computed from tag and meter; one     *)
(* that the trigger makes has a random one, here the name of the request.  *)
(***************************************************************************)
EXTENDS Naturals

CONSTANTS
  Serials,      \* serials of meters
  CustCodes,    \* codes of customers
  States,       \* what the other columns can hold
  TagNames,     \* names of tags
  Offices,      \* requests
  MaxAsked,     \* bound on the number of requests
  NoMeter, NoCode, NoWork, ComputedId

VARIABLES
  meterRow,   \* the rows of meter_view, but for the tags
  tagNames,   \* the rows of meter_tag
  present,    \* the rows of meters_tags, ...
  active,     \* ... and those that are active
  announced,  \* meters with an event METER_CREATED
  work,       \* what a request is about to write
  requests,   \* bound: requests so far
  cut,        \* history: meters whose creation was cut between its commits
  loose,      \* history: codes a page gave, or two requests at the same time
  raced,      \* history: tags of a meter that two requests added at the same time
  crossing    \* history: requests whose meter was written since they read it

fleetVars == <<meterRow, tagNames, present, active, announced, work, requests, cut, loose,
               raced, crossing>>

Row    == [code : CustCodes \cup {NoCode}, state : States]
Cols   == {"code", "state", "tags"}
RowIds == Offices \cup {ComputedId}

(* A request about to write: `seen` is the row it read (NoMeter for a new  *)
(* meter), `touched` the columns it is about, `stale` those that changed   *)
(* between the page and the request, `asked` the tags it wants; the rest   *)
(* are the rows of meter_tag and meters_tags it adds, and turns on or off. *)
Work ==
  [api : BOOLEAN, stage : {"commit", "announce"}, meter : Serials, seen : Row \cup {NoMeter},
   row : Row, touched : SUBSET Cols, stale : SUBSET Cols, asked : SUBSET TagNames,
   names : SUBSET TagNames, insert : SUBSET (TagNames \X RowIds),
   on : SUBSET (TagNames \X RowIds), off : SUBSET (TagNames \X RowIds)]

(* A page that somebody has open.                                          *)
Page == [meter : Serials, row : Row, tags : SUBSET TagNames]

ASSUME FleetAssumption ==
  /\ MaxAsked \in Nat
  /\ NoCode \notin CustCodes /\ ComputedId \notin Offices
  /\ NoMeter \notin Row /\ NoWork \notin Work \cup Page

FleetTypeOK ==
  /\ meterRow \in [Serials -> Row \cup {NoMeter}]
  /\ tagNames \subseteq TagNames
  /\ present \subseteq Serials \X TagNames \X RowIds
  /\ active \subseteq present
  /\ announced \subseteq Serials
  /\ work \in [Offices -> Work \cup Page \cup {NoWork}]
  /\ requests \in 0..MaxAsked
  /\ cut \subseteq Serials
  /\ loose \subseteq CustCodes
  /\ raced \subseteq Serials \X TagNames
  /\ crossing \subseteq Offices

FleetInit ==
  /\ meterRow = [s \in Serials |-> NoMeter]
  /\ tagNames \in SUBSET TagNames   \* also those of other grounds, by replication
  /\ present = {} /\ active = {} /\ announced = {}
  /\ work = [r \in Offices |-> NoWork]
  /\ requests = 0
  /\ cut = {} /\ loose = {} /\ raced = {} /\ crossing = {}

-----------------------------------------------------------------------------
Exists(s)    == meterRow[s] # NoMeter
RowsOf(s, t) == {i \in RowIds : <<s, t, i>> \in present}
TagsOf(s)    == {t \in TagNames : \E i \in RowIds : <<s, t, i>> \in active}
Owners(c)    == {s \in Serials : Exists(s) /\ meterRow[s].code = c}
Writing      == {r \in Offices : work[r] \in Work /\ work[r].stage = "commit"}

(* A faulty trigger, which adds a row whether there is one or not.         *)
WithTagsAlways(w, s, add, del, id) ==
  [w EXCEPT !.names  = add \ tagNames,
            !.insert = {<<t, id>> : t \in add},
            !.on     = {x \in TagNames \X RowIds : x[1] \in add /\ x[2] \in RowsOf(s, x[1])},
            !.off    = {x \in TagNames \X RowIds : x[1] \in del /\ x[2] \in RowsOf(s, x[1])}]

(* What adding and removing tags comes to: a tag without a row gets one,   *)
(* of which `id` is the key; otherwise its rows are turned on.             *)
WithTags(w, s, add, del, id) ==
  [w EXCEPT !.names  = add \ tagNames,
            !.insert = {<<t, id>> : t \in {u \in add : RowsOf(s, u) = {}}},
            !.on     = {x \in TagNames \X RowIds : x[1] \in add /\ x[2] \in RowsOf(s, x[1])},
            !.off    = {x \in TagNames \X RowIds : x[1] \in del /\ x[2] \in RowsOf(s, x[1])}]

(* A request has read what it needs and is about to write w.               *)
Prepare(r, w) ==
  /\ requests < MaxAsked /\ requests' = requests + 1
  /\ work' = [work EXCEPT ![r] = w]
  /\ crossing' = crossing \ {r}
  /\ loose' = loose \cup
       {c \in CustCodes : /\ w.row.code = c /\ "code" \in w.touched
                          /\ \/ ~w.api
                             \/ \E q \in Writing : work[q].row.code = c /\ "code" \in work[q].touched}
  /\ raced' = raced \cup
       {<<w.meter, t>> : t \in {u \in TagNames :
          /\ \E i \in RowIds : <<u, i>> \in w.insert
          /\ \E q \in Writing, i \in RowIds : work[q].meter = w.meter /\ <<u, i>> \in work[q].insert}}
  /\ UNCHANGED <<meterRow, tagNames, present, active, announced, cut>>

Fresh(s, row, api, tags) ==
  [api |-> api, stage |-> "commit", meter |-> s, seen |-> NoMeter, row |-> row,
   touched |-> Cols, stale |-> {}, asked |-> tags,
   names |-> {}, insert |-> {}, on |-> {}, off |-> {}]

(* Meter.get_by_customer_code and the check in _update_customer; where two *)
(* customers have the code, it is an error for either.                     *)
CodeFree(s, c) == Owners(c) \subseteq {s}

(* customer_add up to its commit.  The tags of a new meter are the         *)
(* trigger's to write.                                                     *)
AddApi(r, s, row, tags) ==
  /\ work[r] = NoWork /\ ~Exists(s)
  /\ row.code # NoCode => CodeFree(s, row.code)
  /\ Prepare(r, WithTags(Fresh(s, row, TRUE, tags), s, tags, {}, r))

(* add of the web, with no check of the code of the customer.              *)
AddPage(r, s, row, tags) ==
  /\ work[r] = NoWork /\ ~Exists(s)
  /\ Prepare(r, WithTags(Fresh(s, row, FALSE, tags), s, tags, {}, r))

(* customer_edit of the API: what is given.                                *)
EditMeterApi(r, s, touched, row, tags) ==
  LET add == IF "tags" \in touched THEN tags \ TagsOf(s) ELSE {}
      del == IF "tags" \in touched THEN TagsOf(s) \ tags ELSE {} IN
  /\ work[r] = NoWork /\ Exists(s)
  /\ "code" \in touched => row.code # NoCode /\ CodeFree(s, row.code)
  /\ "code" \notin touched => row.code = meterRow[s].code
  /\ "state" \notin touched => row.state = meterRow[s].state
  /\ "tags" \notin touched => tags = TagsOf(s)
  /\ \A t \in add \cup del : \A i, j \in RowsOf(s, t) : i = j
  /\ Prepare(r, WithTags([Fresh(s, row, TRUE, tags) EXCEPT !.seen = meterRow[s], !.touched = touched],
                         s, add, del, ComputedId))

(* edit of the web: the page, ...                                          *)
OpenPage(r, s) ==
  /\ work[r] = NoWork /\ Exists(s)
  /\ work' = [work EXCEPT ![r] = [meter |-> s, row |-> meterRow[s], tags |-> TagsOf(s)]]
  /\ UNCHANGED <<meterRow, tagNames, present, active, announced, requests, cut, loose, raced, crossing>>

(* ... and what is sent from it, which has every column.                   *)
PostPage(r, touched, row, tags) ==
  LET page == work[r]
      s == page.meter
      stale == {col \in Cols :
                  \/ col = "code" /\ page.row.code # meterRow[s].code
                  \/ col = "state" /\ page.row.state # meterRow[s].state
                  \/ col = "tags" /\ page.tags # TagsOf(s)} IN
  /\ work[r] \in Page
  /\ "code" \notin touched => row.code = page.row.code
  /\ "state" \notin touched => row.state = page.row.state
  /\ "tags" \notin touched => tags = page.tags
  /\ Prepare(r, WithTags([Fresh(s, row, FALSE, tags) EXCEPT
                            !.seen = meterRow[s], !.touched = touched \cup stale, !.stale = stale],
                         s, tags \ TagsOf(s), TagsOf(s) \ tags, r))

(* The constraints of the database: serials, names of tags, ids.           *)
Conflicting(w) ==
  \/ w.seen = NoMeter /\ Exists(w.meter)
  \/ w.names \cap tagNames # {}
  \/ \E x \in w.insert : <<w.meter, x[1], x[2]>> \in present

(* A faulty trigger, which writes every column.                            *)
WrittenWhole(w) == w.row

(* meter_view_dml: the columns that differ from what the request read.     *)
Written(w) ==
  IF w.seen = NoMeter THEN w.row
  ELSE [code  |-> IF w.row.code # w.seen.code THEN w.row.code ELSE meterRow[w.meter].code,
        state |-> IF w.row.state # w.seen.state THEN w.row.state ELSE meterRow[w.meter].state]

Of(s, pairs) == {<<s, x[1], x[2]>> : x \in pairs}

(* A faulty tag, which is not turned on again.                             *)
ActiveAfterNew(w) == (active \ Of(w.meter, w.off)) \cup Of(w.meter, w.insert)

(* meter_add_tags and meter_remove_tags.                                   *)
ActiveAfter(w) ==
  (active \ Of(w.meter, w.off)) \cup Of(w.meter, w.on) \cup Of(w.meter, w.insert)

(* Only the API makes the event in the same commit.                        *)
AnnouncedAtOnce(w) == w.seen = NoMeter /\ w.api

(* The commit of a request.                                                *)
CommitWork(r) ==
  LET w == work[r] IN
  /\ r \in Writing /\ ~Conflicting(w)
  /\ meterRow' = [meterRow EXCEPT ![w.meter] = Written(w)]
  /\ tagNames' = tagNames \cup w.names
  /\ present' = present \cup Of(w.meter, w.insert)
  /\ active' = ActiveAfter(w)
  /\ announced' = announced \cup {s \in {w.meter} : AnnouncedAtOnce(w)}
  /\ work' = [work EXCEPT ![r] = IF w.seen = NoMeter /\ ~w.api THEN [w EXCEPT !.stage = "announce"]
                                 ELSE NoWork]
  /\ crossing' = crossing \cup {q \in Writing \ {r} : work[q].meter = w.meter}
  /\ UNCHANGED <<requests, cut, loose, raced>>

(* finish_creation of the web: the second commit of add.                   *)
AnnounceMeter(r) ==
  /\ work[r] \in Work /\ work[r].stage = "announce"
  /\ announced' = announced \cup {work[r].meter}
  /\ work' = [work EXCEPT ![r] = NoWork]
  /\ UNCHANGED <<meterRow, tagNames, present, active, requests, cut, loose, raced, crossing>>

(* The request ends here: a constraint, a crash, a page that is closed.    *)
EndWork(r) ==
  /\ work[r] # NoWork
  /\ cut' = cut \cup {s \in Serials : work[r] \in Work /\ work[r].stage = "announce" /\ work[r].meter = s}
  /\ work' = [work EXCEPT ![r] = NoWork]
  /\ UNCHANGED <<meterRow, tagNames, present, active, announced, requests, loose, raced, crossing>>

FleetNext ==
  \E r \in Offices :
    \/ \E s \in Serials, row \in Row, tags \in SUBSET TagNames :
         \/ AddApi(r, s, row, tags)
         \/ AddPage(r, s, row, tags)
         \/ \E touched \in SUBSET Cols : EditMeterApi(r, s, touched, row, tags)
    \/ \E s \in Serials : OpenPage(r, s)
    \/ \E touched \in SUBSET Cols, row \in Row, tags \in SUBSET TagNames :
         PostPage(r, touched, row, tags)
    \/ CommitWork(r)
    \/ AnnounceMeter(r)
    \/ EndWork(r)

FleetSpec == FleetInit /\ [][FleetNext]_fleetVars

-----------------------------------------------------------------------------
(* Every meter has an event that tells the ground of it, unless the web    *)
(* added it and its request ended between the two commits.                 *)
CreatedIsAnnounced ==
  \A s \in Serials : Exists(s) =>
    \/ s \in announced \cup cut
    \/ \E r \in Offices : work[r] \in Work /\ work[r].stage = "announce" /\ work[r].meter = s

(* Two customers have the same code only if a page gave it, which does not *)
(* check, or two requests did at the same time.                            *)
CodesDistinct ==
  \A c \in CustCodes : (\E s, u \in Owners(c) : s # u) => c \in loose

(* There are two rows for a tag of a meter only if two requests added it   *)
(* at the same time; the API then cannot add it or take it off any more.   *)
MappedOnce ==
  \A s \in Serials, t \in TagNames : (\E i, j \in RowsOf(s, t) : i # j) => <<s, t>> \in raced

(* After an edit of its tags a meter has those that were asked for, unless *)
(* another request wrote the meter since it was read.                      *)
TagsAsAsked ==
  [][\A r \in Writing, s \in Serials :
       /\ CommitWork(r) /\ work[r].meter = s
       /\ r \notin crossing /\ "tags" \in work[r].touched
       => TagsOf(s)' = work[r].asked]_fleetVars

(* A column that nobody touched keeps its value when another is edited,    *)
(* also when two edits of a meter overlap; from a page, only if it is what *)
(* the page showed.                                                        *)
UntouchedKept ==
  [][\A s \in Serials : Exists(s) =>
       /\ meterRow'[s].code # meterRow[s].code =>
            \E r \in Writing : work[r].meter = s /\ "code" \in work[r].touched /\ r \notin Writing'
       /\ meterRow'[s].state # meterRow[s].state =>
            \E r \in Writing : work[r].meter = s /\ "state" \in work[r].touched /\ r \notin Writing'
    ]_fleetVars
=============================================================================
