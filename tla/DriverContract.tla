--------------------------- MODULE DriverContract ---------------------------
(***************************************************************************)
(* What a meter driver says of itself in its OpenAPI document and its list *)
(* of requirements, which interface is used with it, and what is taken     *)
(* from its config file to initialise it: pure operators.  A text that the *)
(* operator types is nothing (Blank), a value of the declared type that    *)
(* meets the declared constraints (Good), or one that does not (Wrong).    *)
(***************************************************************************)
EXTENDS Integers, Sequences, FiniteSets

CONSTANTS
  None,         \* no driver, no target, no file
  Unreadable,   \* a file that is empty or cut short, or with two texts in it
  Fields,       \* names of fields that drivers ask for
  GrpcFields,   \* those that the init message of gRPC cannot do without
  GrpcExtra,    \* those that it can also carry
  Good          \* usable values

ASSUME ContractAssumption ==
  /\ GrpcFields \subseteq Fields /\ GrpcExtra \subseteq Fields
  /\ Good \cap {"blank", "wrong"} = {} /\ None \notin {"url", "grpc"}

Texts == Good \cup {"blank", "wrong"}
Interfaces == {"http", "grpc"}

RequiredOperations ==
  {"requirements", "init", "register", "unregister", "configure node",
   "configure meter", "events", "status", "healthz"}

(* operations: the routes of the document; interfaces and target: what its *)
(* x-meter-driver block advertises; required: the list of /v1/requirements *)
(* and described: the properties of its init request and vendor options.   *)
Contract ==
  [operations : SUBSET RequiredOperations, interfaces : SUBSET Interfaces,
   target : BOOLEAN, preferred : Interfaces \cup {None},
   required : SUBSET Fields, described : SUBSET Fields]

Registrable(c) == RequiredOperations \subseteq c.operations

(* An http interface is made up when none is advertised.                   *)
InterfacesOf(c) == c.interfaces \cup {"http"}

DefaultInterface(c) == IF c.preferred \in InterfacesOf(c) THEN c.preferred ELSE "http"

Selected(c, i) == IF i \in InterfacesOf(c) THEN i ELSE DefaultInterface(c)

(* The target, or else the address, of an interface: for http that is the  *)
(* URL of the driver.                                                      *)
TargetOf(c, i) ==
  IF i = "http" THEN "url" ELSE IF c.target THEN "grpc" ELSE None

GrpcUsable(c) ==
  /\ "grpc" \in c.interfaces /\ c.target
  /\ GrpcFields \subseteq c.required

(* A grpc selection that cannot work is refused, any other selection that  *)
(* the driver does not offer falls back.                                   *)
Choosable(c, i) == i = "grpc" => GrpcUsable(c)

(* The target in use: that of the interface selected in the document as it *)
(* is now, if it could be read and has one, else the one that was saved.   *)
TargetInUse(i, target, c, seen) ==
  LET live == IF seen THEN TargetOf(c, Selected(c, i)) ELSE None
  IN  IF live # None THEN live ELSE target

-----------------------------------------------------------------------------
(* The config file of a driver.                                            *)

File == [required : SUBSET Fields, optional : SUBSET Fields, values : [Fields -> Texts]]

ASSUME FileAssumption == {None, Unreadable} \cap File = {} /\ None # Unreadable

(* There is a file, and its text can be parsed.                            *)
Readable(file) == file \notin {None, Unreadable}

Listed(file) == file.required \cup file.optional

(* A faulty file, for the mutant: the values start afresh.                 *)
RefreshedBlank(c, old) ==
  [required |-> c.required, optional |-> c.described \ c.required,
   values |-> [f \in Fields |-> "blank"]]

(* Written on registration: the values of fields still listed are kept.    *)
Refreshed(c, old) ==
  LET listed == c.required \cup c.described
  IN  [required |-> c.required, optional |-> c.described \ c.required,
       values |-> [f \in Fields |->
                     IF f \in listed /\ Readable(old) THEN old.values[f] ELSE "blank"]]

Empty == [required |-> {}, optional |-> {}, values |-> [f \in Fields |-> "blank"]]

(* A faulty check, for the mutant: what is required may be left out.       *)
ValidBlank(file) == \A f \in Listed(file) : file.values[f] # "wrong"

(* A config can be saved, and its driver initialised with it.              *)
Valid(file) ==
  /\ \A f \in file.required : file.values[f] # "blank"
  /\ \A f \in Listed(file) : file.values[f] # "wrong"

(* The body of the init: the listed fields that have a value.              *)
Body(file) ==
  [f \in {f \in Listed(file) : file.values[f] # "blank"} |-> file.values[f]]

Initialisable(file) == Readable(file) /\ Valid(file)

(* Over gRPC the init needs its fixed fields, and carries no others.       *)
Accepted(i, body) == i = "grpc" => GrpcFields \subseteq DOMAIN body

Sent(i, body) ==
  IF i = "grpc"
  THEN [f \in DOMAIN body \cap (GrpcFields \cup GrpcExtra) |-> body[f]]
  ELSE body

=============================================================================
