-------------------------- MODULE MCDriverRuntime ---------------------------
(***************************************************************************)
(* DriverRuntime on a small instance: a driver that offers gRPC and asks   *)
(* for a key, one that has given gRPC up and asks for nothing, and one     *)
(* whose document lacks the routes that are required.  Each behaviour is   *)
(* about one matter: how requests meet at the files, or how activations    *)
(* meet at the runtimes.                                                   *)
(***************************************************************************)
EXTENDS DriverRuntime, TLC

CONSTANTS t1, t2, a1, a2, v1, v2

ContractOf(operations, interfaces, required) ==
  [operations |-> operations, interfaces |-> interfaces, target |-> "grpc" \in interfaces,
   preferred |-> None, required |-> required, described |-> {}]

TwoWay == ContractOf(RequiredOperations, {"grpc"}, {"key"})
HttpOnly == ContractOf(RequiredOperations, {}, {})
Partial == ContractOf(RequiredOperations \ {"events"}, {"grpc"}, {"key"})

MCContracts == {TwoWay, HttpOnly, Partial}

VARIABLE matter   \* what this behaviour is about

mcVars == <<vars, matter>>

MCInit ==
  /\ Init /\ matter \in {"files", "runtimes"}
  /\ matter = "files" => \A p \in ToSet(saved) : p.enabled

(* The requests overlap while they read and write files.  Which provider   *)
(* is enabled does not matter; the runtime of the start stays.             *)
AboutFiles ==
  /\ \A t \in Threads : requests'[t].at = "submitted" => requests'[t].enabled
  /\ \A a \in Activations : ensures'[a] # ensures[a] => Ended \in {ensures[a], ensures'[a]}

(* The activations overlap, with each other and with saves.  A request     *)
(* that reads or writes a file is done with it before anything else        *)
(* happens; the operator has one value for what a text asks for and none   *)
(* for what it does not; what goes wrong is an activation, or the process  *)
(* dies.  No driver is upgraded.                                           *)
AboutRuntimes ==
  /\ UNCHANGED contract
  /\ \A t \in Threads :
       requests[t].at \notin {"idle", "submitted", "fetched", "written"} => requests'[t] # requests[t]
  /\ troubles' = troubles \/ ensures' # ensures \/ serving' # serving
  /\ \A t \in Threads : requests'[t].at = "posting" =>
       \A f \in Fields \ Listed(requests'[t].text) : requests'[t].text.values[f] = "blank"
  /\ Cardinality({intended'[x][f] : x \in Ids, f \in Fields} \cap Good) <= 1

MCNext ==
  /\ Next /\ UNCHANGED matter
  /\ IF matter = "files" THEN AboutFiles ELSE AboutRuntimes

MCSpec == MCInit /\ [][MCNext]_mcVars

Symmetry == Permutations(Threads) \cup Permutations(Activations) \cup Permutations(Good)

=============================================================================
