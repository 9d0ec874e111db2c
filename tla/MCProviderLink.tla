-------------------------- MODULE MCProviderLink ---------------------------
(***************************************************************************)
(* ProviderLink on small instances: as meters differ in nothing, they may  *)
(* be permuted in the runs without liveness.                               *)
(***************************************************************************)
EXTENDS ProviderLink, TLC

MeterSymmetry == Permutations(Meters)

=============================================================================
