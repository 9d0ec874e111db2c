-------------------------- MODULE MCReadingIntake --------------------------
(***************************************************************************)
(* ReadingIntake on small instances.                                       *)
(***************************************************************************)
EXTENDS ReadingIntake

(* A counter that shows ten at first and moves on by one, two, ...         *)
GrowingEnergy == [r \in Heartbeats |-> 10 + (r * (r + 1)) \div 2]

=============================================================================
