----------------------------- MODULE MCGroundOps -----------------------------
(* The operations of a ground with two meters, one of which is added later.*)
EXTENDS GroundOps, TLC

(* A meter of 1 A, so that its own limit is the voltage: 2 W or 4 W.       *)
MCPowers == {1, 3}
MCVoltages == {2, 4}
MCCaps == {1}
MCUses == {0, 1}
MCHours == {"day", "night"}

(* The second tariff has a plan and a daily limit.  A form asks for these, *)
(* or for another load limit at night.                                     *)
Plain == [limits |-> [h \in MCHours |-> 3], planned |-> FALSE, cap |-> None]
Full == [Plain EXCEPT !.planned = TRUE, !.cap = 1]
Scheduled == [Plain EXCEPT !.limits["night"] = 1]
MCFirstTerms == [t \in Tariffs |-> IF t = FirstTariff THEN Plain ELSE Full]
MCForms == {Full, Scheduled}
=============================================================================
