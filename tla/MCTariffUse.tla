---------------------------- MODULE MCTariffUse ----------------------------
(***************************************************************************)
(* TariffUse on small instances.                                           *)
(***************************************************************************)
EXTENDS TariffUse

Hours == 0..(TicksPerDay - 1)

(* Every period of whole hours, and all ways to choose up to three of the  *)
(* periods that start and end at 0, 4, 8, ... hours.                       *)
Period(hours) == {[start |-> s, end |-> e, value |-> 200] : s \in hours, e \in hours}
FourHourly    == {h \in Hours : h % 4 = 0}
UpToThreePeriods ==
  {{p, q, r} : p \in Period(FourHourly), q \in Period(FourHourly), r \in Period(FourHourly)}

Block == {[lower |-> l, upper |-> u, value |-> v] :
            l \in 0..MaxValue, u \in 0..MaxValue, v \in {1, 3}}
UpToThreeBlocks == {{b, c, d} : b \in Block, c \in Block, d \in Block}

AllDay  == {[start |-> 0, end |-> 0, value |-> 100]}
AllKwh  == {[lower |-> 0, upper |-> 0, value |-> 1]}

(* Periods with one block, and blocks with one period.                     *)
SmallTariffs ==
  {[periods |-> ps, blocks |-> AllKwh] : ps \in {{p} : p \in Period(Hours)} \cup UpToThreePeriods}
    \cup {[periods |-> AllDay, blocks |-> bs] : bs \in UpToThreeBlocks}
=============================================================================
