----------------------------- MODULE MCBilling -----------------------------
(***************************************************************************)
(* Billing on small instances.                                             *)
(***************************************************************************)
EXTENDS Billing

NoPlan ==
  [type |-> "flat", flatPrice |-> 1, blocks |-> {}, tous |-> {}, plan |-> FALSE,
   price |-> 0, fee |-> 0, daily |-> FALSE, startDay |-> 1, threshold |-> 1]

(* One unit for each of the first two kWh of a cycle, three for the rest.  *)
Blocks == {[lower |-> 0, upper |-> 2, value |-> 1], [lower |-> 2, upper |-> 0, value |-> 3]}
BlockTariff == [NoPlan EXCEPT !.type = "blockrate", !.blocks = Blocks]
BlockFromDay2 == [BlockTariff EXCEPT !.startDay = 2]
MonthlyPlan ==
  [BlockTariff EXCEPT !.plan = TRUE, !.price = 2, !.fee = 1]
(* Energy is twice as expensive in the first half of the day.              *)
DailyPlan ==
  [NoPlan EXCEPT !.plan = TRUE, !.price = 2, !.fee = 1, !.daily = TRUE, !.threshold = 2,
                 !.tous = {[start |-> 0, end |-> 2, value |-> 200]}]

ManyTariffs == {BlockFromDay2, MonthlyPlan, DailyPlan}

SomeDebt   == [credit |-> 5, debt |-> 1, plan |-> 0]
=============================================================================
