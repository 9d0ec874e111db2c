------------------------------ MODULE Charges ------------------------------
(***************************************************************************)
(* What billing a reading does to the three wallets of a meter, once its   *)
(* cost is known: the plan pays before the credit, negative credit of a    *)
(* prepaid meter becomes debt, and debt is paid off with a share of the    *)
(* cost.  b holds the balances of the wallets; auto says that the meter is *)
(* in STATE_AUTO, the operating mode of a prepaid meter.                   *)
(***************************************************************************)
EXTENDS Integers

CONSTANTS
  AllowNegativeBalance, \* parameters.ALLOW_NEGATIVE_BALANCE
  DebtPaybackPercent    \* parameters.DEBT_PAYBACK_PERCENT

ASSUME ChargesAssumption ==
  /\ AllowNegativeBalance \in BOOLEAN
  /\ DebtPaybackPercent \in 0..100

Least(x, y) == IF x < y THEN x ELSE y
Most(x, y)  == IF x < y THEN y ELSE x

(* Meter.maybe_convert_negative_balance_to_debt: when it converts.         *)
Converts(auto, credit) == auto /\ ~AllowNegativeBalance /\ credit < 0

(* A faulty PayReading: the credit pays what the plan has paid already.    *)
PayReadingTwice(auto, b, cost) ==
  LET credit == b.credit - cost
  IN  [plan   |-> b.plan - Least(cost, b.plan),
       credit |-> IF Converts(auto, credit) THEN 0 ELSE credit,
       debt   |-> IF Converts(auto, credit) THEN b.debt - credit ELSE b.debt]

(* CalculateBilling._update_customer_credit                                *)
PayReading(auto, b, cost) ==
  LET planCost == Least(cost, b.plan)
      credit   == b.credit - (cost - planCost)
  IN  [plan   |-> b.plan - planCost,
       credit |-> IF Converts(auto, credit) THEN 0 ELSE credit,
       debt   |-> IF Converts(auto, credit) THEN b.debt - credit ELSE b.debt]

(* One round of the loop of _pay_off_customer_debt: what is deducted from  *)
(* a wallet holding `value` when `charge` is still to be financed.         *)
Deduction(charge, value, debt) == Most(0, Least(charge, Least(value, debt)))

PayOffDebt(b, cost) ==
  LET charge   == (cost * DebtPaybackPercent) \div 100
      fromPlan == Deduction(charge, b.plan, b.debt)
      fromCred == Deduction(charge - fromPlan, b.credit, b.debt - fromPlan)
  IN  [plan   |-> b.plan - fromPlan,
       credit |-> b.credit - fromCred,
       debt   |-> b.debt - fromPlan - fromCred]

Billed(auto, b, cost) ==
  LET paid == PayReading(auto, b, cost)
  IN  IF paid.debt > 0 THEN PayOffDebt(paid, cost) ELSE paid
=============================================================================
