----------------------------- MODULE MCLedger -----------------------------
(***************************************************************************)
(* Ledger on small instances.                                              *)
(***************************************************************************)
EXTENDS Ledger, TLC

CONSTANTS m1, v1, system

CreditSale   == [from |-> v1, to |-> m1, kind |-> "credit"]
DebtPayment  == [from |-> m1, to |-> v1, kind |-> "debt"]
Transfer1    == [from |-> system, to |-> v1, kind |-> "credit"]
SystemSale   == [from |-> system, to |-> m1, kind |-> "credit"]

SaleFlows    == {CreditSale}
ExchangeFlows == {Transfer1, CreditSale}
AllFlowsHere == {CreditSale, DebtPayment, Transfer1, SystemSale}

PlusMinusOne == {-1, 1}

NoWallets == [x \in Wallet |-> 0]
(* A customer in debt, with credit and what is left of a plan.             *)
MixedMeter == [NoWallets EXCEPT ![<<v1, "credit">>] = 2, ![<<m1, "credit">>] = 1,
                                ![<<m1, "debt">>] = 1, ![<<m1, "plan">>] = 1]

Ids == Permutations(TxId)
=============================================================================
