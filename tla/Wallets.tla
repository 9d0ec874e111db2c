------------------------------ MODULE Wallets ------------------------------
(***************************************************************************)
(* The data of the payment ledger and the arithmetic done on it: accounts, *)
(* wallets, transaction records, what processing a transaction does to the *)
(* wallets it touches, and which wallets billing a reading rewrites.       *)
(* Everything here is a pure function of its arguments; the modules        *)
(* LedgerSpec and Ledger turn it into steps.                               *)
(*                                                                         *)
(* Money is an integer number of the smallest unit.  A markup is 0 or 1,   *)
(* the two ends of the range [0, 1] the code accepts.                      *)
(***************************************************************************)
EXTENDS Charges, FiniteSets

CONSTANTS
  Meters,               \* customer meters
  Vendors,              \* restricted sales accounts
  Globals,              \* global sales accounts, System among them
  System,               \* the sales account with system = True
  AutoMeters,           \* the meters whose config.state is STATE_AUTO
  TxId,                 \* transaction ids; their number bounds the model
  ExtIds,               \* identifiers given by an external system
  None                  \* SQL NULL

ASSUME WalletsAssumption ==
  /\ System \in Globals
  /\ IsFiniteSet(Meters) /\ IsFiniteSet(Vendors) /\ IsFiniteSet(Globals)
  /\ Meters \cap (Vendors \cup Globals) = {}
  /\ Vendors \cap Globals = {}
  /\ AutoMeters \subseteq Meters
  /\ None \notin TxId \cup ExtIds \cup Meters

SalesAccounts == Vendors \cup Globals

(* One wallet of each type per owner; sales accounts have no plan wallet.  *)
Wallet == ((Meters \cup SalesAccounts) \X {"credit", "debt"})
            \cup (Meters \X {"plan"})

NegativePermitted(x) == x[1] \in Globals

MeterWallets(m) == {<<m, "credit">>, <<m, "debt">>, <<m, "plan">>}

(* get_wallet of a sales account yields nothing for "plan".                *)
SystemWallet(kind) ==
  <<System, IF kind = "plan" THEN "credit" ELSE kind>>

-----------------------------------------------------------------------------
(* Transaction records.                                                    *)

Origin == {"user", "system", "reversal", "zeroing"}
State  == {"pending", "processed", "error", "reversed"}

Transaction ==
  [state : State, origin : Origin, amount : Int, from : Wallet, to : Wallet,
   ref : TxId \cup {None}, ext : ExtIds \cup {None}]

NewTransaction(origin, amount, from, to, ref, ext) ==
  [state |-> "pending", origin |-> origin, amount |-> amount,
   from |-> from, to |-> to, ref |-> ref, ext |-> ext]

ReversalOf(txs, p) ==
  NewTransaction("reversal", -txs[p].amount, txs[p].from, txs[p].to, p, None)

(* Transaction.has_been_reversed, over the transactions table txs.         *)
HasBeenReversed(txs, p) ==
  \E r \in DOMAIN txs :
    txs[r].ref = p /\ txs[r].origin = "reversal" /\ txs[r].state = "processed"

IsReversal(t) == t.origin = "reversal" /\ t.ref # None

(* The balances moved once: those of a processed transaction, and of one   *)
(* that was processed before a later transaction reversed it.              *)
Applied(t) == t.state \in {"processed", "reversed"}

-----------------------------------------------------------------------------
(* Processing a transaction t against the balances s of a set of wallets.  *)

(* The wallets Transaction.process reads: both ends, and the credit and    *)
(* debt wallets of the receiving meter for the conversion of debt.         *)
Touched(t) ==
  {t.from, t.to} \cup
    IF t.to[1] \in Meters THEN {<<t.to[1], "credit">>, <<t.to[1], "debt">>} ELSE {}

(* A faulty EnoughFunds: the amount is not deducted before the comparison. *)
EnoughFundsBefore(t, s) == NegativePermitted(t.from) \/ s[t.from] >= 0

EnoughFunds(t, s) == NegativePermitted(t.from) \/ s[t.from] - t.amount >= 0

(* A faulty ConvertNegative: the sign of the balance is not changed.       *)
ConvertNegativeNoAbs(m, s) ==
  IF m \in Meters /\ Converts(m \in AutoMeters, s[<<m, "credit">>])
  THEN [s EXCEPT ![<<m, "debt">>] = @ + s[<<m, "credit">>],
                 ![<<m, "credit">>] = 0]
  ELSE s

ConvertNegative(m, s) ==
  IF m \in Meters /\ Converts(m \in AutoMeters, s[<<m, "credit">>])
  THEN [s EXCEPT ![<<m, "debt">>] = @ - s[<<m, "credit">>],
                 ![<<m, "credit">>] = 0]
  ELSE s

(* The sending wallet first, then the receiving one.                       *)
Transfer(t, s) ==
  [[s EXCEPT ![t.from] = @ - t.amount] EXCEPT ![t.to] = @ + t.amount]

(* The balances of s once t has been processed.                            *)
Settled(t, s) ==
  ConvertNegative(t.to[1], Transfer(t, s))

-----------------------------------------------------------------------------
(* Billing a reading of a meter m: its three wallets as the record that    *)
(* the module Charges works on.                                            *)

Balances(s, m) ==
  [credit |-> s[<<m, "credit">>], debt |-> s[<<m, "debt">>], plan |-> s[<<m, "plan">>]]

(* The balances s with those of m replaced by b.                           *)
WithBalances(s, m, b) ==
  [x \in DOMAIN s |-> IF x \in MeterWallets(m) THEN b[x[2]] ELSE s[x]]
=============================================================================
