---------------------------- MODULE LedgerSpec ----------------------------
(***************************************************************************)
(* What the payment ledger promises, without locks, sessions, queues or    *)
(* crashes: an order is placed once, is then settled once or rejected      *)
(* once, settling it moves exactly its amount in one step, it is rejected  *)
(* only for a reason that holds at that moment, no order is reversed       *)
(* twice, and the only other thing that moves money is a billed reading.   *)
(* Ledger is shown to implement this specification.                        *)
(***************************************************************************)
EXTENDS Wallets

CONSTANTS Costs, InitialBalance

VARIABLES
  balance,  \* [Wallet -> Int]
  orders,   \* id -> Order, growing
  billed    \* [Meters -> Int]: the cost of all readings billed so far

vars == <<balance, orders, billed>>

Order ==
  [status : {"pending", "settled", "rejected"}, origin : Origin, amount : Int,
   from : Wallet, to : Wallet, ref : TxId \cup {None}]

AlreadyReversed(t) ==
  /\ IsReversal(orders[t])
  /\ \E r \in DOMAIN orders \ {t} :
       /\ orders[r].ref = orders[t].ref
       /\ orders[r].origin = "reversal"
       /\ orders[r].status = "settled"

(* A reversal moves what a settled order moved, back.                      *)
WellFormed(o, placed) ==
  /\ o.status = "pending"
  /\ o.origin = "reversal" =>
       /\ o.ref \in DOMAIN placed
       /\ placed[o.ref].status = "settled"
       /\ o.amount = -placed[o.ref].amount
       /\ o.from = placed[o.ref].from
       /\ o.to = placed[o.ref].to

Init ==
  /\ balance = InitialBalance
  /\ orders = <<>>
  /\ billed = [m \in Meters |-> 0]

(* New orders, an order and perhaps its bonus, become visible at once.     *)
Place ==
  /\ DOMAIN orders \subseteq DOMAIN orders'
  /\ \A t \in DOMAIN orders : orders'[t] = orders[t]
  /\ \A t \in DOMAIN orders' \ DOMAIN orders : WellFormed(orders'[t], orders)
  /\ UNCHANGED <<balance, billed>>

Settle(t) ==
  /\ orders[t].status = "pending"
  /\ ~AlreadyReversed(t)
  /\ EnoughFunds(orders[t], balance)
  /\ balance' = Settled(orders[t], balance)
  /\ orders' = [orders EXCEPT ![t].status = "settled"]
  /\ UNCHANGED billed

Reject(t) ==
  /\ orders[t].status = "pending"
  /\ AlreadyReversed(t) \/ ~EnoughFunds(orders[t], balance)
  /\ orders' = [orders EXCEPT ![t].status = "rejected"]
  /\ UNCHANGED <<balance, billed>>

Bill(m, cost) ==
  /\ balance' = WithBalances(balance, m, Billed(m \in AutoMeters, Balances(balance, m), cost))
  /\ billed' = [billed EXCEPT ![m] = @ + cost]
  /\ UNCHANGED orders

Next ==
  \/ Place
  \/ \E t \in DOMAIN orders : Settle(t) \/ Reject(t)
  \/ \E m \in Meters, cost \in Costs : Bill(m, cost)

Spec == Init /\ [][Next]_vars
=============================================================================
