---------------------------- MODULE LedgerProofs ----------------------------
(***************************************************************************)
(* What the payment ledger keeps, for any number of meters, accounts,      *)
(* workers, requests, billing threads and transactions:                    *)
(*                                                                         *)
(*   TypeCorrect     Spec => []TypeOK                                      *)
(*   ViewsStayFresh  Spec => []FreshView                                   *)
(*   ReversedOnce    Spec => []OneReversal                                 *)
(*   Refines         Spec => ImplementsLedgerSpec                          *)
(*   FundsAreThere   Spec => NoOverdraft                                   *)
(*   MoneyStays      Spec => []MoneyConserved                              *)
(*                                                                         *)
(* All but the first and the third where wallets are locked; the third and *)
(* the fourth as long as nobody reverses a reversal: the check against     *)
(* double reversals forgets a reversal that was reversed itself.           *)
(*                                                                         *)
(* Neither of the first two is inductive.  A worker computes new balances  *)
(* from what it read in `seen' for the row `cur', a billing thread from    *)
(* `bseen'; so the first needs to know what those hold (Sessions), and the *)
(* second who holds which lock while they hold it (Locking).  The others   *)
(* rest on ViewsStayFresh and on two invariants.  Reversals: a row, in the *)
(* table or about to be inserted, goes from debt to debt or from credit to *)
(* credit, and a reversal moves back what a row has moved that was applied *)
(* and stays so.  UndoneOnce: no reversal is ever marked reversed itself,  *)
(* so two that are processed never refer to the same row; this is what     *)
(* has_been_reversed, asked under the lock on the table, is for.           *)
(***************************************************************************)
EXTENDS Ledger, Sums

(* What the sessions of workers and billing threads hold.                  *)
Sessions ==
  /\ DOMAIN seen = Workers /\ DOMAIN bseen = Billers
  /\ \A w \in Workers :
       /\ queue[w] \subseteq DOMAIN tx
       /\ pc[w] \in {"table", "wallets"} => cur[w] \in DOMAIN tx
       /\ pc[w] = "wallets" => seen[w] \in [Touched(tx[cur[w]]) -> Int]
  /\ \A b \in Billers :
       bill[b] # None => bseen[b] \in [credit : Int, debt : Int, plan : Int]

(* Who holds which locks.                                                  *)
Locking ==
  /\ \A w \in Workers : pc[w] \in {"table", "wallets"} => tableLock = w
  /\ \A w \in Workers : pc[w] = "wallets" =>
       \A x \in LockSet(cur[w]) : walletLock[x] = w
  /\ \A b \in Billers : bill[b] # None =>
       \A x \in BillLockSet(bill[b]) : walletLock[x] = b

TypeInv == TypeOK /\ Sessions

-----------------------------------------------------------------------------
(* Wallets and rows.                                                       *)

(* A wallet is a pair of its owner and its type.                           *)
LEMMA WalletPairs ==
  ASSUME NEW x \in Wallet
  PROVE  /\ x = <<x[1], x[2]>>
         /\ x[1] \in Meters \cup SalesAccounts
         /\ x[2] \in {"credit", "debt", "plan"}
BY DEF Wallet

(* The wallets of a meter are those with the meter as their owner.         *)
LEMMA WalletsOfMeter ==
  ASSUME NEW m \in Meters
  PROVE  /\ MeterWallets(m) \subseteq Wallet
         /\ \A x \in MeterWallets(m) : x[1] = m
         /\ \A x \in Wallet : x[1] = m => x \in MeterWallets(m)
<1>1. MeterWallets(m) \subseteq Wallet /\ \A x \in MeterWallets(m) : x[1] = m
  BY DEF MeterWallets, Wallet
<1>2. ASSUME NEW x \in Wallet, x[1] = m
      PROVE  x \in MeterWallets(m)
  BY <1>2, WalletPairs DEF MeterWallets
<1> QED
  BY <1>1, <1>2

(* The system account has the wallet that zeroing takes from.              *)
LEMMA SystemWalletType ==
  ASSUME NEW x \in Wallet
  PROVE  SystemWallet(x[2]) \in Wallet
<1>1. System \in SalesAccounts
  BY WalletsAssumption DEF SalesAccounts
<1> QED
  BY <1>1, WalletPairs DEF SystemWallet, Wallet

(* Processing a row reads wallets that exist.                              *)
LEMMA TouchedType ==
  ASSUME NEW t \in Transaction
  PROVE  Touched(t) \subseteq Wallet
<1>1. t.from \in Wallet /\ t.to \in Wallet
  BY DEF Transaction
<1> QED
  BY <1>1 DEF Touched, Wallet

(* A new row is a transaction.                                             *)
LEMMA NewTransactionType ==
  ASSUME NEW origin \in Origin, NEW amount \in Int, NEW from \in Wallet, NEW to \in Wallet,
         NEW ref \in TxId \cup {None}, NEW ext \in ExtIds \cup {None}
  PROVE  NewTransaction(origin, amount, from, to, ref, ext) \in Transaction
BY DEF NewTransaction, Transaction, State

(* Processing a row turns integers into integers.                          *)
LEMMA SettledType ==
  ASSUME NEW t \in Transaction, NEW s \in [Touched(t) -> Int]
  PROVE  Settled(t, s) \in [Touched(t) -> Int]
<1> DEFINE u == Transfer(t, s)
<1>1. t.from \in Touched(t) /\ t.to \in Touched(t) /\ t.amount \in Int
  BY DEF Touched, Transaction
<1>2. u \in [Touched(t) -> Int]
  BY <1>1 DEF Transfer
<1>3. CASE t.to[1] \in Meters
  <2>1. <<t.to[1], "credit">> \in Touched(t) /\ <<t.to[1], "debt">> \in Touched(t)
    BY <1>3 DEF Touched
  <2> HIDE DEF u
  <2>2. ConvertNegative(t.to[1], u) \in [Touched(t) -> Int]
    BY <1>2, <2>1 DEF ConvertNegative
  <2> QED
    BY <2>2 DEF Settled, u
<1>4. CASE t.to[1] \notin Meters
  BY <1>2, <1>4 DEF Settled, ConvertNegative
<1> QED
  BY <1>3, <1>4

(* Billing a reading turns integers into integers.                         *)
LEMMA BilledType ==
  ASSUME NEW auto, NEW b \in [credit : Int, debt : Int, plan : Int], NEW cost \in Int
  PROVE  Billed(auto, b, cost) \in [credit : Int, debt : Int, plan : Int]
<1> DEFINE Bal == [credit : Int, debt : Int, plan : Int]
<1>1. PayReading(auto, b, cost) \in Bal
  <2> DEFINE planCost == Least(cost, b.plan)
             credit   == b.credit - (cost - planCost)
             conv     == Converts(auto, credit)
  <2>1. planCost \in Int /\ b.credit \in Int /\ b.debt \in Int /\ b.plan \in Int
    BY DEF Least
  <2>2. credit \in Int
    BY <2>1
  <2>3. PayReading(auto, b, cost) =
          [plan |-> b.plan - planCost,
           credit |-> IF conv THEN 0 ELSE credit,
           debt |-> IF conv THEN b.debt - credit ELSE b.debt]
    BY DEF PayReading
  <2> HIDE DEF planCost, credit, conv
  <2> QED
    BY <2>1, <2>2, <2>3
<1>2. ASSUME NEW x \in Int, NEW y \in Int, NEW z \in Int
      PROVE  Deduction(x, y, z) \in Int
  BY DEF Deduction, Least, Most
<1>3. ASSUME NEW p \in Bal
      PROVE  PayOffDebt(p, cost) \in Bal
  <2> DEFINE charge   == (cost * DebtPaybackPercent) \div 100
             fromPlan == Deduction(charge, p.plan, p.debt)
             fromCred == Deduction(charge - fromPlan, p.credit, p.debt - fromPlan)
  <2>1. charge \in Int
    <3>1. DebtPaybackPercent \in Int
      BY ChargesAssumption
    <3> QED
      BY <3>1
  <2>2. p.credit \in Int /\ p.debt \in Int /\ p.plan \in Int
    OBVIOUS
  <2> HIDE DEF charge
  <2>3. fromPlan \in Int
    BY <1>2, <2>1, <2>2
  <2> HIDE DEF fromPlan
  <2>4. charge - fromPlan \in Int /\ p.debt - fromPlan \in Int
    BY <2>1, <2>2, <2>3
  <2>5. fromCred \in Int
    BY <1>2, <2>2, <2>4
  <2>6. PayOffDebt(p, cost) =
          [plan |-> p.plan - fromPlan, credit |-> p.credit - fromCred,
           debt |-> p.debt - fromPlan - fromCred]
    BY DEF PayOffDebt, fromPlan, charge
  <2> HIDE DEF fromCred
  <2> QED
    BY <2>2, <2>3, <2>5, <2>6
<1> QED
  BY <1>1, <1>3 DEF Billed

-----------------------------------------------------------------------------
(* Type correctness.                                                       *)

LEMMA TypeInvInit == Init => TypeInv
<1> SUFFICES ASSUME Init PROVE TypeInv
  OBVIOUS
<1>1. DOMAIN tx = {}
  BY DEF Init
<1>2. <<>> \in Seq(Transaction)
  OBVIOUS
<1>3. TypeOK
  BY <1>1, <1>2, LedgerAssumption DEF Init, TypeOK
<1>4. Sessions
  BY <1>1 DEF Init, Sessions
<1> QED
  BY <1>3, <1>4 DEF TypeInv

(* Checking a request only fills the client's rows.                        *)
LEMMA RequestRows ==
  ASSUME TypeInv, NEW c \in Clients,
         NEW rows \in Seq(Transaction), client' = [client EXCEPT ![c] = rows],
         UNCHANGED <<tables, locks, workerVars, billVars, counters>>
  PROVE  TypeInv'
BY DEF TypeInv, TypeOK, Sessions, tables, locks, workerVars, billVars, counters
(* Rows added to the table leave what sessions hold untouched.             *)
LEMMA AddedRows ==
  ASSUME TypeInv, NEW txs,
         DOMAIN tx \subseteq DOMAIN txs, DOMAIN txs \subseteq TxId,
         \A t \in DOMAIN txs : txs[t] \in Transaction,
         \A t \in DOMAIN tx : txs[t] = tx[t],
         tx' = txs,
         UNCHANGED <<wallet, notices, billed, locks, cur, seen, billVars, counters>>,
         zeroEvents' = zeroEvents,
         client' \in [Clients -> Seq(Transaction)],
         pc' \in [Workers -> {"idle", "pass", "table", "wallets", "zeroed"}],
         zeroing' \in [Workers -> Wallet \cup {None}],
         queue' \in [Workers -> SUBSET (DOMAIN txs)],
         \A w \in Workers : pc'[w] # pc[w] => pc'[w] = "pass"
  PROVE  TypeInv'
<1>1. TypeOK'
  BY DEF TypeInv, TypeOK, locks, billVars, counters
<1>2. Sessions'
  BY DEF TypeInv, TypeOK, Sessions, locks, billVars, counters, Touched
<1> QED
  BY <1>1, <1>2 DEF TypeInv

(* Changing the state of rows leaves their wallets as they were; a worker  *)
(* that ends its transaction has no session left.                          *)
LEMMA SettledRows ==
  ASSUME TypeInv, NEW w \in Workers, NEW txs,
         DOMAIN txs = DOMAIN tx,
         \A t \in DOMAIN tx : /\ txs[t] \in Transaction
                              /\ txs[t].from = tx[t].from /\ txs[t].to = tx[t].to,
         tx' = txs,
         wallet' \in [Wallet -> Int],
         notices' \subseteq {"reversal", "credit"} \X TxId,
         EndTransaction(w),
         GoOn(w) \/ Abandon(w),
         UNCHANGED <<zeroEvents, billed, client, billVars, counters>>
  PROVE  TypeInv'
<1>1. /\ pc' \in [Workers -> {"idle", "pass", "table", "wallets", "zeroed"}]
      /\ queue' \in [Workers -> SUBSET (DOMAIN tx)]
      /\ zeroing' \in [Workers -> Wallet \cup {None}]
      /\ pc'[w] \in {"idle", "pass", "zeroed"}
      /\ \A v \in Workers \ {w} : pc'[v] = pc[v]
  BY DEF GoOn, Abandon, TypeInv, TypeOK, Sessions
<1>2. /\ tableLock' \in Workers \cup {None}
      /\ walletLock' \in [Wallet -> Workers \cup Billers \cup {None}]
      /\ cur' \in [Workers -> TxId \cup {None}]
      /\ \A v \in Workers \ {w} : cur'[v] = cur[v] /\ seen'[v] = seen[v]
      /\ DOMAIN seen' = Workers
  BY DEF EndTransaction, WalletLockWithout, TypeInv, TypeOK, Sessions
<1>3. TypeOK'
  BY <1>1, <1>2 DEF TypeInv, TypeOK, billVars, counters
<1>4. \A v \in Workers : Touched(tx'[cur'[v]]) = Touched(tx[cur[v]]) \/ v = w \/ cur[v] \notin DOMAIN tx
  BY <1>2 DEF Touched
<1>5. Sessions'
  BY <1>1, <1>2, <1>4 DEF TypeInv, Sessions, billVars
<1> QED
  BY <1>3, <1>5 DEF TypeInv
(* Marking rows with the outcome of one of them keeps them transactions.   *)
LEMMA OutcomeRows ==
  ASSUME TypeInv, NEW t \in DOMAIN tx, NEW state \in State
  PROVE  /\ DOMAIN Outcome(t, state) = DOMAIN tx
         /\ \A i \in DOMAIN tx :
              /\ Outcome(t, state)[i] \in Transaction
              /\ Outcome(t, state)[i].from = tx[i].from
              /\ Outcome(t, state)[i].to = tx[i].to
<1>1. \A i \in DOMAIN tx : tx[i] \in Transaction
  BY DEF TypeInv, TypeOK
<1>2. \A r \in Transaction, st \in State :
        /\ [r EXCEPT !.state = st] \in Transaction
        /\ [r EXCEPT !.state = st].from = r.from
        /\ [r EXCEPT !.state = st].to = r.to
  BY DEF Transaction
<1>3. "reversed" \in State
  BY DEF State
<1> QED
  BY <1>1, <1>2, <1>3 DEF Outcome

(* The notices of processing a row are about rows.                         *)
LEMMA NoticeTypes ==
  ASSUME TypeInv, NEW t \in DOMAIN tx
  PROVE  ReversalNotice(t) \cup CreditNotice(t) \subseteq {"reversal", "credit"} \X TxId
<1>1. t \in TxId /\ tx[t].ref \in TxId \cup {None}
  BY DEF TypeInv, TypeOK, Transaction
<1>2. ReversalNotice(t) \subseteq {"reversal", "credit"} \X TxId
  BY <1>1 DEF ReversalNotice, IsReversal
<1>3. CreditNotice(t) \subseteq {"reversal", "credit"} \X TxId
  BY <1>1 DEF CreditNotice
<1> QED
  BY <1>2, <1>3

(* Requests keep the types.                                                *)
LEMMA TypeInvRequest == TypeInv /\ Request => TypeInv'
<1> SUFFICES ASSUME TypeInv, Request PROVE TypeInv'
  OBVIOUS
<1>1. ASSUME NEW c \in Clients, NEW f \in Flows, NEW amount \in Amounts,
             NEW markup \in Markups, NEW ext \in ExtIds \cup {None},
             CheckCreate(c, f, amount, markup, ext)
      PROVE  TypeInv'
  <2> DEFINE from  == <<f.from, f.kind>>
             to    == <<f.to, f.kind>>
             main  == NewTransaction("user", amount, from, to, None, ext)
             bonus == NewTransaction("system", amount * markup, from, to, None, None)
             rows  == IF markup = 0 THEN <<main>> ELSE <<main, bonus>>
  <2>1. from \in Wallet /\ to \in Wallet
    <3>1. f \in AllFlows
      BY LedgerAssumption
    <3> QED
      BY <3>1 DEF AllFlows, Wallet, SalesAccounts
  <2>2. amount \in Int /\ amount * markup \in Int
    <3>1. amount \in Int /\ markup \in Int
      BY LedgerAssumption
    <3> QED
      BY <3>1
  <2>3. main \in Transaction /\ bonus \in Transaction
    <3>1. "user" \in Origin /\ "system" \in Origin
      BY DEF Origin
    <3> HIDE DEF from, to
    <3> QED
      BY <2>1, <2>2, <3>1, NewTransactionType
  <2>4. client' = [client EXCEPT ![c] = rows]
    BY <1>1 DEF CheckCreate
  <2> HIDE DEF main, bonus
  <2>5. rows \in Seq(Transaction)
    BY <2>3
  <2>6. UNCHANGED <<tables, locks, workerVars, billVars, counters>>
    BY <1>1 DEF CheckCreate
  <2> HIDE DEF rows
  <2> QED
    BY <2>4, <2>5, <2>6, RequestRows
<1>2. ASSUME NEW c \in Clients, NEW p \in DOMAIN tx, CheckReverse(c, p)
      PROVE  TypeInv'
  <2>1. p \in TxId /\ tx[p] \in Transaction
    BY DEF TypeInv, TypeOK
  <2>2. ReversalOf(tx, p) \in Transaction
    <3>1. tx[p].amount \in Int /\ tx[p].from \in Wallet /\ tx[p].to \in Wallet
      BY <2>1 DEF Transaction
    <3>2. -tx[p].amount \in Int /\ "reversal" \in Origin
      BY <3>1 DEF Origin
    <3> QED
      BY <2>1, <3>1, <3>2, NewTransactionType DEF ReversalOf
  <2>3. <<ReversalOf(tx, p)>> \in Seq(Transaction)
    BY <2>2
  <2> QED
    BY <1>2, <2>3, RequestRows DEF CheckReverse
<1>3. ASSUME NEW c \in Clients, Insert(c)
      PROVE  TypeInv'
  <2>1. client[c] \in Seq(Transaction) /\ DOMAIN tx \subseteq TxId
    BY DEF TypeInv, TypeOK
  <2>2. UNCHANGED <<wallet, notices, billed, locks, cur, seen, billVars, counters>>
        /\ zeroEvents' = zeroEvents /\ pc' = pc /\ zeroing' = zeroing /\ queue' = queue
    BY <1>3 DEF Insert, workerVars
  <2>3. /\ client' \in [Clients -> Seq(Transaction)]
        /\ pc' \in [Workers -> {"idle", "pass", "table", "wallets", "zeroed"}]
        /\ zeroing' \in [Workers -> Wallet \cup {None}]
        /\ \A w \in Workers : queue'[w] \subseteq DOMAIN tx
    BY <1>3, <2>2 DEF Insert, TypeInv, TypeOK, Sessions
  <2>4. /\ DOMAIN tx \subseteq DOMAIN tx'
        /\ DOMAIN tx' \subseteq TxId
        /\ \A t \in DOMAIN tx' : tx'[t] \in Transaction
        /\ \A t \in DOMAIN tx : tx'[t] = tx[t]
    <3>1. PICK id \in FreeIds :
            \/ /\ Len(client[c]) = 1
               /\ tx' = WithRow(tx, id, client[c][1])
            \/ /\ Len(client[c]) = 2
               /\ \E bonus \in FreeIds \ {id} :
                    tx' = WithRow(WithRow(tx, id, client[c][1]),
                                  bonus, [client[c][2] EXCEPT !.ref = id])
      BY <1>3 DEF Insert
    <3>2. \A t \in DOMAIN tx : tx[t] \in Transaction
      BY DEF TypeInv, TypeOK
    <3>3. CASE Len(client[c]) = 1 /\ tx' = WithRow(tx, id, client[c][1])
      <4>1. client[c][1] \in Transaction
        BY <2>1, <3>3
      <4> QED
        BY <2>1, <3>2, <3>3, <4>1 DEF WithRow, FreeIds
    <3>4. ASSUME Len(client[c]) = 2, NEW bonus \in FreeIds \ {id},
                 tx' = WithRow(WithRow(tx, id, client[c][1]),
                               bonus, [client[c][2] EXCEPT !.ref = id])
          PROVE  /\ DOMAIN tx \subseteq DOMAIN tx'
                 /\ DOMAIN tx' \subseteq TxId
                 /\ \A t \in DOMAIN tx' : tx'[t] \in Transaction
                 /\ \A t \in DOMAIN tx : tx'[t] = tx[t]
      <4>1. client[c][1] \in Transaction /\ client[c][2] \in Transaction
        BY <2>1, <3>4
      <4>2. [client[c][2] EXCEPT !.ref = id] \in Transaction
        BY <4>1 DEF Transaction, FreeIds
      <4> QED
        BY <2>1, <3>2, <3>4, <4>1, <4>2 DEF WithRow, FreeIds
    <3> QED
      BY <3>1, <3>3, <3>4
  <2>5. queue' \in [Workers -> SUBSET (DOMAIN tx')]
    BY <2>2, <2>3, <2>4 DEF TypeInv, TypeOK
  <2> QED
    BY <2>2, <2>3, <2>4, <2>5, AddedRows
<1>4. ASSUME NEW m \in Meters, NEW x \in MeterWallets(m), RequestZero(x)
      PROVE  TypeInv'
  <2>1. x \in Wallet
    BY WalletsOfMeter
  <2>2. TypeOK'
    BY <1>4, <2>1 DEF RequestZero, TypeInv, TypeOK, locks, workerVars, billVars
  <2>3. Sessions'
    BY <1>4 DEF RequestZero, TypeInv, Sessions, workerVars, billVars
  <2> QED
    BY <2>2, <2>3 DEF TypeInv
<1> QED
  BY <1>1, <1>2, <1>3, <1>4 DEF Request
(* The steps of a worker keep the types.                                   *)
LEMMA TypeInvWorker ==
  ASSUME TypeInv, NEW w \in Workers, StartPass(w) \/ StartZeroing(w) \/ Run(w) \/ Crash(w)
  PROVE  TypeInv'
<1> USE DEF tables, locks, workerVars, billVars, counters
<1>1. CASE StartPass(w)
  <2>1. Pending \subseteq DOMAIN tx
    BY DEF Pending
  <2> QED
    BY <1>1, <2>1 DEF StartPass, TypeInv, TypeOK, Sessions
<1>2. CASE EndPass(w)
  BY <1>2 DEF EndPass, TypeInv, TypeOK, Sessions
<1>3. CASE StartZeroing(w)
  <2>1. PICK x \in zeroEvents, id \in FreeIds :
          /\ tx' = WithRow(tx, id, NewTransaction("zeroing", -wallet[x],
                                                  SystemWallet(x[2]), x, None, None))
          /\ zeroing' = [zeroing EXCEPT ![w] = x]
          /\ queue' = [queue EXCEPT ![w] = {id}]
    BY <1>3 DEF StartZeroing
  <2> DEFINE row == NewTransaction("zeroing", -wallet[x], SystemWallet(x[2]), x, None, None)
  <2>2. x \in Wallet /\ -wallet[x] \in Int
    BY DEF TypeInv, TypeOK
  <2>3. row \in Transaction
    <3>1. SystemWallet(x[2]) \in Wallet /\ "zeroing" \in Origin
      BY <2>2, SystemWalletType DEF Origin
    <3> QED
      BY <2>2, <3>1, NewTransactionType
  <2> HIDE DEF row
  <2>4. /\ DOMAIN tx \subseteq DOMAIN tx'
        /\ DOMAIN tx' \subseteq TxId
        /\ \A t \in DOMAIN tx' : tx'[t] \in Transaction
        /\ \A t \in DOMAIN tx : tx'[t] = tx[t]
        /\ id \in DOMAIN tx'
    BY <2>1, <2>3 DEF row, WithRow, FreeIds, TypeInv, TypeOK
  <2>5. queue' \in [Workers -> SUBSET (DOMAIN tx')]
    BY <2>1, <2>4 DEF TypeInv, TypeOK, Sessions
  <2>6. /\ client' \in [Clients -> Seq(Transaction)]
        /\ pc' \in [Workers -> {"idle", "pass", "table", "wallets", "zeroed"}]
        /\ zeroing' \in [Workers -> Wallet \cup {None}]
        /\ \A v \in Workers : pc'[v] # pc[v] => pc'[v] = "pass"
    BY <1>3, <2>1, <2>2 DEF StartZeroing, TypeInv, TypeOK
  <2> QED
    BY <1>3, <2>4, <2>5, <2>6, AddedRows DEF StartZeroing
<1>4. CASE LockTable(w)
  <2>1. PICK t \in queue[w] : /\ cur' = [cur EXCEPT ![w] = t]
                             /\ queue' = [queue EXCEPT ![w] = @ \ {t}]
    BY <1>4 DEF LockTable
  <2>2. t \in DOMAIN tx /\ t \in TxId
    BY DEF TypeInv, TypeOK, Sessions
  <2>3. TypeOK'
    BY <1>4, <2>1, <2>2 DEF LockTable, TypeInv, TypeOK
  <2>4. Sessions'
    BY <1>4, <2>1, <2>2 DEF LockTable, TypeInv, TypeOK, Sessions
  <2> QED
    BY <2>3, <2>4 DEF TypeInv
<1>5. CASE LockWallets(w)
  <2>1. TypeOK'
    BY <1>5 DEF LockWallets, TypeInv, TypeOK
  <2>2. Touched(tx[cur[w]]) \subseteq Wallet
    BY <1>5, TouchedType DEF LockWallets, TypeInv, TypeOK, Sessions
  <2>3. [x \in Touched(tx[cur[w]]) |-> wallet[x]] \in [Touched(tx[cur[w]]) -> Int]
    BY <2>2 DEF TypeInv, TypeOK
  <2>4. /\ \A v \in Workers \ {w} : seen'[v] = seen[v] /\ pc'[v] = pc[v]
        /\ pc[w] = "table" /\ cur' = cur /\ tx' = tx /\ queue' = queue
        /\ UNCHANGED billVars
    BY <1>5 DEF LockWallets
  <2>5. seen'[w] \in [Touched(tx[cur[w]]) -> Int] /\ DOMAIN seen' = Workers
    BY <1>5, <2>3 DEF LockWallets, TypeInv, Sessions
  <2> QED
    BY <2>1, <2>4, <2>5 DEF TypeInv, Sessions
<1>6. CASE LockTimeout(w)
  BY <1>6, SettledRows DEF LockTimeout, TypeInv, TypeOK
<1>7. ASSUME pc[w] = "wallets" PROVE cur[w] \in DOMAIN tx
  BY <1>7 DEF TypeInv, Sessions
<1>8. CASE ProcessAlreadyProcessed(w)
  BY <1>8, SettledRows DEF ProcessAlreadyProcessed, SkipOrAbandon, TypeInv, TypeOK
<1>9. CASE ProcessAlreadyReversed(w)
  <2> DEFINE txs == [tx EXCEPT ![cur[w]].state = "error"]
  <2>1. DOMAIN txs = DOMAIN tx
    OBVIOUS
  <2>2. \A t \in DOMAIN tx : /\ txs[t] \in Transaction
                             /\ txs[t].from = tx[t].from /\ txs[t].to = tx[t].to
    BY ZenonT(60) DEF TypeInv, TypeOK, Transaction, State
  <2>3. tx' = txs /\ EndTransaction(w) /\ (GoOn(w) \/ Abandon(w))
        /\ UNCHANGED <<wallet, notices, zeroEvents, billed, client, billVars, counters>>
    BY <1>9 DEF ProcessAlreadyReversed, SkipOrAbandon
  <2>4. wallet' \in [Wallet -> Int] /\ notices' \subseteq {"reversal", "credit"} \X TxId
    BY <2>3 DEF TypeInv, TypeOK
  <2> HIDE DEF txs
  <2> QED
    BY <2>1, <2>2, <2>3, <2>4, SettledRows
<1>10. CASE ProcessNotEnoughFunds(w)
  <2> DEFINE txs == Outcome(cur[w], "error")
  <2>1. cur[w] \in DOMAIN tx /\ "error" \in State
    BY <1>7, <1>10 DEF ProcessNotEnoughFunds, State
  <2>2. notices' \subseteq {"reversal", "credit"} \X TxId
    BY <1>10, <2>1, NoticeTypes DEF ProcessNotEnoughFunds, TypeInv, TypeOK
  <2>3. tx' = txs /\ EndTransaction(w) /\ Abandon(w)
        /\ UNCHANGED <<wallet, zeroEvents, billed, client, billVars, counters>>
    BY <1>10 DEF ProcessNotEnoughFunds
  <2>4. wallet' \in [Wallet -> Int]
    BY <2>3 DEF TypeInv, TypeOK
  <2>5. /\ DOMAIN txs = DOMAIN tx
        /\ \A i \in DOMAIN tx : /\ txs[i] \in Transaction
                                 /\ txs[i].from = tx[i].from /\ txs[i].to = tx[i].to
    BY <2>1, OutcomeRows
  <2> HIDE DEF txs
  <2> QED
    BY <2>2, <2>3, <2>4, <2>5, SettledRows
<1>11. CASE Process(w)
  <2> DEFINE txs   == Outcome(cur[w], "processed")
             after == Settled(tx[cur[w]], seen[w])
  <2>1. cur[w] \in DOMAIN tx /\ "processed" \in State
    BY <1>7, <1>11 DEF Process, State
  <2>2. notices' \subseteq {"reversal", "credit"} \X TxId
    BY <1>11, <2>1, NoticeTypes DEF Process, TypeInv, TypeOK
  <2>3. tx' = txs /\ EndTransaction(w) /\ GoOn(w)
        /\ wallet' = [x \in Wallet |-> IF x \in DOMAIN after THEN after[x] ELSE wallet[x]]
        /\ UNCHANGED <<zeroEvents, billed, client, billVars, counters>>
    BY <1>11 DEF Process
  <2>4. tx[cur[w]] \in Transaction /\ seen[w] \in [Touched(tx[cur[w]]) -> Int]
    BY <1>11, <2>1 DEF Process, TypeInv, TypeOK, Sessions
  <2>5. after \in [Touched(tx[cur[w]]) -> Int]
    BY <2>4, SettledType
  <2>6. /\ DOMAIN txs = DOMAIN tx
        /\ \A i \in DOMAIN tx : /\ txs[i] \in Transaction
                                 /\ txs[i].from = tx[i].from /\ txs[i].to = tx[i].to
    BY <2>1, OutcomeRows
  <2> HIDE DEF txs, after
  <2>7. wallet' \in [Wallet -> Int]
    BY <2>3, <2>5 DEF TypeInv, TypeOK
  <2> QED
    BY <2>2, <2>3, <2>6, <2>7, SettledRows
<1>12. CASE CommitEvent(w)
  BY <1>12 DEF CommitEvent, Abandon, TypeInv, TypeOK, Sessions
<1>13. CASE Crash(w)
  <2>1. TypeOK'
    BY <1>13 DEF Crash, Abandon, WalletLockWithout, TypeInv, TypeOK
  <2>2. Sessions'
    BY <1>13 DEF Crash, Abandon, TypeInv, TypeOK, Sessions
  <2> QED
    BY <2>1, <2>2 DEF TypeInv
<1> QED
  BY <1>1, <1>2, <1>3, <1>4, <1>5, <1>6, <1>8, <1>9, <1>10, <1>11, <1>12, <1>13 DEF Run

(* The steps of a billing thread keep the types.                           *)
LEMMA TypeInvBilling ==
  TypeInv /\ (Billing \/ \E b \in Billers : CrashBilling(b)) => TypeInv'
<1> SUFFICES ASSUME TypeInv, Billing \/ \E b \in Billers : CrashBilling(b)
             PROVE  TypeInv'
  OBVIOUS
<1> USE DEF tables, locks, workerVars, billVars, counters
<1>1. ASSUME NEW b \in Billers, NEW m \in Meters, LockForBilling(b, m)
      PROVE  TypeInv'
  <2>1. Balances(wallet, m) \in [credit : Int, debt : Int, plan : Int]
    <3>1. MeterWallets(m) \subseteq Wallet
      BY WalletsOfMeter
    <3> QED
      BY <3>1 DEF Balances, MeterWallets, TypeInv, TypeOK
  <2>2. TypeOK'
    BY <1>1 DEF LockForBilling, TypeInv, TypeOK
  <2>3. Sessions'
    BY <1>1, <2>1 DEF LockForBilling, TypeInv, TypeOK, Sessions
  <2> QED
    BY <2>2, <2>3 DEF TypeInv
<1>2. ASSUME NEW b \in Billers, NEW cost \in Costs, CommitBilling(b, cost)
      PROVE  TypeInv'
  <2> DEFINE m    == bill[b]
             paid == Billed(m \in AutoMeters, bseen[b], cost)
  <2>1. m \in Meters /\ cost \in Int
    BY <1>2, LedgerAssumption DEF CommitBilling, TypeInv, TypeOK
  <2>2. paid \in [credit : Int, debt : Int, plan : Int]
    BY <1>2, <2>1, BilledType DEF CommitBilling, TypeInv, Sessions
  <2>3. wallet' = WithBalances(wallet, m, paid)
    BY <1>2 DEF CommitBilling
  <2>4. \A x \in Wallet : x[2] \in {"credit", "debt", "plan"}
    BY WalletPairs
  <2> HIDE DEF paid
  <2>5. wallet' \in [Wallet -> Int]
    BY <2>2, <2>3, <2>4 DEF WithBalances, TypeInv, TypeOK
  <2>6. TypeOK'
    BY <1>2, <2>1, <2>5 DEF CommitBilling, WalletLockWithout, TypeInv, TypeOK
  <2>7. Sessions'
    BY <1>2 DEF CommitBilling, TypeInv, TypeOK, Sessions
  <2> QED
    BY <2>6, <2>7 DEF TypeInv
<1>3. ASSUME NEW b \in Billers, CrashBilling(b)
      PROVE  TypeInv'
  <2>1. TypeOK'
    BY <1>3 DEF CrashBilling, WalletLockWithout, TypeInv, TypeOK
  <2>2. Sessions'
    BY <1>3 DEF CrashBilling, TypeInv, TypeOK, Sessions
  <2> QED
    BY <2>1, <2>2 DEF TypeInv
<1> QED
  BY <1>1, <1>2, <1>3 DEF Billing

LEMMA TypeInvStep == TypeInv /\ [Next]_vars => TypeInv'
<1> SUFFICES ASSUME TypeInv, [Next]_vars PROVE TypeInv'
  OBVIOUS
<1>1. CASE Next
  BY <1>1, TypeInvRequest, TypeInvWorker, TypeInvBilling DEF Next
<1>2. CASE UNCHANGED vars
  BY <1>2 DEF TypeInv, TypeOK, Sessions, vars, tables, locks, workerVars, billVars, counters
<1> QED
  BY <1>1, <1>2

LEMMA TypeInvariance == Spec => []TypeInv
<1> QED
  BY TypeInvInit, TypeInvStep, PTL DEF Spec

(* The variables of the ledger hold what they are declared to hold: every  *)
(* step of every handler, on any accounts, meters and workers, writes      *)
(* values of the right type.                                               *)
THEOREM TypeCorrect == Spec => []TypeOK
<1>1. TypeInv => TypeOK
  BY DEF TypeInv
<1> QED
  BY <1>1, TypeInvariance, PTL
-----------------------------------------------------------------------------
(* Locks and fresh views.                                                  *)

RowsKept ==
  \A t \in DOMAIN tx :
    t \in DOMAIN tx' /\ tx'[t].from = tx[t].from /\ tx'[t].to = tx[t].to

(* A row never goes away and never changes its wallets.                    *)
LEMMA RowsAreKept == TypeInv /\ [Next]_vars => RowsKept
<1> SUFFICES ASSUME TypeInv, [Next]_vars PROVE RowsKept
  OBVIOUS
<1>1. \A t \in DOMAIN tx : tx[t] \in Transaction
  BY DEF TypeInv, TypeOK
<1>2. ASSUME tx' = tx PROVE RowsKept
  BY <1>2 DEF RowsKept
<1>3. ASSUME NEW c \in Clients, Insert(c) PROVE RowsKept
  BY <1>3 DEF Insert, WithRow, RowsKept, FreeIds
<1>4. ASSUME NEW w \in Workers, StartZeroing(w) PROVE RowsKept
  BY <1>4 DEF StartZeroing, WithRow, RowsKept, FreeIds
<1>5. ASSUME NEW w \in Workers, ProcessAlreadyReversed(w) PROVE RowsKept
  BY <1>1, <1>5 DEF ProcessAlreadyReversed, RowsKept, Transaction
<1>6. ASSUME NEW w \in Workers, ProcessNotEnoughFunds(w) \/ Process(w) PROVE RowsKept
  <2>1. PICK state \in State : tx' = Outcome(cur[w], state)
    BY <1>6 DEF ProcessNotEnoughFunds, Process, State
  <2>2. cur[w] \in DOMAIN tx
    BY <1>6 DEF ProcessNotEnoughFunds, Process, TypeInv, Sessions
  <2> QED
    BY <2>1, <2>2, OutcomeRows DEF RowsKept
<1>7. CASE Request
  <2>1. ASSUME NEW c \in Clients, NEW f \in Flows, NEW amount \in Amounts,
               NEW markup \in Markups, NEW ext \in ExtIds \cup {None},
               CheckCreate(c, f, amount, markup, ext)
        PROVE  tx' = tx
    BY <2>1 DEF CheckCreate, tables
  <2>2. ASSUME NEW c \in Clients, NEW t \in DOMAIN tx, CheckReverse(c, t) PROVE tx' = tx
    BY <2>2 DEF CheckReverse, tables
  <2>3. ASSUME NEW m \in Meters, NEW x \in MeterWallets(m), RequestZero(x) PROVE tx' = tx
    BY <2>3 DEF RequestZero
  <2> QED
    BY <1>2, <1>3, <1>7, <2>1, <2>2, <2>3 DEF Request
<1>8. ASSUME NEW w \in Workers, StartPass(w) \/ Run(w) \/ Crash(w) PROVE RowsKept
  <2>1. CASE StartPass(w) \/ EndPass(w) \/ LockTable(w) \/ LockWallets(w)
    BY <1>2, <2>1 DEF StartPass, EndPass, LockTable, LockWallets, tables
  <2>2. CASE LockTimeout(w) \/ ProcessAlreadyProcessed(w) \/ CommitEvent(w) \/ Crash(w)
    BY <1>2, <2>2 DEF LockTimeout, ProcessAlreadyProcessed, CommitEvent, Crash, tables
  <2> QED
    BY <1>5, <1>6, <1>8, <2>1, <2>2 DEF Run
<1>9. CASE Billing \/ (\E b \in Billers : CrashBilling(b)) \/ UNCHANGED vars
  BY <1>2, <1>9 DEF Billing, LockForBilling, CommitBilling, CrashBilling, vars, tables
<1> QED
  BY <1>4, <1>7, <1>8, <1>9 DEF Next

(* Every lock a session counts on stays its own until its transaction ends.*)
LEMMA LockingStep == TypeInv /\ Locking /\ [Next]_vars => Locking'
<1> SUFFICES ASSUME TypeInv, Locking, [Next]_vars PROVE Locking'
  OBVIOUS
<1> USE DEF tables, locks, workerVars, billVars, counters
<1>1. RowsKept
  BY RowsAreKept
<1>2. \A t \in DOMAIN tx : tx'[t].from = tx[t].from /\ tx'[t].to = tx[t].to
  BY <1>1 DEF RowsKept
<1>3. \A w \in Workers : pc[w] \in {"table", "wallets"} => cur[w] \in DOMAIN tx
  BY DEF TypeInv, Sessions
<1>4. None \notin Workers \cup Billers /\ Workers \cap Billers = {}
  BY LedgerAssumption
<1>5. /\ \A t \in DOMAIN tx : LockSet(t) \subseteq Wallet
      /\ \A m \in Meters : BillLockSet(m) \subseteq Wallet
  BY WalletsOfMeter DEF TypeInv, TypeOK, Transaction, LockSet, BillLockSet
<1>6. ASSUME UNCHANGED <<locks, pc, cur, bill>> PROVE Locking'
  BY <1>2, <1>3, <1>6 DEF Locking, LockSet, BillLockSet
<1>7. CASE Request
  <2>1. ASSUME NEW c \in Clients, NEW f \in Flows, NEW amount \in Amounts,
               NEW markup \in Markups, NEW ext \in ExtIds \cup {None},
               CheckCreate(c, f, amount, markup, ext)
        PROVE  UNCHANGED <<locks, pc, cur, bill>>
    BY <2>1 DEF CheckCreate
  <2>2. ASSUME NEW c \in Clients, NEW t \in DOMAIN tx, CheckReverse(c, t)
        PROVE  UNCHANGED <<locks, pc, cur, bill>>
    BY <2>2 DEF CheckReverse
  <2>3. ASSUME NEW c \in Clients, Insert(c)
        PROVE  UNCHANGED <<locks, pc, cur, bill>>
    BY <2>3 DEF Insert
  <2>4. ASSUME NEW m \in Meters, NEW x \in MeterWallets(m), RequestZero(x)
        PROVE  UNCHANGED <<locks, pc, cur, bill>>
    BY <2>4 DEF RequestZero
  <2> QED
    BY <1>6, <1>7, <2>1, <2>2, <2>3, <2>4 DEF Request
<1>8. ASSUME NEW w \in Workers, \A v \in Workers \ {w} : pc'[v] = pc[v],
             pc'[w] \notin {"table", "wallets"}, cur' = cur,
             UNCHANGED <<locks, billVars>>
      PROVE  Locking'
  <2>1. UNCHANGED <<tableLock, walletLock, bill>>
    BY <1>8
  <2>2. \A v \in Workers : pc'[v] \in {"table", "wallets"} => pc'[v] = pc[v]
    BY <1>8
  <2>3. \A v \in Workers : pc'[v] = "wallets" =>
          \A x \in LockSet(cur[v])' : walletLock'[x] = v
    BY <1>2, <1>3, <1>8, <2>1, <2>2 DEF Locking, LockSet
  <2> QED
    BY <2>1, <2>2, <2>3 DEF Locking, BillLockSet
<1>9. ASSUME NEW w \in Workers, StartPass(w) \/ StartZeroing(w) \/ EndPass(w) \/ CommitEvent(w)
      PROVE  Locking'
  BY <1>8, <1>9 DEF StartPass, StartZeroing, EndPass, CommitEvent, Abandon, TypeInv, TypeOK
<1>10. ASSUME NEW w \in Workers, LockTable(w) PROVE Locking'
  BY <1>2, <1>3, <1>4, <1>10 DEF LockTable, Locking, LockSet, BillLockSet, TypeInv, TypeOK
<1>11. ASSUME NEW w \in Workers, LockWallets(w) PROVE Locking'
  <2>1. LockSet(cur[w]) \subseteq Wallet
    BY <1>3, <1>5, <1>11 DEF LockWallets
  <2>2. \A v \in Workers \ {w} : pc[v] \notin {"table", "wallets"}
    BY <1>11 DEF LockWallets, Locking
  <2>3. \A x \in Wallet : walletLock[x] # None => walletLock'[x] = walletLock[x]
    BY <1>11 DEF LockWallets
  <2>4. \A x \in LockSet(cur[w]) : walletLock'[x] = w
    BY <1>11, <2>1 DEF LockWallets
  <2>5. \A b \in Billers : bill[b] # None => bill[b] \in Meters
    BY DEF TypeInv, TypeOK
  <2> QED
    BY <1>2, <1>3, <1>4, <1>5, <1>11, <2>2, <2>3, <2>4, <2>5 DEF LockWallets, Locking, LockSet, BillLockSet, TypeInv, TypeOK
<1>12. ASSUME NEW w \in Workers,
              tableLock' = None \/ tableLock' = tableLock, tableLock = w => tableLock' = None,
              \A v \in Workers \ {w} : pc[v] \in {"table", "wallets"} => tableLock' = tableLock,
              walletLock' = WalletLockWithout(w),
              \A v \in Workers \ {w} : pc'[v] = pc[v] /\ cur'[v] = cur[v],
              pc'[w] \notin {"table", "wallets"}, UNCHANGED billVars
       PROVE  Locking'
  <2>1. \A x \in Wallet : walletLock[x] # w => walletLock'[x] = walletLock[x]
    BY <1>12 DEF WalletLockWithout
  <2>2. \A b \in Billers : bill[b] # None => bill[b] \in Meters
    BY DEF TypeInv, TypeOK
  <2> QED
    BY <1>2, <1>3, <1>4, <1>5, <1>12, <2>1, <2>2 DEF Locking, LockSet, BillLockSet
<1>13. ASSUME NEW w \in Workers, pc[w] \in {"table", "wallets"}, EndTransaction(w),
              GoOn(w) \/ Abandon(w), UNCHANGED billVars
       PROVE  Locking'
  <2>1. \A v \in Workers \ {w} : pc[v] \notin {"table", "wallets"}
    BY <1>13 DEF Locking
  <2>2. /\ \A v \in Workers \ {w} : pc'[v] = pc[v] /\ cur'[v] = cur[v]
        /\ pc'[w] \notin {"table", "wallets"}
    BY <1>13 DEF EndTransaction, GoOn, Abandon, TypeInv, TypeOK
  <2> QED
    BY <1>12, <1>13, <2>1, <2>2 DEF EndTransaction
<1>14. ASSUME NEW w \in Workers,
              LockTimeout(w) \/ ProcessAlreadyProcessed(w) \/ ProcessAlreadyReversed(w)
                \/ ProcessNotEnoughFunds(w) \/ Process(w)
       PROVE  Locking'
  BY <1>13, <1>14 DEF LockTimeout, ProcessAlreadyProcessed, ProcessAlreadyReversed,
                      ProcessNotEnoughFunds, Process, SkipOrAbandon
<1>15. ASSUME NEW w \in Workers, Crash(w) PROVE Locking'
  <2>1. /\ \A v \in Workers \ {w} : pc'[v] = pc[v] /\ cur'[v] = cur[v]
        /\ pc'[w] \notin {"table", "wallets"}
    BY <1>15 DEF Crash, Abandon, TypeInv, TypeOK
  <2>2. \A v \in Workers \ {w} : pc[v] \in {"table", "wallets"} => tableLock # w
    BY DEF Locking
  <2> QED
    BY <1>12, <1>15, <2>1, <2>2 DEF Crash
<1>16. ASSUME NEW b \in Billers, NEW m \in Meters, LockForBilling(b, m) PROVE Locking'
  <2>1. \A x \in Wallet : walletLock[x] # None => walletLock'[x] = walletLock[x]
    BY <1>16 DEF LockForBilling
  <2>2. \A x \in BillLockSet(m) : walletLock'[x] = b
    BY <1>5, <1>16 DEF LockForBilling
  <2>3. \A c \in Billers : bill[c] # None => bill[c] \in Meters
    BY DEF TypeInv, TypeOK
  <2>4. bill' = [bill EXCEPT ![b] = m] /\ UNCHANGED <<tx, tableLock, pc, cur>>
    BY <1>16 DEF LockForBilling
  <2>5. \A w \in Workers : pc'[w] \in {"table", "wallets"} => tableLock' = w
    BY <2>4 DEF Locking
  <2>6. \A w \in Workers : pc'[w] = "wallets" =>
          \A x \in LockSet(cur[w])' : walletLock'[x] = w
    BY <1>3, <1>4, <1>5, <2>1, <2>4 DEF Locking, LockSet
  <2>7. \A c \in Billers : bill'[c] # None =>
          \A x \in BillLockSet(bill'[c]) : walletLock'[x] = c
    BY <1>4, <1>5, <2>1, <2>2, <2>3, <2>4 DEF Locking, TypeInv, TypeOK
  <2> QED
    BY <2>5, <2>6, <2>7 DEF Locking, BillLockSet
<1>17. ASSUME NEW b \in Billers, walletLock' = WalletLockWithout(b),
              bill' = [bill EXCEPT ![b] = None], UNCHANGED <<tx, tableLock, pc, cur>>
       PROVE  Locking'
  <2>1. \A x \in Wallet : walletLock[x] # b => walletLock'[x] = walletLock[x]
    BY <1>17 DEF WalletLockWithout
  <2>2. \A c \in Billers : bill[c] # None => bill[c] \in Meters
    BY DEF TypeInv, TypeOK
  <2>5. \A w \in Workers : pc'[w] \in {"table", "wallets"} => tableLock' = w
    BY <1>17 DEF Locking
  <2>6. \A w \in Workers : pc'[w] = "wallets" =>
          \A x \in LockSet(cur[w])' : walletLock'[x] = w
    BY <1>3, <1>4, <1>5, <1>17, <2>1 DEF Locking, LockSet
  <2>7. \A c \in Billers : bill'[c] # None =>
          \A x \in BillLockSet(bill'[c]) : walletLock'[x] = c
    BY <1>4, <1>5, <1>17, <2>1, <2>2 DEF Locking, TypeInv, TypeOK
  <2> QED
    BY <2>5, <2>6, <2>7 DEF Locking, BillLockSet
<1>18. ASSUME NEW b \in Billers, CrashBilling(b) \/ \E cost \in Costs : CommitBilling(b, cost)
       PROVE  Locking'
  BY <1>17, <1>18 DEF CrashBilling, CommitBilling
<1>19. CASE UNCHANGED vars
  BY <1>6, <1>19 DEF vars
<1> QED
  BY <1>7, <1>9, <1>10, <1>11, <1>14, <1>15, <1>16, <1>18, <1>19 DEF Next, Run, Billing
(* A worker that holds its wallet locks touches no wallet of a meter being *)
(* billed: billing locks all three wallets of the meter, and a row touches *)
(* wallets of a meter only if one of the two it locks is the meter's.      *)
LEMMA NoSharedWallet ==
  ASSUME LockWalletsOnProcess, TypeInv, Locking,
         NEW w \in Workers, pc[w] = "wallets", NEW b \in Billers, bill[b] # None
  PROVE  Touched(tx[cur[w]]) \cap MeterWallets(bill[b]) = {}
<1> DEFINE t == tx[cur[w]]
           m == bill[b]
<1>1. m \in Meters
  BY DEF TypeInv, TypeOK
<1>2. t.from \in Wallet /\ t.to \in Wallet
  BY DEF TypeInv, TypeOK, Sessions, Transaction
<1>3. walletLock[t.from] = w /\ walletLock[t.to] = w
  BY DEF Locking, LockSet
<1>4. \A x \in MeterWallets(m) : walletLock[x] = b
  BY DEF Locking, BillLockSet
<1>5. w # b
  BY LedgerAssumption
<1>6. t.from \notin MeterWallets(m) /\ t.to \notin MeterWallets(m)
  BY <1>3, <1>4, <1>5
<1>7. t.to[1] # m
  BY <1>1, <1>2, <1>6, WalletsOfMeter
<1> HIDE DEF t, m
<1>8. \A x \in MeterWallets(m) : x[1] = m
  BY <1>1, WalletsOfMeter
<1>9. <<t.to[1], "credit">>[1] # m /\ <<t.to[1], "debt">>[1] # m
  BY <1>7
<1>10. Touched(t) \cap MeterWallets(m) = {}
  BY <1>6, <1>8, <1>9 DEF Touched
<1> QED
  BY <1>10 DEF t, m

(* Two threads do not bill one meter at a time.                            *)
LEMMA NoSharedMeter ==
  ASSUME LockWalletsOnProcess, Locking, NEW b \in Billers, NEW c \in Billers,
         b # c, bill[b] # None, bill[c] # None
  PROVE  bill[b] # bill[c]
<1>1. <<bill[b], "credit">> \in BillLockSet(bill[b])
  BY DEF BillLockSet, MeterWallets
<1>2. <<bill[c], "credit">> \in BillLockSet(bill[c])
  BY DEF BillLockSet, MeterWallets
<1> QED
  BY <1>1, <1>2 DEF Locking

(* No step makes what a session read untrue before the session ends.       *)
LEMMA FreshViewStep ==
  ASSUME LockWalletsOnProcess, TypeInv, Locking, FreshView, [Next]_vars
  PROVE  FreshView'
<1> USE DEF tables, locks, workerVars, billVars, counters
<1>1. \A t \in DOMAIN tx : tx'[t].from = tx[t].from /\ tx'[t].to = tx[t].to
  BY RowsAreKept DEF RowsKept
<1>2. \A w \in Workers : pc[w] \in {"table", "wallets"} =>
        /\ cur[w] \in DOMAIN tx
        /\ Touched(tx'[cur[w]]) = Touched(tx[cur[w]])
  BY <1>1 DEF TypeInv, Sessions, Touched
<1>3. \A w \in Workers : pc[w] = "wallets" => Touched(tx[cur[w]]) \subseteq Wallet
  BY <1>2, TouchedType DEF TypeInv, TypeOK
<1>4. \A b \in Billers : bill[b] # None =>
        bill[b] \in Meters /\ MeterWallets(bill[b]) \subseteq Wallet
  BY WalletsOfMeter DEF TypeInv, TypeOK
(* The sessions still open after the step see the wallets as they were.    *)
<1>5. ASSUME \A w \in Workers : pc'[w] = "wallets" =>
               /\ pc[w] = "wallets" /\ cur'[w] = cur[w] /\ seen'[w] = seen[w]
               /\ \A x \in Touched(tx[cur[w]]) : wallet'[x] = wallet[x],
             \A b \in Billers : bill'[b] # None =>
               /\ bill'[b] = bill[b] /\ bseen'[b] = bseen[b]
               /\ \A x \in MeterWallets(bill[b]) : wallet'[x] = wallet[x]
      PROVE  FreshView'
  <2>1. ASSUME NEW w \in Workers, pc'[w] = "wallets"
        PROVE  \A x \in Touched(tx'[cur'[w]]) : seen'[w][x] = wallet'[x]
    BY <1>2, <1>5, <2>1 DEF FreshView
  <2>2. ASSUME NEW b \in Billers, bill'[b] # None
        PROVE  bseen'[b] = Balances(wallet', bill'[b])
    <3>1. bseen[b] = Balances(wallet, bill[b]) /\ bseen'[b] = bseen[b] /\ bill'[b] = bill[b]
      BY <1>5, <2>2 DEF FreshView
    <3>2. \A x \in MeterWallets(bill[b]) : wallet'[x] = wallet[x]
      BY <1>5, <2>2
    <3> QED
      BY <3>1, <3>2 DEF Balances, MeterWallets
  <2> QED
    BY <2>1, <2>2 DEF FreshView
<1>6. ASSUME wallet' = wallet, UNCHANGED billVars,
             \A w \in Workers : pc'[w] = "wallets" =>
               pc[w] = "wallets" /\ cur'[w] = cur[w] /\ seen'[w] = seen[w]
      PROVE  FreshView'
  BY <1>5, <1>6
<1>7. CASE Request
  <2>1. ASSUME NEW c \in Clients, NEW f \in Flows, NEW amount \in Amounts,
               NEW markup \in Markups, NEW ext \in ExtIds \cup {None},
               CheckCreate(c, f, amount, markup, ext)
        PROVE  UNCHANGED <<wallet, workerVars, billVars>>
    BY <2>1 DEF CheckCreate
  <2>2. ASSUME NEW c \in Clients, NEW t \in DOMAIN tx, CheckReverse(c, t)
        PROVE  UNCHANGED <<wallet, workerVars, billVars>>
    BY <2>2 DEF CheckReverse
  <2>3. ASSUME NEW c \in Clients, Insert(c)
        PROVE  UNCHANGED <<wallet, workerVars, billVars>>
    BY <2>3 DEF Insert
  <2>4. ASSUME NEW m \in Meters, NEW x \in MeterWallets(m), RequestZero(x)
        PROVE  UNCHANGED <<wallet, workerVars, billVars>>
    BY <2>4 DEF RequestZero
  <2>5. UNCHANGED <<wallet, workerVars, billVars>>
    BY <1>7, <2>1, <2>2, <2>3, <2>4 DEF Request
  <2> QED
    BY <1>6, <2>5
<1>8. ASSUME NEW w \in Workers, StartPass(w) \/ StartZeroing(w) \/ EndPass(w) \/ CommitEvent(w)
      PROVE  FreshView'
  BY <1>6, <1>8 DEF StartPass, StartZeroing, EndPass, CommitEvent, Abandon, TypeInv, TypeOK
<1>9. ASSUME NEW w \in Workers, LockTable(w) PROVE FreshView'
  BY <1>6, <1>9 DEF LockTable, TypeInv, TypeOK
<1>10. ASSUME NEW w \in Workers, LockWallets(w) PROVE FreshView'
  <2>1. /\ pc[w] = "table" /\ UNCHANGED <<wallet, tx, cur, bill, bseen>>
        /\ seen'[w] = [x \in Touched(tx[cur[w]]) |-> wallet[x]]
        /\ \A v \in Workers \ {w} : pc'[v] = pc[v] /\ seen'[v] = seen[v]
    BY <1>10 DEF LockWallets, TypeInv, TypeOK, Sessions
  <2> QED
    BY <2>1 DEF FreshView
<1>11. ASSUME NEW w \in Workers, EndTransaction(w), GoOn(w) \/ Abandon(w)
       PROVE  \A v \in Workers : pc'[v] = "wallets" =>
                v # w /\ pc[v] = "wallets" /\ cur'[v] = cur[v] /\ seen'[v] = seen[v]
  BY <1>11 DEF EndTransaction, GoOn, Abandon, TypeInv, TypeOK
<1>12. ASSUME NEW w \in Workers,
              LockTimeout(w) \/ ProcessAlreadyProcessed(w) \/ ProcessAlreadyReversed(w)
                \/ ProcessNotEnoughFunds(w)
       PROVE  FreshView'
  <2>1. EndTransaction(w) /\ (GoOn(w) \/ Abandon(w)) /\ wallet' = wallet /\ UNCHANGED billVars
    BY <1>12 DEF LockTimeout, ProcessAlreadyProcessed, ProcessAlreadyReversed,
                 ProcessNotEnoughFunds, SkipOrAbandon
  <2> QED
    BY <1>6, <1>11, <2>1
<1>13. ASSUME NEW w \in Workers, Process(w) PROVE FreshView'
  <2> DEFINE touched == Touched(tx[cur[w]])
  <2>1. pc[w] = "wallets" /\ EndTransaction(w) /\ GoOn(w) /\ UNCHANGED billVars
    BY <1>13 DEF Process
  <2>2. \A v \in Workers \ {w} : pc[v] # "wallets"
    BY <2>1 DEF Locking
  <2>3. \A v \in Workers : pc'[v] # "wallets"
    BY <1>11, <2>1, <2>2
  <2>4. DOMAIN Settled(tx[cur[w]], seen[w]) = touched
    <3>1. tx[cur[w]] \in Transaction /\ seen[w] \in [touched -> Int]
      BY <1>2, <2>1 DEF TypeInv, TypeOK, Sessions
    <3> QED
      BY <3>1, SettledType
  <2>5. \A x \in Wallet \ touched : wallet'[x] = wallet[x]
    BY <1>13, <2>4 DEF Process
  <2>6. ASSUME NEW b \in Billers, bill'[b] # None
        PROVE  /\ bill'[b] = bill[b] /\ bseen'[b] = bseen[b]
               /\ \A x \in MeterWallets(bill[b]) : wallet'[x] = wallet[x]
    <3>1. bill'[b] = bill[b] /\ bseen'[b] = bseen[b] /\ bill[b] # None
      BY <2>1, <2>6
    <3>2. touched \cap MeterWallets(bill[b]) = {}
      BY <2>1, <3>1, NoSharedWallet
    <3> QED
      BY <1>4, <2>5, <3>1, <3>2
  <2> QED
    BY <1>5, <2>3, <2>6
<1>14. ASSUME NEW w \in Workers, Crash(w) PROVE FreshView'
  BY <1>6, <1>14 DEF Crash, Abandon, TypeInv, TypeOK
<1>15. ASSUME NEW b \in Billers, NEW m \in Meters, LockForBilling(b, m) PROVE FreshView'
  <2>1. /\ UNCHANGED <<wallet, tx, pc, cur, seen>>
        /\ bill'[b] = m /\ bseen'[b] = Balances(wallet, m)
        /\ \A c \in Billers \ {b} : bill'[c] = bill[c] /\ bseen'[c] = bseen[c]
    BY <1>15 DEF LockForBilling, TypeInv, TypeOK, Sessions
  <2>2. ASSUME NEW c \in Billers, bill'[c] # None
        PROVE  bseen'[c] = Balances(wallet', bill'[c])
    BY <2>1, <2>2 DEF FreshView
  <2>3. ASSUME NEW w \in Workers, pc'[w] = "wallets"
        PROVE  \A x \in Touched(tx'[cur'[w]]) : seen'[w][x] = wallet'[x]
    BY <2>1, <2>3 DEF FreshView
  <2> QED
    BY <2>2, <2>3 DEF FreshView
<1>16. ASSUME NEW b \in Billers, CrashBilling(b) \/ \E cost \in Costs : CommitBilling(b, cost)
       PROVE  FreshView'
  <2>1. /\ bill[b] # None /\ UNCHANGED <<tx, pc, cur, seen>>
        /\ bill'[b] = None
        /\ \A c \in Billers \ {b} : bill'[c] = bill[c] /\ bseen'[c] = bseen[c]
    BY <1>16 DEF CrashBilling, CommitBilling, TypeInv, TypeOK, Sessions
  <2>2. \A x \in Wallet \ MeterWallets(bill[b]) : wallet'[x] = wallet[x]
    BY <1>16 DEF CrashBilling, CommitBilling, WithBalances, TypeInv, TypeOK
  <2>3. ASSUME NEW w \in Workers, pc'[w] = "wallets"
        PROVE  \A x \in Touched(tx[cur[w]]) : wallet'[x] = wallet[x]
    <3>1. Touched(tx[cur[w]]) \cap MeterWallets(bill[b]) = {}
      BY <2>1, <2>3, NoSharedWallet
    <3> QED
      BY <1>3, <2>1, <2>2, <2>3, <3>1
  <2>4. ASSUME NEW c \in Billers, bill'[c] # None
        PROVE  c # b /\ \A x \in MeterWallets(bill[c]) : wallet'[x] = wallet[x]
    <3>1. c # b /\ bill[c] # None /\ bill[c] # bill[b]
      BY <2>1, <2>4, NoSharedMeter
    <3>2. MeterWallets(bill[c]) \cap MeterWallets(bill[b]) = {}
      BY <1>4, <2>1, <3>1, WalletsOfMeter
    <3> QED
      BY <1>4, <2>2, <3>1, <3>2
  <2> QED
    BY <1>5, <2>1, <2>3, <2>4
<1>17. CASE UNCHANGED vars
  BY <1>6, <1>17 DEF vars
<1> QED
  BY <1>7, <1>8, <1>9, <1>10, <1>12, <1>13, <1>14, <1>15, <1>16, <1>17 DEF Next, Run, Billing

(* Where wallets are locked, what a worker or a billing thread read is     *)
(* still true when it writes: none of them overwrites a balance another    *)
(* has changed in the meantime, however many run.                          *)
THEOREM ViewsStayFresh ==
  ASSUME LockWalletsOnProcess
  PROVE  Spec => []FreshView
<1>1. Init => Locking /\ FreshView
  BY DEF Init, Locking, FreshView
<1>2. TypeInv /\ TypeInv' /\ Locking /\ FreshView /\ [Next]_vars => Locking' /\ FreshView'
  BY LockingStep, FreshViewStep
<1> QED
  BY <1>1, <1>2, TypeInvariance, PTL DEF Spec

-----------------------------------------------------------------------------
(* Reversals.                                                              *)

(* Nobody asks for the reversal of a reversal.                             *)
NoNestedRequests == "reversal" \notin ReversalRequests

(* Debt is only paid to, or zeroed from, a debt wallet.                    *)
SameSide(r) == r.from[2] = "debt" <=> r.to[2] = "debt"

(* A reversal moves what the row it refers to has moved, back.             *)
WellMade(r) ==
  /\ SameSide(r)
  /\ r.origin = "reversal" =>
       /\ r.ref \in DOMAIN tx /\ Applied(tx[r.ref])
       /\ r.amount = -tx[r.ref].amount
       /\ r.from = tx[r.ref].from /\ r.to = tx[r.ref].to
       /\ NoNestedRequests => tx[r.ref].origin # "reversal"

(* So are the rows of the table, and those that are about to be inserted.  *)
TableRows == \A t \in DOMAIN tx : WellMade(tx[t])

ClientRows ==
  \A c \in Clients :
    /\ \A i \in DOMAIN client[c] : client[c][i].state = "pending" /\ WellMade(client[c][i])
    /\ Len(client[c]) = 2 => client[c][2].origin # "reversal"

Reversals == TableRows /\ ClientRows

(* What a step never does to the rows that are there.                      *)
RowsLast ==
  \A t \in DOMAIN tx :
    /\ t \in DOMAIN tx'
    /\ <<tx'[t].origin, tx'[t].amount, tx'[t].ref>> = <<tx[t].origin, tx[t].amount, tx[t].ref>>
    /\ <<tx'[t].from, tx'[t].to>> = <<tx[t].from, tx[t].to>>
    /\ Applied(tx[t]) => Applied(tx'[t])

-----------------------------------------------------------------------------
(* The rows of the table.                                                  *)

(* Marking a pending row changes states only: its own, and that of the row *)
(* it undoes, which stays applied.                                         *)
LEMMA OutcomeStates ==
  ASSUME TypeInv, Reversals, NEW t \in DOMAIN tx, tx[t].state = "pending", NEW state \in State
  PROVE  /\ DOMAIN Outcome(t, state) = DOMAIN tx
         /\ Outcome(t, state)[t] = [tx[t] EXCEPT !.state = state]
         /\ \A i \in DOMAIN tx \ {t} :
              \/ Outcome(t, state)[i] = tx[i]
              \/ /\ IsReversal(tx[t]) /\ i = tx[t].ref
                 /\ Outcome(t, state)[i] = [tx[i] EXCEPT !.state = "reversed"]
                 /\ Applied(tx[i])
<1>1. IsReversal(tx[t]) => Applied(tx[tx[t].ref])
  BY DEF Reversals, TableRows, WellMade, IsReversal
<1> QED
  BY <1>1 DEF Outcome

LEMMA StateOnly ==
  ASSUME NEW r \in Transaction, NEW st \in State
  PROVE  LET s == [r EXCEPT !.state = st]
         IN  /\ s.state = st
             /\ s.origin = r.origin /\ s.amount = r.amount /\ s.ref = r.ref
             /\ s.from = r.from /\ s.to = r.to
BY DEF Transaction

(* The rows a step adds are pending, and are reversals only of applied     *)
(* ones.                                                                   *)
LEMMA InsertedRows ==
  ASSUME TypeInv, Reversals, NEW c \in Clients, Insert(c)
  PROVE  /\ \A t \in DOMAIN tx : t \in DOMAIN tx' /\ tx'[t] = tx[t]
         /\ \A t \in DOMAIN tx' \ DOMAIN tx : tx'[t].state = "pending" /\ WellMade(tx'[t])
<1>1. client[c] \in Seq(Transaction)
  BY DEF TypeInv, TypeOK
<1>2. PICK id \in FreeIds :
        \/ /\ Len(client[c]) = 1
           /\ tx' = WithRow(tx, id, client[c][1])
        \/ /\ Len(client[c]) = 2
           /\ \E bonus \in FreeIds \ {id} :
                tx' = WithRow(WithRow(tx, id, client[c][1]),
                              bonus, [client[c][2] EXCEPT !.ref = id])
  BY DEF Insert
<1>3. CASE Len(client[c]) = 1 /\ tx' = WithRow(tx, id, client[c][1])
  <2>1. client[c][1].state = "pending" /\ WellMade(client[c][1])
    BY <1>1, <1>3 DEF Reversals, ClientRows
  <2> QED
    BY <1>3, <2>1 DEF WithRow, FreeIds
<1>4. ASSUME Len(client[c]) = 2, NEW bonus \in FreeIds \ {id},
             tx' = WithRow(WithRow(tx, id, client[c][1]),
                           bonus, [client[c][2] EXCEPT !.ref = id])
      PROVE  /\ \A t \in DOMAIN tx : t \in DOMAIN tx' /\ tx'[t] = tx[t]
             /\ \A t \in DOMAIN tx' \ DOMAIN tx : tx'[t].state = "pending" /\ WellMade(tx'[t])
  <2> DEFINE extra == [client[c][2] EXCEPT !.ref = id]
  <2>1. client[c][1].state = "pending" /\ WellMade(client[c][1])
    BY <1>1, <1>4 DEF Reversals, ClientRows
  <2>2. client[c][2] \in Transaction /\ client[c][2].state = "pending"
        /\ client[c][2].origin # "reversal" /\ SameSide(client[c][2])
    BY <1>1, <1>4 DEF Reversals, ClientRows, WellMade
  <2>3. extra.state = "pending" /\ WellMade(extra)
    BY <2>2 DEF WellMade, SameSide, Transaction
  <2> HIDE DEF extra
  <2> QED
    BY <1>4, <2>1, <2>3 DEF WithRow, FreeIds, extra
<1> QED
  BY <1>2, <1>3, <1>4

LEMMA ZeroingRow ==
  ASSUME TypeInv, NEW w \in Workers, StartZeroing(w)
  PROVE  /\ \A t \in DOMAIN tx : t \in DOMAIN tx' /\ tx'[t] = tx[t]
         /\ \A t \in DOMAIN tx' \ DOMAIN tx : tx'[t].state = "pending" /\ WellMade(tx'[t])
<1>1. PICK x \in zeroEvents, id \in FreeIds :
        tx' = WithRow(tx, id, NewTransaction("zeroing", -wallet[x],
                                             SystemWallet(x[2]), x, None, None))
  BY DEF StartZeroing
<1>2. SameSide(NewTransaction("zeroing", -wallet[x], SystemWallet(x[2]), x, None, None))
  BY DEF NewTransaction, SameSide, SystemWallet
<1> QED
  BY <1>1, <1>2 DEF WithRow, FreeIds, NewTransaction, WellMade

(* What a worker makes of the row it processes.                            *)
LEMMA ProcessedRows ==
  ASSUME TypeInv, Reversals, NEW w \in Workers,
         ProcessAlreadyReversed(w) \/ ProcessNotEnoughFunds(w) \/ Process(w)
  PROVE  /\ cur[w] \in DOMAIN tx /\ tx[cur[w]].state = "pending"
         /\ DOMAIN tx' = DOMAIN tx
         /\ IF Process(w) THEN tx'[cur[w]] = [tx[cur[w]] EXCEPT !.state = "processed"]
                           ELSE tx'[cur[w]] = [tx[cur[w]] EXCEPT !.state = "error"]
         /\ \A i \in DOMAIN tx \ {cur[w]} :
              \/ tx'[i] = tx[i]
              \/ /\ IsReversal(tx[cur[w]]) /\ i = tx[cur[w]].ref
                 /\ tx'[i] = [tx[i] EXCEPT !.state = "reversed"]
                 /\ Applied(tx[i])
<1>1. cur[w] \in DOMAIN tx /\ tx[cur[w]].state = "pending"
  BY DEF ProcessAlreadyReversed, ProcessNotEnoughFunds, Process, TypeInv, Sessions
<1>2. CASE ProcessAlreadyReversed(w)
  <2>1. ~Process(w)
    BY <1>2 DEF ProcessAlreadyReversed, Process
  <2> QED
    BY <1>1, <1>2, <2>1 DEF ProcessAlreadyReversed
<1>3. CASE ProcessNotEnoughFunds(w)
  <2>1. ~Process(w) /\ tx' = Outcome(cur[w], "error") /\ "error" \in State
    BY <1>3 DEF ProcessNotEnoughFunds, Process, State
  <2> QED
    BY <1>1, <2>1, OutcomeStates
<1>4. CASE Process(w)
  <2>1. tx' = Outcome(cur[w], "processed") /\ "processed" \in State
    BY <1>4 DEF Process, State
  <2> QED
    BY <1>1, <1>4, <2>1, OutcomeStates
<1> QED
  BY <1>2, <1>3, <1>4

(* The steps that do not touch the table of transactions.                  *)
OtherStep ==
  \/ \E c \in Clients, f \in Flows, amount \in Amounts, markup \in Markups,
        ext \in ExtIds \cup {None} : CheckCreate(c, f, amount, markup, ext)
  \/ \E c \in Clients, p \in DOMAIN tx : CheckReverse(c, p)
  \/ \E m \in Meters : \E x \in MeterWallets(m) : RequestZero(x)
  \/ \E w \in Workers :
       \/ StartPass(w) \/ EndPass(w) \/ LockTable(w) \/ LockWallets(w) \/ LockTimeout(w)
       \/ ProcessAlreadyProcessed(w) \/ CommitEvent(w) \/ Crash(w)
  \/ \E b \in Billers, m \in Meters : LockForBilling(b, m)
  \/ \E b \in Billers : CrashBilling(b)
  \/ UNCHANGED vars

LEMMA OtherStepKeeps == OtherStep => UNCHANGED <<tx, wallet, billed>>
<1> SUFFICES ASSUME OtherStep PROVE UNCHANGED <<tx, wallet, billed>>
  OBVIOUS
<1> USE DEF tables
<1>1. ASSUME NEW c \in Clients, NEW f \in Flows, NEW amount \in Amounts,
             NEW markup \in Markups, NEW ext \in ExtIds \cup {None},
             CheckCreate(c, f, amount, markup, ext)
      PROVE  UNCHANGED <<tx, wallet, billed>>
  BY <1>1 DEF CheckCreate
<1>2. ASSUME NEW c \in Clients, NEW p \in DOMAIN tx, CheckReverse(c, p)
      PROVE  UNCHANGED <<tx, wallet, billed>>
  BY <1>2 DEF CheckReverse
<1>3. ASSUME NEW m \in Meters, NEW x \in MeterWallets(m), RequestZero(x)
      PROVE  UNCHANGED <<tx, wallet, billed>>
  BY <1>3 DEF RequestZero
<1>4. ASSUME NEW w \in Workers, StartPass(w) \/ EndPass(w) \/ LockTable(w) \/ LockWallets(w)
      PROVE  UNCHANGED <<tx, wallet, billed>>
  BY <1>4 DEF StartPass, EndPass, LockTable, LockWallets
<1>5. ASSUME NEW w \in Workers,
             LockTimeout(w) \/ ProcessAlreadyProcessed(w) \/ CommitEvent(w) \/ Crash(w)
      PROVE  UNCHANGED <<tx, wallet, billed>>
  BY <1>5 DEF LockTimeout, ProcessAlreadyProcessed, CommitEvent, Crash
<1>6. ASSUME NEW b \in Billers, CrashBilling(b) \/ \E m \in Meters : LockForBilling(b, m)
      PROVE  UNCHANGED <<tx, wallet, billed>>
  BY <1>6 DEF LockForBilling, CrashBilling
<1>7. CASE UNCHANGED vars
  BY <1>7 DEF vars
<1> QED
  BY <1>1, <1>2, <1>3, <1>4, <1>5, <1>6, <1>7 DEF OtherStep

(* The steps that count, and the others.                                   *)
LEMMA Steps ==
  ASSUME [Next]_vars
  PROVE  \/ \E c \in Clients : Insert(c)
         \/ \E w \in Workers : StartZeroing(w)
         \/ \E w \in Workers :
              ProcessAlreadyReversed(w) \/ ProcessNotEnoughFunds(w) \/ Process(w)
         \/ \E b \in Billers, cost \in Costs : CommitBilling(b, cost)
         \/ OtherStep
<1>1. CASE Request
  BY <1>1 DEF Request, OtherStep
<1>2. ASSUME NEW w \in Workers, StartPass(w) \/ StartZeroing(w) \/ Run(w) \/ Crash(w)
      PROVE  \/ StartZeroing(w)
             \/ ProcessAlreadyReversed(w) \/ ProcessNotEnoughFunds(w) \/ Process(w)
             \/ OtherStep
  BY <1>2 DEF Run, OtherStep
<1>3. CASE Billing
  BY <1>3 DEF Billing, OtherStep
<1>4. CASE (\E b \in Billers : CrashBilling(b)) \/ UNCHANGED vars
  BY <1>4 DEF OtherStep
<1> QED
  BY <1>1, <1>2, <1>3, <1>4 DEF Next

(* Rows are there for good: no step removes one, changes what it says, or  *)
(* takes back that it was applied.                                         *)
LEMMA RowsDoLast == TypeInv /\ Reversals /\ [Next]_vars => RowsLast
<1> SUFFICES ASSUME TypeInv, Reversals, [Next]_vars PROVE RowsLast
  OBVIOUS
<1>1. CASE tx' = tx
  BY <1>1 DEF RowsLast
<1>2. ASSUME \A t \in DOMAIN tx : t \in DOMAIN tx' /\ tx'[t] = tx[t] PROVE RowsLast
  BY <1>2 DEF RowsLast
<1>3. ASSUME NEW w \in Workers,
             ProcessAlreadyReversed(w) \/ ProcessNotEnoughFunds(w) \/ Process(w)
      PROVE  RowsLast
  <2> SUFFICES ASSUME NEW t \in DOMAIN tx
               PROVE  /\ t \in DOMAIN tx'
                      /\ <<tx'[t].origin, tx'[t].amount, tx'[t].ref>>
                           = <<tx[t].origin, tx[t].amount, tx[t].ref>>
                      /\ <<tx'[t].from, tx'[t].to>> = <<tx[t].from, tx[t].to>>
                      /\ Applied(tx[t]) => Applied(tx'[t])
    BY DEF RowsLast
  <2>1. t \in DOMAIN tx' /\ tx[t] \in Transaction
    BY <1>3, ProcessedRows DEF TypeInv, TypeOK
  <2>2. {"processed", "error", "reversed"} \subseteq State
    BY DEF State
  <2>3. CASE t = cur[w]
    <3>1. ~Applied(tx[t])
      BY <1>3, <2>3, ProcessedRows DEF Applied
    <3>2. PICK st \in State : tx'[t] = [tx[t] EXCEPT !.state = st]
      BY <1>3, <2>2, <2>3, ProcessedRows
    <3> QED
      BY <2>1, <3>1, <3>2, StateOnly
  <2>4. CASE t # cur[w]
    <3>1. CASE tx'[t] = tx[t]
      BY <2>1, <3>1
    <3>2. CASE tx'[t] = [tx[t] EXCEPT !.state = "reversed"]
      BY <2>1, <2>2, <3>2, StateOnly DEF Applied
    <3> QED
      BY <1>3, <2>4, <3>1, <3>2, ProcessedRows
  <2> QED
    BY <2>3, <2>4
<1>4. CASE OtherStep
  BY <1>1, <1>4, OtherStepKeeps
<1>5. ASSUME NEW b \in Billers, NEW cost \in Costs, CommitBilling(b, cost) PROVE RowsLast
  BY <1>1, <1>5 DEF CommitBilling
<1> QED
  BY <1>2, <1>3, <1>4, <1>5, Steps, InsertedRows, ZeroingRow

(* Reversals go on to undo applied rows.                                   *)
LEMMA ReversalsStep == TypeInv /\ Reversals /\ [Next]_vars => Reversals'
<1> SUFFICES ASSUME TypeInv, Reversals, [Next]_vars PROVE Reversals'
  OBVIOUS
<1>1. RowsLast
  BY RowsDoLast
<1>2. \A r : WellMade(r) => WellMade(r)'
  BY <1>1 DEF WellMade, RowsLast
(* The rows of the table. *)
<1>3. TableRows'
  <2>1. ASSUME NEW t \in DOMAIN tx PROVE WellMade(tx[t])'
    <3>1. WellMade(tx[t])
      BY DEF Reversals, TableRows
    <3> QED
      BY <1>1, <3>1 DEF WellMade, SameSide, RowsLast
  <2>2. ASSUME NEW t \in DOMAIN tx' \ DOMAIN tx PROVE WellMade(tx'[t])
    <3>1. CASE \E c \in Clients : Insert(c)
      BY <3>1, InsertedRows
    <3>2. CASE \E w \in Workers : StartZeroing(w)
      BY <3>2, ZeroingRow
    <3>3. CASE \E w \in Workers :
                 ProcessAlreadyReversed(w) \/ ProcessNotEnoughFunds(w) \/ Process(w)
      BY <3>3, ProcessedRows
    <3>4. CASE \E b \in Billers, cost \in Costs : CommitBilling(b, cost)
      BY <3>4 DEF CommitBilling
    <3>5. CASE OtherStep
      BY <3>5, OtherStepKeeps
    <3> QED
      BY <3>1, <3>2, <3>3, <3>4, <3>5, Steps
  <2>3. ASSUME NEW t \in DOMAIN tx' \ DOMAIN tx PROVE WellMade(tx[t])'
    BY <1>1, <2>2, <2>3 DEF WellMade, RowsLast
  <2> QED
    BY <2>1, <2>3 DEF TableRows
(* The rows of the clients. *)
<1>4. ASSUME client' = client PROVE ClientRows'
  BY <1>2, <1>4 DEF Reversals, ClientRows
<1>5. ASSUME NEW c \in Clients, \A d \in Clients \ {c} : client'[d] = client[d],
             \A i \in DOMAIN client'[c] :
               client'[c][i].state = "pending" /\ WellMade(client'[c][i]),
             Len(client'[c]) = 2 => client'[c][2].origin # "reversal"
      PROVE  ClientRows'
  BY <1>2, <1>5 DEF Reversals, ClientRows
<1>6. ClientRows'
  <2>1. ASSUME NEW c \in Clients, NEW f \in Flows, NEW amount \in Amounts,
               NEW markup \in Markups, NEW ext \in ExtIds \cup {None},
               CheckCreate(c, f, amount, markup, ext)
        PROVE  ClientRows'
    <3> DEFINE main  == NewTransaction("user", amount, <<f.from, f.kind>>, <<f.to, f.kind>>, None, ext)
               bonus == NewTransaction("system", amount * markup, <<f.from, f.kind>>,
                                       <<f.to, f.kind>>, None, None)
               rows  == IF markup = 0 THEN <<main>> ELSE <<main, bonus>>
    <3>1. client' = [client EXCEPT ![c] = rows]
      BY <2>1 DEF CheckCreate
    <3>2. /\ main.state = "pending" /\ main.origin = "user"
          /\ bonus.state = "pending" /\ bonus.origin = "system"
          /\ SameSide(main) /\ SameSide(bonus)
      BY DEF NewTransaction, SameSide
    <3> HIDE DEF main, bonus
    <3>3. WellMade(main) /\ WellMade(bonus)
      BY <3>2 DEF WellMade
    <3>4. \A i \in DOMAIN rows : rows[i].state = "pending" /\ WellMade(rows[i])
      BY <3>2, <3>3
    <3>5. Len(rows) = 2 => rows[2].origin # "reversal"
      BY <3>2
    <3>6. client'[c] = rows /\ \A d \in Clients \ {c} : client'[d] = client[d]
      BY <3>1 DEF TypeInv, TypeOK
    <3> HIDE DEF rows
    <3> QED
      BY <1>5, <3>4, <3>5, <3>6
  <2>2. ASSUME NEW c \in Clients, NEW p \in DOMAIN tx, CheckReverse(c, p)
        PROVE  ClientRows'
    <3> DEFINE row  == ReversalOf(tx, p)
               rows == <<row>>
    <3>1. /\ client' = [client EXCEPT ![c] = rows] /\ tx[p].state = "processed"
          /\ NoNestedRequests => tx[p].origin # "reversal"
          /\ SameSide(tx[p])
      BY <2>2 DEF CheckReverse, NoNestedRequests, Reversals, TableRows, WellMade
    <3>2. row.state = "pending" /\ WellMade(row)
      BY <3>1 DEF ReversalOf, NewTransaction, WellMade, SameSide, Applied
    <3> HIDE DEF row
    <3>3. /\ \A i \in DOMAIN rows : rows[i].state = "pending" /\ WellMade(rows[i])
          /\ Len(rows) = 1
      BY <3>2
    <3>4. client'[c] = rows /\ \A d \in Clients \ {c} : client'[d] = client[d]
      BY <3>1 DEF TypeInv, TypeOK
    <3> HIDE DEF rows
    <3> QED
      BY <1>5, <3>3, <3>4
  <2>3. ASSUME NEW c \in Clients, Insert(c) PROVE ClientRows'
    <3>1. client'[c] = <<>> /\ \A d \in Clients \ {c} : client'[d] = client[d]
      BY <2>3 DEF Insert, TypeInv, TypeOK
    <3> QED
      BY <1>5, <3>1
  <2>4. CASE client' = client
    BY <1>4, <2>4
  <2>5. ASSUME NEW m \in Meters, NEW x \in MeterWallets(m), RequestZero(x) PROVE client' = client
    BY <2>5 DEF RequestZero
  <2>6. ASSUME NEW w \in Workers, StartPass(w) \/ StartZeroing(w) \/ Run(w) \/ Crash(w)
        PROVE  client' = client
    BY <2>6 DEF Run, StartPass, StartZeroing, EndPass, LockTable, LockWallets, LockTimeout,
                ProcessAlreadyProcessed, ProcessAlreadyReversed, ProcessNotEnoughFunds,
                Process, CommitEvent, Crash
  <2>7. CASE Billing \/ (\E b \in Billers : CrashBilling(b)) \/ UNCHANGED vars
    BY <2>4, <2>7 DEF Billing, LockForBilling, CommitBilling, CrashBilling, vars
  <2> QED
    BY <2>1, <2>2, <2>3, <2>4, <2>5, <2>6, <2>7 DEF Next, Request
<1> QED
  BY <1>3, <1>6 DEF Reversals

-----------------------------------------------------------------------------
(* Reversals.                                                              *)

(* A row is undone by one reversal, and that for good.                     *)
UndoneOnce ==
  /\ \A t \in DOMAIN tx : tx[t].origin = "reversal" => tx[t].state # "reversed"
  /\ \A r, s \in DOMAIN tx :
       /\ tx[r].origin = "reversal" /\ tx[r].state = "processed"
       /\ tx[s].origin = "reversal" /\ tx[s].state = "processed"
       /\ tx[r].ref = tx[s].ref
       => r = s

LEMMA UndoneOnceStep ==
  ASSUME NoNestedRequests, TypeInv, Reversals, UndoneOnce, [Next]_vars
  PROVE  UndoneOnce'
<1>1. RowsLast
  BY RowsDoLast
<1>2. CASE tx' = tx
  BY <1>2 DEF UndoneOnce
<1>3. ASSUME \A t \in DOMAIN tx : t \in DOMAIN tx' /\ tx'[t] = tx[t],
             \A t \in DOMAIN tx' \ DOMAIN tx : tx'[t].state = "pending" /\ WellMade(tx'[t])
      PROVE  UndoneOnce'
  BY <1>3 DEF UndoneOnce
<1>4. ASSUME NEW w \in Workers,
             ProcessAlreadyReversed(w) \/ ProcessNotEnoughFunds(w) \/ Process(w)
      PROVE  UndoneOnce'
  <2> DEFINE t == cur[w]
  <2>1. /\ t \in DOMAIN tx /\ DOMAIN tx' = DOMAIN tx
        /\ \A i \in DOMAIN tx : tx[i] \in Transaction /\ i \in TxId
    BY <1>4, ProcessedRows DEF TypeInv, TypeOK
  <2>2. /\ tx'[t].state \in {"processed", "error"}
        /\ tx'[t].state = "processed" => Process(w)
    <3>1. "processed" \in State /\ "error" \in State
      BY DEF State
    <3>2. CASE Process(w)
      <4>1. tx'[t] = [tx[t] EXCEPT !.state = "processed"]
        BY <1>4, <3>2, ProcessedRows
      <4> QED
        BY <2>1, <3>1, <3>2, <4>1, StateOnly
    <3>3. CASE ~Process(w)
      <4>1. tx'[t] = [tx[t] EXCEPT !.state = "error"]
        BY <1>4, <3>3, ProcessedRows
      <4>2. tx'[t].state = "error"
        BY <2>1, <3>1, <4>1, StateOnly
      <4> QED
        BY <4>2
    <3> QED
      BY <3>2, <3>3
  <2>3. \A i \in DOMAIN tx \ {t} :
          \/ tx'[i].state = tx[i].state
          \/ tx'[i].state = "reversed" /\ tx[i].origin # "reversal"
    <3>1. SUFFICES ASSUME NEW i \in DOMAIN tx \ {t}, tx'[i] # tx[i]
                   PROVE  tx'[i].state = "reversed" /\ tx[i].origin # "reversal"
      OBVIOUS
    <3>2. /\ IsReversal(tx[t]) /\ i = tx[t].ref
          /\ tx'[i] = [tx[i] EXCEPT !.state = "reversed"]
      BY <1>4, <3>1, ProcessedRows
    <3>3. tx[i].origin # "reversal"
      BY <2>1, <3>2 DEF Reversals, TableRows, WellMade, IsReversal
    <3>4. tx'[i].state = "reversed"
      BY <2>1, <3>2, StateOnly DEF State
    <3> QED
      BY <3>3, <3>4
  <2>4. Process(w) /\ tx[t].origin = "reversal" =>
          \A r \in DOMAIN tx :
            ~(tx[r].ref = tx[t].ref /\ tx[r].origin = "reversal" /\ tx[r].state = "processed")
    <3>1. SUFFICES ASSUME Process(w), tx[t].origin = "reversal"
                   PROVE  ~HasBeenReversed(tx, tx[t].ref)
      BY DEF HasBeenReversed
    <3>2. tx[t].ref \in TxId
      BY <2>1, <3>1 DEF Reversals, TableRows, WellMade
    <3>3. tx[t].ref # None
      BY <3>2, WalletsAssumption
    <3> QED
      BY <3>1, <3>3 DEF Process, ParentReversed, IsReversal
  <2>5. \A i \in DOMAIN tx : tx'[i].origin = tx[i].origin /\ tx'[i].ref = tx[i].ref
    BY <1>1 DEF RowsLast
  <2> HIDE DEF t
  <2>6. \A i \in DOMAIN tx' : tx'[i].origin = "reversal" => tx'[i].state # "reversed"
    BY <2>1, <2>2, <2>3, <2>5 DEF UndoneOnce
  <2>7. ASSUME NEW r \in DOMAIN tx', NEW s \in DOMAIN tx',
               tx'[r].origin = "reversal", tx'[r].state = "processed",
               tx'[s].origin = "reversal", tx'[s].state = "processed",
               tx'[r].ref = tx'[s].ref
        PROVE  r = s
    <3>1. CASE r # t /\ s # t
      BY <2>1, <2>3, <2>5, <2>7, <3>1 DEF UndoneOnce
    <3>2. CASE r = t /\ s # t
      BY <2>1, <2>2, <2>3, <2>4, <2>5, <2>7, <3>2
    <3>3. CASE r # t /\ s = t
      BY <2>1, <2>2, <2>3, <2>4, <2>5, <2>7, <3>3
    <3> QED
      BY <3>1, <3>2, <3>3
  <2> QED
    BY <2>6, <2>7 DEF UndoneOnce
<1>5. ASSUME NEW b \in Billers, NEW cost \in Costs, CommitBilling(b, cost) PROVE tx' = tx
  BY <1>5 DEF CommitBilling
<1> QED
  BY <1>2, <1>3, <1>4, <1>5, Steps, InsertedRows, ZeroingRow, OtherStepKeeps

(* The facts about reversals hold in every state.                          *)
LEMMA ReversalsInvariance == Spec => []Reversals
<1>1. Init => Reversals
  BY DEF Init, Reversals, TableRows, ClientRows
<1> QED
  BY <1>1, ReversalsStep, TypeInvariance, PTL DEF Spec

LEMMA UndoneOnceInvariance ==
  ASSUME NoNestedRequests
  PROVE  Spec => []UndoneOnce
<1>1. Init => UndoneOnce
  BY DEF Init, UndoneOnce
<1>2. TypeInv /\ Reversals /\ UndoneOnce /\ [Next]_vars => UndoneOnce'
  BY UndoneOnceStep
<1> QED
  BY <1>1, <1>2, ReversalsInvariance, TypeInvariance, PTL DEF Spec

(* A transaction is undone at most once, whatever reversals of it were     *)
(* requested while it was still processed, and whichever workers take them *)
(* (Transaction.process), as long as nobody reverses a reversal.           *)
THEOREM ReversedOnce ==
  ASSUME NoNestedRequests
  PROVE  Spec => []OneReversal
<1>1. UndoneOnce => OneReversal
  BY DEF UndoneOnce, OneReversal, ReversalsOf, IsReversal, Applied
<1> QED
  BY <1>1, UndoneOnceInvariance, PTL

-----------------------------------------------------------------------------
(* The steps of Ledger as steps of LedgerSpec.                             *)

(* The order that a row is.                                                *)
OrderOf(r) ==
  [status |-> StatusOf(r), origin |-> r.origin, amount |-> r.amount,
   from |-> r.from, to |-> r.to, ref |-> r.ref]

Orders == [t \in DOMAIN tx |-> OrderOf(tx[t])]

LEMMA InitRefines == Init => Abstract!Init
<1> SUFFICES ASSUME Init PROVE Abstract!Init
  OBVIOUS
<1>1. Orders = <<>>
  BY DEF Init, Orders
<1> QED
  BY <1>1 DEF Init, Abstract!Init, Orders, OrderOf

(* New pending rows are orders placed.                                     *)
LEMMA PlaceRefines ==
  ASSUME TypeInv, Reversals, UNCHANGED <<wallet, billed>>,
         \A t \in DOMAIN tx : t \in DOMAIN tx' /\ tx'[t] = tx[t],
         \A t \in DOMAIN tx' \ DOMAIN tx : tx'[t].state = "pending" /\ WellMade(tx'[t])
  PROVE  Abstract!Place
<1>1. \A t \in DOMAIN tx' : Orders'[t] = OrderOf(tx'[t])
  BY DEF Orders
<1>2. DOMAIN Orders' = DOMAIN tx' /\ DOMAIN Orders = DOMAIN tx
  BY DEF Orders
<1>3. \A t \in DOMAIN tx : Orders[t] = OrderOf(tx[t])
  BY DEF Orders
<1>4. \A t \in DOMAIN Orders : Orders'[t] = Orders[t]
  BY <1>1, <1>2, <1>3
<1>5. ASSUME NEW t \in DOMAIN Orders' \ DOMAIN Orders
      PROVE  Abstract!WellFormed(Orders'[t], Orders)
  <2>1. tx'[t].state = "pending" /\ WellMade(tx'[t]) /\ Orders'[t] = OrderOf(tx'[t])
    BY <1>1, <1>2
  <2>2. \A r : /\ OrderOf(r).status = StatusOf(r) /\ OrderOf(r).origin = r.origin
               /\ OrderOf(r).amount = r.amount /\ OrderOf(r).ref = r.ref
               /\ OrderOf(r).from = r.from /\ OrderOf(r).to = r.to
    BY DEF OrderOf
  <2>3. OrderOf(tx'[t]).status = "pending"
    BY <2>1, <2>2 DEF StatusOf, Applied
  <2>4. \A i \in DOMAIN tx : Applied(tx[i]) => Orders[i].status = "settled"
    BY <1>3, <2>2 DEF StatusOf
  <2> QED
    BY <1>2, <1>3, <2>1, <2>2, <2>3, <2>4 DEF Abstract!WellFormed, WellMade
<1> QED
  BY <1>2, <1>4, <1>5 DEF Abstract!Place, Orders, OrderOf

(* Settling a row only looks at, and only changes, the wallets it touches. *)
LEMMA SettledLocally ==
  ASSUME NEW t \in Transaction, NEW s \in [Wallet -> Int], NEW v \in [Touched(t) -> Int],
         \A x \in Touched(t) : v[x] = s[x]
  PROVE  /\ Settled(t, s) \in [Wallet -> Int]
         /\ \A x \in Wallet :
              Settled(t, s)[x] = IF x \in Touched(t) THEN Settled(t, v)[x] ELSE s[x]
         /\ EnoughFunds(t, v) <=> EnoughFunds(t, s)
<1>1. /\ t.from \in Touched(t) /\ t.to \in Touched(t) /\ t.amount \in Int
      /\ Touched(t) \subseteq Wallet
  BY TouchedType DEF Touched, Transaction
<1>2. EnoughFunds(t, v) <=> EnoughFunds(t, s)
  BY <1>1 DEF EnoughFunds
<1>3. /\ Transfer(t, s) \in [Wallet -> Int] /\ Transfer(t, v) \in [Touched(t) -> Int]
      /\ \A x \in Touched(t) : Transfer(t, v)[x] = Transfer(t, s)[x]
      /\ \A x \in Wallet \ Touched(t) : Transfer(t, s)[x] = s[x]
  BY <1>1 DEF Transfer
<1> DEFINE m == t.to[1]
<1>4. CASE m \in Meters
  <2>1. <<m, "credit">> \in Touched(t) /\ <<m, "debt">> \in Touched(t)
    BY <1>4 DEF Touched
  <2>2. <<m, "credit">> # <<m, "debt">>
    OBVIOUS
  <2> HIDE DEF m
  <2>3. ASSUME NEW S, NEW f \in [S -> Int], <<m, "credit">> \in S, <<m, "debt">> \in S
        PROVE  /\ ConvertNegative(m, f) \in [S -> Int]
               /\ \A x \in S : ConvertNegative(m, f)[x] =
                    IF ~Converts(m \in AutoMeters, f[<<m, "credit">>]) THEN f[x]
                    ELSE IF x = <<m, "credit">> THEN 0
                    ELSE IF x = <<m, "debt">> THEN f[x] - f[<<m, "credit">>]
                    ELSE f[x]
    BY <1>4, <2>2, <2>3 DEF ConvertNegative, m
  <2>4. /\ ConvertNegative(m, Transfer(t, s)) \in [Wallet -> Int]
        /\ \A x \in Wallet : ConvertNegative(m, Transfer(t, s))[x] =
             IF x \in Touched(t) THEN ConvertNegative(m, Transfer(t, v))[x] ELSE s[x]
    <3>1. PICK f \in [Wallet -> Int] : f = Transfer(t, s)
      BY <1>3
    <3>2. PICK g \in [Touched(t) -> Int] : g = Transfer(t, v)
      BY <1>3
    <3>4. <<m, "credit">> \in Wallet /\ <<m, "debt">> \in Wallet
      BY <1>1, <2>1
    <3>5. /\ ConvertNegative(m, f) \in [Wallet -> Int]
          /\ \A x \in Wallet : ConvertNegative(m, f)[x] =
               IF ~Converts(m \in AutoMeters, f[<<m, "credit">>]) THEN f[x]
               ELSE IF x = <<m, "credit">> THEN 0
               ELSE IF x = <<m, "debt">> THEN f[x] - f[<<m, "credit">>]
               ELSE f[x]
      BY <2>3, <3>4
    <3>6. \A x \in Touched(t) : ConvertNegative(m, g)[x] =
            IF ~Converts(m \in AutoMeters, g[<<m, "credit">>]) THEN g[x]
            ELSE IF x = <<m, "credit">> THEN 0
            ELSE IF x = <<m, "debt">> THEN g[x] - g[<<m, "credit">>]
            ELSE g[x]
      BY <2>1, <2>3
    <3>7. \A x \in Touched(t) : g[x] = f[x]
      BY <1>3, <3>1, <3>2
    <3>8. g[<<m, "credit">>] = f[<<m, "credit">>] /\ Touched(t) \subseteq Wallet
      BY <1>1, <2>1, <3>7
    <3>9. \A x \in Touched(t) : ConvertNegative(m, f)[x] = ConvertNegative(m, g)[x]
      <4> SUFFICES ASSUME NEW x \in Touched(t)
                   PROVE  ConvertNegative(m, f)[x] = ConvertNegative(m, g)[x]
        OBVIOUS
      <4>1. x \in Wallet /\ g[x] = f[x]
        BY <3>7, <3>8
      <4> QED BY <3>5, <3>6, <3>8, <4>1
    <3>10. \A x \in Wallet \ Touched(t) : ConvertNegative(m, f)[x] = s[x]
      <4> SUFFICES ASSUME NEW x \in Wallet \ Touched(t)
                   PROVE  ConvertNegative(m, f)[x] = s[x]
        OBVIOUS
      <4>1. f[x] = s[x] /\ x # <<m, "credit">> /\ x # <<m, "debt">>
        BY <1>3, <2>1, <3>1
      <4> QED BY <3>5, <4>1
    <3> QED BY <3>1, <3>2, <3>5, <3>9, <3>10
  <2> QED
    BY <1>2, <2>4 DEF Settled, m
<1>5. CASE m \notin Meters
  BY <1>2, <1>3, <1>5 DEF Settled, ConvertNegative
<1> QED
  BY <1>4, <1>5

(* LedgerSpec settles an order as Ledger does the row.                     *)
LEMMA SameArithmetic ==
  /\ \A r, s : Abstract!Settled(OrderOf(r), s) = Settled(r, s)
  /\ \A r, s : Abstract!EnoughFunds(OrderOf(r), s) <=> EnoughFunds(r, s)
  /\ \A auto, b, cost : Abstract!Billed(auto, b, cost) = Billed(auto, b, cost)
  /\ \A s, m : Abstract!Balances(s, m) = Balances(s, m)
  /\ \A s, m, b : Abstract!WithBalances(s, m, b) = WithBalances(s, m, b)
<1>1. ASSUME NEW r
      PROVE  /\ OrderOf(r).amount = r.amount
             /\ OrderOf(r).from = r.from /\ OrderOf(r).to = r.to
  BY DEF OrderOf
<1>2. \A r, s : Abstract!Transfer(OrderOf(r), s) = Transfer(r, s)
  BY <1>1 DEF Abstract!Transfer, Transfer
<1>3. \A m, s : Abstract!ConvertNegative(m, s) = ConvertNegative(m, s)
  BY DEF Abstract!ConvertNegative, ConvertNegative, Abstract!Converts, Converts
<1>4. \A r, s : Abstract!Settled(OrderOf(r), s) = Settled(r, s)
  BY <1>1, <1>2, <1>3 DEF Abstract!Settled, Settled
<1>5. \A r, s : Abstract!EnoughFunds(OrderOf(r), s) <=> EnoughFunds(r, s)
  BY <1>1 DEF Abstract!EnoughFunds, EnoughFunds, Abstract!NegativePermitted, NegativePermitted
<1>6. \A auto, b, cost : Abstract!PayReading(auto, b, cost) = PayReading(auto, b, cost)
  BY DEF Abstract!PayReading, PayReading, Abstract!Converts, Converts, Abstract!Least, Least
<1>7. \A b, cost : Abstract!PayOffDebt(b, cost) = PayOffDebt(b, cost)
  BY DEF Abstract!PayOffDebt, PayOffDebt, Abstract!Deduction, Deduction, Abstract!Least, Least,
         Abstract!Most, Most
<1>8. \A auto, b, cost : Abstract!Billed(auto, b, cost) = Billed(auto, b, cost)
  BY <1>6, <1>7 DEF Abstract!Billed, Billed
<1>9. \A s, m : Abstract!Balances(s, m) = Balances(s, m)
  BY DEF Abstract!Balances, Balances
<1>10. \A s, m, b : Abstract!WithBalances(s, m, b) = WithBalances(s, m, b)
  BY DEF Abstract!WithBalances, WithBalances, Abstract!MeterWallets, MeterWallets
<1> QED
  BY <1>4, <1>5, <1>8, <1>9, <1>10

(* Marking a row settles or rejects its order, and leaves the others: the  *)
(* row it undoes stays settled.                                            *)
LEMMA MarkedOrder ==
  ASSUME TypeInv, Reversals, NEW w \in Workers,
         ProcessAlreadyReversed(w) \/ ProcessNotEnoughFunds(w) \/ Process(w)
  PROVE  /\ cur[w] \in DOMAIN tx /\ tx[cur[w]].state = "pending"
         /\ Process(w) => Orders' = [Orders EXCEPT ![cur[w]].status = "settled"]
         /\ ~Process(w) => Orders' = [Orders EXCEPT ![cur[w]].status = "rejected"]
<1> DEFINE t == cur[w]
<1>1. /\ t \in DOMAIN tx /\ tx[t].state = "pending" /\ DOMAIN tx' = DOMAIN tx
      /\ \A i \in DOMAIN tx : tx[i] \in Transaction
      /\ {"processed", "error", "reversed"} \subseteq State
  BY ProcessedRows DEF TypeInv, TypeOK, State
<1>2. ASSUME NEW i \in DOMAIN tx \ {t} PROVE OrderOf(tx'[i]) = OrderOf(tx[i])
  <2>1. CASE tx'[i] = [tx[i] EXCEPT !.state = "reversed"] /\ Applied(tx[i])
    <3>1. /\ tx'[i].state = "reversed"
          /\ tx'[i].origin = tx[i].origin /\ tx'[i].amount = tx[i].amount
          /\ tx'[i].ref = tx[i].ref /\ tx'[i].from = tx[i].from /\ tx'[i].to = tx[i].to
      BY <1>1, <2>1, StateOnly
    <3> QED
      BY <2>1, <3>1 DEF OrderOf, StatusOf, Applied
  <2> QED
    BY <1>2, <2>1, ProcessedRows
<1>3. ASSUME NEW st \in {"processed", "error"}, tx'[t] = [tx[t] EXCEPT !.state = st]
      PROVE  OrderOf(tx'[t]) =
               [OrderOf(tx[t]) EXCEPT !.status = IF st = "processed" THEN "settled" ELSE "rejected"]
  <2>1. /\ tx'[t].state = st
        /\ tx'[t].origin = tx[t].origin /\ tx'[t].amount = tx[t].amount
        /\ tx'[t].ref = tx[t].ref /\ tx'[t].from = tx[t].from /\ tx'[t].to = tx[t].to
    BY <1>1, <1>3, StateOnly
  <2>2. StatusOf(tx'[t]) = IF st = "processed" THEN "settled" ELSE "rejected"
    BY <2>1 DEF StatusOf, Applied
  <2> QED
    BY <2>1, <2>2 DEF OrderOf
<1>4. /\ Process(w) => OrderOf(tx'[t]) = [OrderOf(tx[t]) EXCEPT !.status = "settled"]
      /\ ~Process(w) => OrderOf(tx'[t]) = [OrderOf(tx[t]) EXCEPT !.status = "rejected"]
  BY <1>3, ProcessedRows
<1>5. /\ Orders = [i \in DOMAIN tx |-> OrderOf(tx[i])]
      /\ Orders' = [i \in DOMAIN tx |-> OrderOf(tx'[i])]
  BY <1>1 DEF Orders
<1> HIDE DEF t
<1>6. /\ Process(w) => Orders' = [Orders EXCEPT ![t].status = "settled"]
      /\ ~Process(w) => Orders' = [Orders EXCEPT ![t].status = "rejected"]
  BY <1>1, <1>2, <1>4, <1>5
<1> QED
  BY <1>1, <1>6 DEF t

(* Both levels agree on whether somebody was faster to undo a row.         *)
LEMMA SameReversed ==
  ASSUME TypeInv, UndoneOnce, NEW t \in DOMAIN tx, tx[t].state = "pending"
  PROVE  Abstract!AlreadyReversed(t) <=> ParentReversed(t)
<1>1. ASSUME NEW i \in DOMAIN tx
      PROVE  /\ Orders[i].origin = tx[i].origin /\ Orders[i].ref = tx[i].ref
             /\ Orders[i].status = StatusOf(tx[i])
  BY DEF Orders, OrderOf
<1>2. ASSUME NEW i \in DOMAIN tx, tx[i].origin = "reversal"
      PROVE  StatusOf(tx[i]) = "settled" <=> tx[i].state = "processed"
  BY <1>2 DEF UndoneOnce, StatusOf, Applied
<1>3. DOMAIN Orders = DOMAIN tx
  BY DEF Orders
<1>4. Abstract!AlreadyReversed(t) <=>
        /\ IsReversal(Orders[t])
        /\ \E r \in DOMAIN Orders \ {t} :
             /\ Orders[r].ref = Orders[t].ref
             /\ Orders[r].origin = "reversal"
             /\ Orders[r].status = "settled"
  BY DEF Abstract!AlreadyReversed, Abstract!IsReversal, IsReversal, Orders, OrderOf
<1> QED
  BY <1>1, <1>2, <1>3, <1>4 DEF ParentReversed, HasBeenReversed, IsReversal

(* What a worker sees is what there is: it judges the funds, and moves the *)
(* amount, as LedgerSpec does on the balances of the moment.               *)
LEMMA JudgedFresh ==
  ASSUME TypeInv, FreshView, NEW w \in Workers, pc[w] = "wallets"
  PROVE  /\ EnoughFunds(tx[cur[w]], seen[w]) <=> EnoughFunds(tx[cur[w]], wallet)
         /\ Settled(tx[cur[w]], wallet) =
              LET after == Settled(tx[cur[w]], seen[w])
              IN  [x \in Wallet |-> IF x \in DOMAIN after THEN after[x] ELSE wallet[x]]
<1> DEFINE r == tx[cur[w]]
<1>1. r \in Transaction /\ seen[w] \in [Touched(r) -> Int] /\ wallet \in [Wallet -> Int]
  BY DEF TypeInv, TypeOK, Sessions
<1>2. \A x \in Touched(r) : seen[w][x] = wallet[x]
  BY DEF FreshView
<1> HIDE DEF r
<1>3. DOMAIN Settled(r, seen[w]) = Touched(r)
  BY <1>1, SettledType
<1>4. /\ Settled(r, wallet) \in [Wallet -> Int]
      /\ \A x \in Wallet :
           Settled(r, wallet)[x] = IF x \in Touched(r) THEN Settled(r, seen[w])[x] ELSE wallet[x]
      /\ EnoughFunds(r, seen[w]) <=> EnoughFunds(r, wallet)
  BY <1>1, <1>2, SettledLocally
<1>5. Settled(r, wallet) = [x \in Wallet |-> Settled(r, wallet)[x]]
  BY <1>4
<1>6. Settled(r, wallet) =
        [x \in Wallet |-> IF x \in DOMAIN Settled(r, seen[w]) THEN Settled(r, seen[w])[x] ELSE wallet[x]]
  BY <1>3, <1>4, <1>5
<1> QED
  BY <1>4, <1>6 DEF r

(* The steps that settle or reject.                                        *)
LEMMA SettleRefines ==
  ASSUME TypeInv, Reversals, UndoneOnce, FreshView, NEW w \in Workers, Process(w)
  PROVE  cur[w] \in DOMAIN tx /\ Abstract!Settle(cur[w])
<1> DEFINE t == cur[w]
<1>1. /\ t \in DOMAIN tx /\ tx[t].state = "pending"
      /\ Orders' = [Orders EXCEPT ![t].status = "settled"]
  BY MarkedOrder
<1>2. /\ pc[w] = "wallets" /\ ~ParentReversed(t) /\ EnoughFunds(tx[t], seen[w])
      /\ UNCHANGED billed
  BY DEF Process
<1>3. wallet' = LET after == Settled(tx[t], seen[w])
                IN  [x \in Wallet |-> IF x \in DOMAIN after THEN after[x] ELSE wallet[x]]
  BY DEF Process
<1>4. Orders[t] = OrderOf(tx[t]) /\ OrderOf(tx[t]).status = "pending"
  BY <1>1 DEF Orders, OrderOf, StatusOf, Applied
<1>5. /\ Abstract!EnoughFunds(Orders[t], wallet)
      /\ wallet' = Abstract!Settled(Orders[t], wallet)
  BY <1>2, <1>3, <1>4, JudgedFresh, SameArithmetic
<1>6. ~Abstract!AlreadyReversed(t)
  BY <1>1, <1>2, SameReversed
<1> HIDE DEF t
<1>7. Abstract!Settle(t)
  BY <1>1, <1>2, <1>4, <1>5, <1>6 DEF Abstract!Settle, Orders, OrderOf
<1> QED
  BY <1>1, <1>7 DEF t

LEMMA RejectRefines ==
  ASSUME TypeInv, Reversals, UndoneOnce, FreshView, NEW w \in Workers,
         ProcessAlreadyReversed(w) \/ ProcessNotEnoughFunds(w)
  PROVE  cur[w] \in DOMAIN tx /\ Abstract!Reject(cur[w])
<1> DEFINE t == cur[w]
<1>1. ~Process(w) /\ UNCHANGED <<wallet, billed>> /\ pc[w] = "wallets"
  BY DEF ProcessAlreadyReversed, ProcessNotEnoughFunds, Process
<1>2. /\ t \in DOMAIN tx /\ tx[t].state = "pending"
      /\ Orders' = [Orders EXCEPT ![t].status = "rejected"]
  BY <1>1, MarkedOrder
<1>3. ParentReversed(t) \/ ~EnoughFunds(tx[t], seen[w])
  BY DEF ProcessAlreadyReversed, ProcessNotEnoughFunds
<1>4. Orders[t] = OrderOf(tx[t]) /\ OrderOf(tx[t]).status = "pending"
  BY <1>2 DEF Orders, OrderOf, StatusOf, Applied
<1>5. ~EnoughFunds(tx[t], seen[w]) => ~Abstract!EnoughFunds(Orders[t], wallet)
  BY <1>1, <1>4, JudgedFresh, SameArithmetic
<1>6. ParentReversed(t) => Abstract!AlreadyReversed(t)
  BY <1>2, SameReversed
<1> HIDE DEF t
<1>7. Abstract!Reject(t)
  BY <1>1, <1>2, <1>3, <1>4, <1>5, <1>6 DEF Abstract!Reject, Orders, OrderOf
<1> QED
  BY <1>2, <1>7 DEF t

(* A reading billed is billed on the balances of the moment.               *)
LEMMA BillRefines ==
  ASSUME TypeInv, FreshView, NEW b \in Billers, NEW cost \in Costs, CommitBilling(b, cost)
  PROVE  bill[b] \in Meters /\ Abstract!Bill(bill[b], cost)
<1> DEFINE m == bill[b]
<1>1. m \in Meters /\ bseen[b] = Balances(wallet, m)
  BY DEF CommitBilling, TypeInv, TypeOK, FreshView
<1>2. /\ wallet' = WithBalances(wallet, m, Billed(m \in AutoMeters, Balances(wallet, m), cost))
      /\ billed' = [billed EXCEPT ![m] = @ + cost]
      /\ tx' = tx
  BY <1>1 DEF CommitBilling
<1> HIDE DEF m
<1>3. Orders' = Orders
  BY <1>2 DEF Orders
<1>4. wallet' = Abstract!WithBalances(wallet, m,
                  Abstract!Billed(m \in AutoMeters, Abstract!Balances(wallet, m), cost))
  BY <1>2, SameArithmetic
<1>5. Abstract!Bill(m, cost)
  BY <1>2, <1>3, <1>4 DEF Abstract!Bill, Orders, OrderOf
<1> QED
  BY <1>1, <1>5 DEF m

(* Every step of Ledger is a step of LedgerSpec, or none.                  *)
LEMMA StepRefines ==
  ASSUME TypeInv, Reversals, UndoneOnce, FreshView, [Next]_vars
  PROVE  [Abstract!Next]_(Abstract!vars)
<1>1. ASSUME NEW c \in Clients, Insert(c) PROVE Abstract!Place
  <2>1. UNCHANGED <<wallet, billed>>
    BY <1>1 DEF Insert
  <2> QED
    BY <1>1, <2>1, InsertedRows, PlaceRefines
<1>2. ASSUME NEW w \in Workers, StartZeroing(w) PROVE Abstract!Place
  <2>1. UNCHANGED <<wallet, billed>>
    BY <1>2 DEF StartZeroing
  <2> QED
    BY <1>2, <2>1, ZeroingRow, PlaceRefines
<1>3. ASSUME NEW w \in Workers,
             ProcessAlreadyReversed(w) \/ ProcessNotEnoughFunds(w) \/ Process(w)
      PROVE  \E t \in DOMAIN tx : Abstract!Settle(t) \/ Abstract!Reject(t)
  <2>1. cur[w] \in DOMAIN tx /\ (Abstract!Settle(cur[w]) \/ Abstract!Reject(cur[w]))
    BY <1>3, SettleRefines, RejectRefines
  <2> QED
    BY <2>1 DEF Abstract!Settle, Abstract!Reject, Abstract!AlreadyReversed
<1>4. ASSUME NEW b \in Billers, NEW cost \in Costs, CommitBilling(b, cost)
      PROVE  \E m \in Meters, c \in Costs : Abstract!Bill(m, c)
  BY <1>4, BillRefines
<1>5. CASE OtherStep
  <2>1. UNCHANGED <<tx, wallet, billed>>
    BY <1>5, OtherStepKeeps
  <2> QED
    BY <2>1 DEF Abstract!vars
<1>6. (\E t \in DOMAIN tx : Abstract!Settle(t) \/ Abstract!Reject(t)) => Abstract!Next
  BY DEF Abstract!Next
<1> QED
  BY <1>1, <1>2, <1>3, <1>4, <1>5, <1>6, Steps DEF Abstract!Next

(* Where wallets are locked and nobody reverses a reversal, the ledger     *)
(* keeps what LedgerSpec promises: whatever the threads, the stale queues, *)
(* the aborted passes and the crashes of process_transactions and          *)
(* process_reading, each transaction is settled once or rejected once, for *)
(* a reason that holds, and moves exactly its amount.                      *)
THEOREM Refines ==
  ASSUME LockWalletsOnProcess, NoNestedRequests
  PROVE  Spec => ImplementsLedgerSpec
<1>1. Init => Abstract!Init
  BY InitRefines
<1>2. TypeInv /\ Reversals /\ UndoneOnce /\ FreshView /\ [Next]_vars
        => [Abstract!Next]_(Abstract!vars)
  BY StepRefines
<1> QED
  BY <1>1, <1>2, TypeInvariance, ReversalsInvariance, UndoneOnceInvariance, ViewsStayFresh, PTL
  DEF Spec, ImplementsLedgerSpec, Abstract!Spec

-----------------------------------------------------------------------------
(* Overdrafts.                                                             *)

(* Converting negative credit into debt lowers no balance.                 *)
LEMMA ConversionLifts ==
  ASSUME NEW m, NEW s \in [Wallet -> Int]
  PROVE  /\ ConvertNegative(m, s) \in [Wallet -> Int]
         /\ \A x \in Wallet : ConvertNegative(m, s)[x] >= s[x]
<1>1. CASE m \in Meters /\ Converts(m \in AutoMeters, s[<<m, "credit">>])
  <2>1. /\ <<m, "credit">> \in Wallet /\ <<m, "debt">> \in Wallet
        /\ <<m, "credit">> # <<m, "debt">>
        /\ s[<<m, "credit">>] < 0
    BY <1>1 DEF Wallet, Converts
  <2>2. ConvertNegative(m, s) = [s EXCEPT ![<<m, "debt">>] = @ - s[<<m, "credit">>],
                                          ![<<m, "credit">>] = 0]
    BY <1>1 DEF ConvertNegative
  <2> QED
    BY <2>1, <2>2
<1>2. CASE ~(m \in Meters /\ Converts(m \in AutoMeters, s[<<m, "credit">>]))
  BY <1>2 DEF ConvertNegative
<1> QED
  BY <1>1, <1>2

(* A row for which there are enough funds takes a wallet below zero only   *)
(* if the wallet receives a negative amount.                               *)
LEMMA SettledOverdraft ==
  ASSUME NEW r \in Transaction, NEW s \in [Wallet -> Int], EnoughFunds(r, s),
         NEW x \in Wallet, ~NegativePermitted(x),
         Settled(r, s)[x] < 0, Settled(r, s)[x] < s[x]
  PROVE  r.to = x /\ r.amount < 0
<1> DEFINE u == Transfer(r, s)
<1>1. r.amount \in Int /\ r.from \in Wallet /\ r.to \in Wallet
  BY DEF Transaction
<1>2. /\ u \in [Wallet -> Int]
      /\ r.from = r.to => u[x] = s[x]
      /\ r.from # r.to =>
           u[x] = IF x = r.from THEN s[x] - r.amount
                  ELSE IF x = r.to THEN s[x] + r.amount ELSE s[x]
  <2> DEFINE v == [s EXCEPT ![r.from] = s[r.from] - r.amount]
  <2>1. v \in [Wallet -> Int] /\ v[r.from] = s[r.from] - r.amount
        /\ \A y \in Wallet \ {r.from} : v[y] = s[y]
    BY <1>1
  <2>2. u = [v EXCEPT ![r.to] = v[r.to] + r.amount]
    BY DEF Transfer
  <2> HIDE DEF v, u
  <2>3. u \in [Wallet -> Int] /\ u[r.to] = v[r.to] + r.amount
        /\ \A y \in Wallet \ {r.to} : u[y] = v[y]
    BY <1>1, <2>1, <2>2
  <2> QED
    BY <1>1, <2>1, <2>3
<1> HIDE DEF u
<1>3. /\ ConvertNegative(r.to[1], u) \in [Wallet -> Int]
      /\ \A y \in Wallet : ConvertNegative(r.to[1], u)[y] >= u[y]
  BY <1>2, ConversionLifts
<1>4. u[x] < 0 /\ u[x] < s[x]
  BY <1>2, <1>3 DEF Settled, u
<1>5. x = r.from => s[x] - r.amount >= 0
  BY DEF EnoughFunds
<1> QED
  BY <1>1, <1>2, <1>4, <1>5

(* Billing a reading takes no wallet of the meter below zero but its       *)
(* credit.                                                                 *)
LEMMA BilledOverdraft ==
  ASSUME NEW auto, NEW b \in [credit : Int, debt : Int, plan : Int], NEW cost \in Nat
  PROVE  /\ Billed(auto, b, cost).plan >= 0
         /\ Billed(auto, b, cost).debt >= 0 \/ Billed(auto, b, cost).debt >= b.debt
<1> DEFINE p == PayReading(auto, b, cost)
<1>1. b.credit \in Int /\ b.debt \in Int /\ b.plan \in Int
  OBVIOUS
<1>2. /\ p.plan \in Int /\ p.credit \in Int /\ p.debt \in Int
      /\ p.plan >= 0 /\ p.debt >= b.debt
  <2> DEFINE planCost == Least(cost, b.plan)
             credit   == b.credit - (cost - planCost)
             conv     == Converts(auto, credit)
  <2>1. planCost \in Int /\ b.plan - planCost >= 0
    BY <1>1 DEF Least
  <2> HIDE DEF planCost
  <2>2. credit \in Int
    BY <1>1, <2>1
  <2>3. p = [plan |-> b.plan - planCost,
             credit |-> IF conv THEN 0 ELSE credit,
             debt |-> IF conv THEN b.debt - credit ELSE b.debt]
    BY DEF PayReading, planCost
  <2>4. conv => credit < 0
    BY DEF Converts
  <2> HIDE DEF p, conv, credit
  <2> QED
    BY <1>1, <2>1, <2>2, <2>3, <2>4
<1> HIDE DEF p
<1>3. CASE p.debt > 0
  <2> DEFINE charge   == (cost * DebtPaybackPercent) \div 100
             fromPlan == Deduction(charge, p.plan, p.debt)
             fromCred == Deduction(charge - fromPlan, p.credit, p.debt - fromPlan)
  <2>1. charge \in Int
    <3>1. DebtPaybackPercent \in Int
      BY ChargesAssumption
    <3> QED
      BY <3>1
  <2>2. ASSUME NEW x \in Int, NEW y \in Int, NEW z \in Int
        PROVE  /\ Deduction(x, y, z) \in Int
               /\ y >= 0 => Deduction(x, y, z) <= y
               /\ z >= 0 => Deduction(x, y, z) <= z
    BY DEF Deduction, Least, Most
  <2> HIDE DEF charge
  <2>3. fromPlan \in Int /\ fromPlan <= p.plan /\ fromPlan <= p.debt
    <3>1. p.debt >= 0
      BY <1>2, <1>3
    <3> QED
      BY <1>2, <2>1, <2>2, <3>1
  <2> HIDE DEF fromPlan
  <2>4. fromCred \in Int /\ fromCred <= p.debt - fromPlan
    <3>1. charge - fromPlan \in Int /\ p.debt - fromPlan \in Int /\ p.debt - fromPlan >= 0
      BY <1>2, <2>1, <2>3
    <3> QED
      BY <1>2, <2>2, <3>1
  <2>5. Billed(auto, b, cost) =
          [plan |-> p.plan - fromPlan, credit |-> p.credit - fromCred,
           debt |-> p.debt - fromPlan - fromCred]
    BY <1>3 DEF Billed, PayOffDebt, p, charge, fromPlan
  <2> HIDE DEF fromCred
  <2> QED
    BY <1>2, <2>3, <2>4, <2>5
<1>4. CASE ~(p.debt > 0)
  BY <1>2, <1>4 DEF Billed, p
<1> QED
  BY <1>3, <1>4

(* A step that overdraws a wallet is one of those that may.                *)
LEMMA OverdraftStep ==
  ASSUME TypeInv, Reversals, FreshView, [Next]_vars, NEW x \in Wallet,
         ~NegativePermitted(x), wallet'[x] < 0, wallet'[x] < wallet[x]
  PROVE  \/ \E t \in DOMAIN tx : OverdrawnBy(x, t)
         \/ x[2] = "credit" /\ x[1] \in Meters /\ BilledStep(x[1])
<1> DEFINE Excused == \/ \E t \in DOMAIN tx : OverdrawnBy(x, t)
                      \/ x[2] = "credit" /\ x[1] \in Meters /\ BilledStep(x[1])
<1>1. ASSUME NEW w \in Workers, Process(w) PROVE Excused
  <2> DEFINE t == cur[w]
  <2>1. /\ t \in DOMAIN tx /\ tx[t].state = "pending" /\ tx[t] \in Transaction
        /\ tx'[t] = [tx[t] EXCEPT !.state = "processed"]
    BY <1>1, ProcessedRows DEF TypeInv, TypeOK
  <2>2. tx'[t].state = "processed"
    BY <2>1, StateOnly DEF State
  <2>3. EnoughFunds(tx[t], wallet) /\ wallet' = Settled(tx[t], wallet)
    BY <1>1, JudgedFresh DEF Process
  <2>4. wallet \in [Wallet -> Int]
    BY DEF TypeInv, TypeOK
  <2> HIDE DEF t
  <2>5. tx[t].to = x /\ tx[t].amount < 0
    BY <2>1, <2>3, <2>4, SettledOverdraft
  <2>6. \E i \in DOMAIN tx : OverdrawnBy(x, i)
    BY <2>1, <2>2, <2>5 DEF OverdrawnBy
  <2> QED
    BY <2>6
<1>2. ASSUME NEW b \in Billers, NEW cost \in Costs, CommitBilling(b, cost) PROVE Excused
  <2> DEFINE m == bill[b]
             f == Billed(m \in AutoMeters, bseen[b], cost)
  <2>1. /\ m \in Meters /\ m # None /\ bill'[b] = None
        /\ bseen[b] \in [credit : Int, debt : Int, plan : Int]
        /\ bseen[b] = Balances(wallet, m) /\ wallet \in [Wallet -> Int]
        /\ wallet' = WithBalances(wallet, m, f)
    BY <1>2 DEF CommitBilling, TypeInv, TypeOK, Sessions, FreshView
  <2>2. BilledStep(m)
    BY <2>1 DEF BilledStep
  <2>3. cost \in Nat
    BY LedgerAssumption
  <2>4. f.plan >= 0 /\ (f.debt >= 0 \/ f.debt >= bseen[b].debt)
        /\ f.plan \in Int /\ f.debt \in Int
    <3>1. f \in [credit : Int, debt : Int, plan : Int]
      BY <2>1, <2>3, BilledType
    <3> QED
      BY <2>1, <2>3, <3>1, BilledOverdraft
  <2> HIDE DEF m, f
  <2>5. /\ x \in MeterWallets(m)
        /\ wallet'[x] = f[x[2]]
    BY <2>1 DEF WithBalances
  <2>6. x # <<m, "plan">> /\ x # <<m, "debt">>
    BY <2>1, <2>4, <2>5 DEF Balances
  <2>7. x = <<m, "credit">>
    BY <2>5, <2>6 DEF MeterWallets
  <2> QED
    BY <2>1, <2>2, <2>7
<1>3. ASSUME NEW w \in Workers, ProcessAlreadyReversed(w) \/ ProcessNotEnoughFunds(w)
      PROVE  wallet' = wallet
  BY <1>3 DEF ProcessAlreadyReversed, ProcessNotEnoughFunds
<1>4. ASSUME NEW c \in Clients, Insert(c) PROVE wallet' = wallet
  BY <1>4 DEF Insert
<1>5. ASSUME NEW w \in Workers, StartZeroing(w) PROVE wallet' = wallet
  BY <1>5 DEF StartZeroing
<1>6. wallet' # wallet
  BY DEF TypeInv, TypeOK
<1> QED
  BY <1>1, <1>2, <1>3, <1>4, <1>5, <1>6, Steps, OtherStepKeeps

(* Where wallets are locked, a wallet that may not go negative is taken    *)
(* below zero only by a negative amount it receives, or as the credit of   *)
(* the meter being billed: Transaction.process makes its funds check on    *)
(* the balance that it then changes.                                       *)
THEOREM FundsAreThere ==
  ASSUME LockWalletsOnProcess
  PROVE  Spec => NoOverdraft
<1>1. TypeInv /\ Reversals /\ FreshView /\ [Next]_vars =>
        [\A x \in Wallet : ~NegativePermitted(x) /\ wallet'[x] < 0 /\ wallet'[x] < wallet[x]
           => \/ \E t \in DOMAIN tx : OverdrawnBy(x, t)
              \/ x[2] = "credit" /\ x[1] \in Meters /\ BilledStep(x[1])]_vars
  BY OverdraftStep
<1> QED
  BY <1>1, TypeInvariance, ReversalsInvariance, ViewsStayFresh, PTL DEF Spec, NoOverdraft
-----------------------------------------------------------------------------
(* The worth of the wallets.                                               *)

LEMMA FiniteWallets == IsFiniteSet(Wallet)
<1> DEFINE Owners == Meters \cup SalesAccounts
           Kinds  == {"credit", "debt"}
           Plans  == Meters \X {"plan"}
<1>1. IsFiniteSet(Meters) /\ IsFiniteSet(Owners)
  BY WalletsAssumption, FS_Union DEF SalesAccounts
<1>2. IsFiniteSet(Kinds) /\ IsFiniteSet({"plan"})
  <2>1. \A k : IsFiniteSet({k})
    BY FS_Singleton
  <2>2. Kinds = {"credit"} \cup {"debt"}
    OBVIOUS
  <2> HIDE DEF Kinds
  <2> QED
    BY <2>1, <2>2, FS_Union
<1>3. Wallet = (Owners \X Kinds) \cup Plans
  BY DEF Wallet
<1> HIDE DEF Owners, Kinds
<1>4. IsFiniteSet(Owners \X Kinds) /\ IsFiniteSet(Plans)
  BY <1>1, <1>2, FS_Product
<1> HIDE DEF Plans
<1> QED
  BY <1>3, <1>4, FS_Union

Values(s) == [x \in Wallet |-> Value(s, x)]

LEMMA WorthIsSum ==
  ASSUME NEW s
  PROVE  Worth(s) = SumFunctionOnSet(Values(s), Wallet)
<1>1. DOMAIN Values(s) = Wallet /\ Worth(s) = SumFunction(Values(s))
  BY DEF Values, Worth
<1> QED
  BY <1>1 DEF SumFunction

LEMMA WorthInt ==
  ASSUME NEW s \in [Wallet -> Int]
  PROVE  Worth(s) \in Int
<1>1. \A x \in Wallet : Values(s)[x] \in Int
  BY DEF Values, Value
<1> QED
  BY <1>1, FiniteWallets, WorthIsSum, SumInt

(* What one wallet gains is gained altogether.                             *)
LEMMA WorthChange ==
  ASSUME NEW s \in [Wallet -> Int], NEW e \in Wallet, NEW y \in Int
  PROVE  Worth([s EXCEPT ![e] = y])
           = Worth(s) + (IF e[2] = "debt" THEN s[e] - y ELSE y - s[e])
<1> DEFINE u == [s EXCEPT ![e] = y]
<1>1. \A x \in Wallet : Values(s)[x] \in Int /\ Values(u)[x] \in Int
  BY DEF Values, Value
<1>2. \A x \in Wallet : x # e => Values(s)[x] = Values(u)[x]
  BY DEF Values, Value
<1>3. /\ Values(s)[e] = IF e[2] = "debt" THEN -s[e] ELSE s[e]
      /\ Values(u)[e] = IF e[2] = "debt" THEN -y ELSE y
  BY DEF Values, Value
<1> HIDE DEF u
<1>4. Worth(u) = Worth(s) - Values(s)[e] + Values(u)[e]
  BY <1>1, <1>2, FiniteWallets, WorthIsSum, SumChange
<1>5. Worth(s) \in Int /\ s[e] \in Int
  BY WorthInt
<1>6. Worth(u) = Worth(s) + (IF e[2] = "debt" THEN s[e] - y ELSE y - s[e])
  BY <1>3, <1>4, <1>5
<1> QED
  BY <1>6 DEF u

(* A transfer between wallets of one side changes nothing.                 *)
LEMMA TransferWorth ==
  ASSUME NEW t \in Transaction, SameSide(t), NEW s \in [Wallet -> Int]
  PROVE  Transfer(t, s) \in [Wallet -> Int] /\ Worth(Transfer(t, s)) = Worth(s)
<1> DEFINE u == [s EXCEPT ![t.from] = s[t.from] - t.amount]
           v == [u EXCEPT ![t.to] = u[t.to] + t.amount]
<1>1. t.from \in Wallet /\ t.to \in Wallet /\ t.amount \in Int
  BY DEF Transaction
<1>2. s[t.from] \in Int /\ s[t.from] - t.amount \in Int /\ u \in [Wallet -> Int]
  BY <1>1
<1>3. Worth(u) = Worth(s) + (IF t.from[2] = "debt" THEN s[t.from] - (s[t.from] - t.amount)
                             ELSE (s[t.from] - t.amount) - s[t.from])
  BY <1>1, <1>2, WorthChange
<1>4. Transfer(t, s) = v
  BY DEF Transfer
<1> HIDE DEF u
<1>5. u[t.to] \in Int /\ u[t.to] + t.amount \in Int /\ v \in [Wallet -> Int]
  BY <1>1, <1>2
<1>6. Worth(v) = Worth(u) + (IF t.to[2] = "debt" THEN u[t.to] - (u[t.to] + t.amount)
                             ELSE (u[t.to] + t.amount) - u[t.to])
  BY <1>1, <1>2, <1>5, WorthChange
<1>7. Worth(s) \in Int /\ Worth(u) \in Int
  BY <1>2, WorthInt
<1> HIDE DEF v
<1>8. Worth(v) = Worth(s)
  BY <1>1, <1>2, <1>3, <1>5, <1>6, <1>7 DEF SameSide
<1> QED
  BY <1>4, <1>5, <1>8

(* Nor does turning negative credit into debt.                             *)
LEMMA ConversionWorth ==
  ASSUME NEW m \in Meters, NEW s \in [Wallet -> Int]
  PROVE  Worth(ConvertNegative(m, s)) = Worth(s)
<1> DEFINE c == <<m, "credit">>
           d == <<m, "debt">>
<1>1. c \in Wallet /\ d \in Wallet /\ c # d /\ c[2] = "credit" /\ d[2] = "debt"
  BY DEF Wallet
<1> HIDE DEF c, d
<1>2. CASE ~Converts(m \in AutoMeters, s[c])
  BY <1>2 DEF ConvertNegative, c
<1>3. CASE Converts(m \in AutoMeters, s[c])
  <2> DEFINE u == [s EXCEPT ![d] = s[d] - s[c]]
             v == [u EXCEPT ![c] = 0]
  <2>1. s[c] \in Int /\ s[d] \in Int /\ s[d] - s[c] \in Int
    BY <1>1
  <2>2. ConvertNegative(m, s) = v
    BY <1>3 DEF ConvertNegative, c, d
  <2>3. u \in [Wallet -> Int] /\ u[c] = s[c]
    BY <1>1, <2>1
  <2>4. Worth(u) = Worth(s) + (s[d] - (s[d] - s[c]))
    BY <1>1, <2>1, WorthChange
  <2> HIDE DEF u
  <2>5. Worth(v) = Worth(u) + (IF c[2] = "debt" THEN u[c] - 0 ELSE 0 - u[c])
    <3>1. 0 \in Int
      OBVIOUS
    <3> QED
      BY <1>1, <2>3, <3>1, WorthChange
  <2>6. Worth(s) \in Int /\ Worth(u) \in Int
    BY <2>3, WorthInt
  <2> HIDE DEF v
  <2>7. Worth(v) = Worth(s)
    BY <1>1, <2>1, <2>3, <2>4, <2>5, <2>6
  <2> QED
    BY <2>2, <2>7
<1> QED
  BY <1>2, <1>3

LEMMA SettledWorth ==
  ASSUME NEW t \in Transaction, SameSide(t), NEW s \in [Wallet -> Int]
  PROVE  Worth(Settled(t, s)) = Worth(s)
<1>1. Transfer(t, s) \in [Wallet -> Int] /\ Worth(Transfer(t, s)) = Worth(s)
  BY TransferWorth
<1>2. CASE t.to[1] \in Meters
  BY <1>1, <1>2, ConversionWorth DEF Settled
<1>3. CASE t.to[1] \notin Meters
  BY <1>1, <1>3 DEF Settled, ConvertNegative
<1> QED
  BY <1>2, <1>3
(* What billing takes is what the reading costs.                           *)
LEMMA BilledTotal ==
  ASSUME NEW auto, NEW b \in [credit : Int, debt : Int, plan : Int], NEW cost \in Nat
  PROVE  LET f == Billed(auto, b, cost)
         IN  f.credit + f.plan - f.debt = b.credit + b.plan - b.debt - cost
<1> DEFINE Bal == [credit : Int, debt : Int, plan : Int]
           p == PayReading(auto, b, cost)
<1>1. p \in Bal /\ p.credit + p.plan - p.debt = b.credit + b.plan - b.debt - cost
  <2> DEFINE planCost == Least(cost, b.plan)
             credit   == b.credit - (cost - planCost)
             conv     == Converts(auto, credit)
  <2>1. planCost \in Int /\ b.credit \in Int /\ b.debt \in Int /\ b.plan \in Int
    BY DEF Least
  <2>2. credit \in Int
    BY <2>1
  <2>3. p = [plan |-> b.plan - planCost,
             credit |-> IF conv THEN 0 ELSE credit,
             debt |-> IF conv THEN b.debt - credit ELSE b.debt]
    BY DEF PayReading
  <2> HIDE DEF p, conv
  <2>4. /\ p.plan = b.plan - planCost
        /\ p.credit = IF conv THEN 0 ELSE credit
        /\ p.debt = IF conv THEN b.debt - credit ELSE b.debt
        /\ p \in Bal
    <3> HIDE DEF planCost, credit
    <3> QED
      BY <2>1, <2>2, <2>3
  <2> HIDE DEF planCost
  <2> QED
    BY <2>1, <2>4
<1> DEFINE charge   == (cost * DebtPaybackPercent) \div 100
           fromPlan == Deduction(charge, p.plan, p.debt)
           fromCred == Deduction(charge - fromPlan, p.credit, p.debt - fromPlan)
           q == PayOffDebt(p, cost)
<1>2. ASSUME NEW x \in Int, NEW y \in Int, NEW z \in Int
      PROVE  Deduction(x, y, z) \in Int
  BY DEF Deduction, Least, Most
<1>3. q = [plan |-> p.plan - fromPlan, credit |-> p.credit - fromCred,
           debt |-> p.debt - fromPlan - fromCred]
  BY DEF PayOffDebt
<1>4. Billed(auto, b, cost) = IF p.debt > 0 THEN q ELSE p
  BY DEF Billed
<1> HIDE DEF p
<1>5. charge \in Int
  <2>1. DebtPaybackPercent \in Int
    BY ChargesAssumption
  <2> QED
    BY <2>1
<1>6. p.credit \in Int /\ p.debt \in Int /\ p.plan \in Int
  BY <1>1
<1> HIDE DEF charge
<1>7. fromPlan \in Int
  BY <1>2, <1>5, <1>6
<1> HIDE DEF fromPlan
<1>8. fromCred \in Int
  <2>1. charge - fromPlan \in Int /\ p.debt - fromPlan \in Int
    BY <1>5, <1>6, <1>7
  <2> QED
    BY <1>2, <1>6, <2>1
<1> HIDE DEF fromCred, q
<1>9. q.credit + q.plan - q.debt = p.credit + p.plan - p.debt
  BY <1>3, <1>6, <1>7, <1>8
<1> QED
  BY <1>1, <1>4, <1>9

LEMMA BillingWorth ==
  ASSUME NEW m \in Meters, NEW s \in [Wallet -> Int],
         NEW f \in [credit : Int, debt : Int, plan : Int]
  PROVE  LET b == Balances(s, m)
         IN  Worth(WithBalances(s, m, f))
               = Worth(s) + (f.credit + f.plan - f.debt) - (b.credit + b.plan - b.debt)
<1> DEFINE c == <<m, "credit">>
           d == <<m, "debt">>
           p == <<m, "plan">>
           s1 == [s EXCEPT ![c] = f.credit]
           s2 == [s1 EXCEPT ![d] = f.debt]
           s3 == [s2 EXCEPT ![p] = f.plan]
<1>1. /\ c \in Wallet /\ d \in Wallet /\ p \in Wallet
      /\ c # d /\ c # p /\ d # p
      /\ c[2] = "credit" /\ d[2] = "debt" /\ p[2] = "plan"
  BY DEF Wallet
<1>2. /\ f.credit \in Int /\ f.debt \in Int /\ f.plan \in Int
      /\ s[c] \in Int /\ s[d] \in Int /\ s[p] \in Int
  BY <1>1
<1>3. /\ Balances(s, m).credit = s[c] /\ Balances(s, m).debt = s[d]
      /\ Balances(s, m).plan = s[p]
  BY DEF Balances
<1>4. WithBalances(s, m, f) = s3
  <2>1. MeterWallets(m) = {c, d, p}
    BY DEF MeterWallets
  <2> DEFINE w == WithBalances(s, m, f)
  <2>2. w = [x \in Wallet |-> IF x \in {c, d, p} THEN f[x[2]] ELSE s[x]]
    BY <2>1 DEF WithBalances
  <2>3. f["credit"] = f.credit /\ f["debt"] = f.debt /\ f["plan"] = f.plan
    OBVIOUS
  <2> HIDE DEF c, d, p, w
  <2>4. ASSUME NEW x \in Wallet PROVE w[x] = s3[x]
    BY <1>1, <2>2, <2>3
  <2>5. s3 = [x \in Wallet |-> s3[x]] /\ w = [x \in Wallet |-> w[x]]
    BY <2>2
  <2> HIDE DEF s3
  <2>6. w = s3
    BY <2>4, <2>5
  <2> QED
    BY <2>6 DEF w
<1> HIDE DEF c, d, p
<1>5. s1 \in [Wallet -> Int] /\ s1[d] = s[d] /\ s1[p] = s[p]
  BY <1>1, <1>2
<1>6. Worth(s1) = Worth(s) + (IF c[2] = "debt" THEN s[c] - f.credit ELSE f.credit - s[c])
  BY <1>1, <1>2, WorthChange
<1> HIDE DEF s1
<1>7. s2 \in [Wallet -> Int] /\ s2[p] = s[p]
  BY <1>1, <1>2, <1>5
<1>8. Worth(s2) = Worth(s1) + (IF d[2] = "debt" THEN s1[d] - f.debt ELSE f.debt - s1[d])
  BY <1>1, <1>2, <1>5, WorthChange
<1> HIDE DEF s2
<1>9. Worth(s3) = Worth(s2) + (IF p[2] = "debt" THEN s2[p] - f.plan ELSE f.plan - s2[p])
  BY <1>1, <1>2, <1>7, WorthChange
<1>10. Worth(s) \in Int /\ Worth(s1) \in Int /\ Worth(s2) \in Int
  BY <1>5, <1>7, WorthInt
<1> HIDE DEF s3
<1> QED
  BY <1>1, <1>2, <1>3, <1>4, <1>5, <1>6, <1>7, <1>8, <1>9, <1>10

LEMMA BilledSum ==
  ASSUME NEW F \in [Meters -> Int]
  PROVE  SumFunction(F) = SumFunctionOnSet(F, Meters) /\ SumFunction(F) \in Int
<1>1. SumFunction(F) = SumFunctionOnSet(F, Meters)
  BY DEF SumFunction
<1>2. IsFiniteSet(Meters) /\ \A m \in Meters : F[m] \in Int
  BY WalletsAssumption
<1> QED
  BY <1>1, <1>2, SumInt

LEMMA BilledMore ==
  ASSUME NEW F \in [Meters -> Int], NEW m \in Meters, NEW cost \in Int
  PROVE  SumFunction([F EXCEPT ![m] = @ + cost]) = SumFunction(F) + cost
<1> DEFINE G == [F EXCEPT ![m] = @ + cost]
<1>1. /\ G \in [Meters -> Int]
      /\ \A x \in Meters : F[x] \in Int /\ G[x] \in Int
      /\ \A x \in Meters : x # m => F[x] = G[x]
      /\ G[m] = F[m] + cost
  OBVIOUS
<1> HIDE DEF G
<1>2. IsFiniteSet(Meters)
  BY WalletsAssumption
<1>3. SumFunctionOnSet(G, Meters) = SumFunctionOnSet(F, Meters) - F[m] + G[m]
  BY <1>1, <1>2, SumChange
<1>4. SumFunction(G) = SumFunction(F) + cost
  BY <1>1, <1>3, BilledSum
<1> QED
  BY <1>4 DEF G

LEMMA MoneyInit == Init => MoneyConserved
<1> SUFFICES ASSUME Init PROVE MoneyConserved
  OBVIOUS
<1>1. InitialBalance \in [Wallet -> Int]
  BY LedgerAssumption
<1>2. IsFiniteSet(Meters) /\ \A m \in Meters : billed[m] = 0
  BY WalletsAssumption DEF Init
<1>3. SumFunctionOnSet(billed, Meters) = SumFunctionOnSet(billed, {})
  <2>1. \A m \in Meters : billed[m] \in Int
    BY <1>2
  <2> QED
    BY <1>2, <2>1, SumFilter
<1>4. SumFunction(billed) = SumFunctionOnSet(billed, Meters)
  BY DEF SumFunction, Init
<1>5. SumFunction(billed) = 0
  BY <1>3, <1>4, SumEmpty
<1>6. wallet = InitialBalance /\ Worth(InitialBalance) \in Int
  BY <1>1, WorthInt DEF Init
<1> QED
  BY <1>5, <1>6 DEF MoneyConserved

LEMMA MoneyStep ==
  TypeInv /\ Reversals /\ FreshView /\ MoneyConserved /\ [Next]_vars => MoneyConserved'
<1> SUFFICES ASSUME TypeInv, Reversals, FreshView, MoneyConserved, [Next]_vars
             PROVE  MoneyConserved'
  OBVIOUS
<1> DEFINE Total == Worth(wallet) + SumFunction(billed)
<1>0. /\ wallet \in [Wallet -> Int] /\ billed \in [Meters -> Int]
      /\ Worth(wallet) \in Int /\ SumFunction(billed) \in Int
  BY WorthInt, BilledSum DEF TypeInv, TypeOK
<1>1. ASSUME NEW w \in Workers, Process(w)
      PROVE  Worth(wallet') = Worth(wallet) /\ billed' = billed
  <2>1. /\ cur[w] \in DOMAIN tx /\ tx[cur[w]] \in Transaction
        /\ SameSide(tx[cur[w]])
    BY <1>1, ProcessedRows DEF TypeInv, TypeOK, Reversals, TableRows, WellMade
  <2>2. wallet' = Settled(tx[cur[w]], wallet) /\ billed' = billed
    BY <1>1, JudgedFresh DEF Process
  <2> QED
    BY <1>0, <2>1, <2>2, SettledWorth
<1>2. ASSUME NEW b \in Billers, NEW cost \in Costs, CommitBilling(b, cost)
      PROVE  /\ Worth(wallet') = Worth(wallet) - cost
             /\ SumFunction(billed') = SumFunction(billed) + cost
             /\ cost \in Int
  <2> DEFINE m == bill[b]
             f == Billed(m \in AutoMeters, bseen[b], cost)
  <2>1. /\ m \in Meters
        /\ bseen[b] \in [credit : Int, debt : Int, plan : Int]
        /\ bseen[b] = Balances(wallet, m)
        /\ wallet' = WithBalances(wallet, m, f)
        /\ billed' = [billed EXCEPT ![m] = @ + cost]
    BY <1>2 DEF CommitBilling, TypeInv, TypeOK, Sessions, FreshView
  <2>2. cost \in Nat /\ cost \in Int
    BY LedgerAssumption
  <2>3. f \in [credit : Int, debt : Int, plan : Int]
    BY <2>1, <2>2, BilledType
  <2>4. f.credit + f.plan - f.debt
          = bseen[b].credit + bseen[b].plan - bseen[b].debt - cost
    BY <2>1, <2>2, BilledTotal
  <2> HIDE DEF m, f
  <2>5. Worth(wallet') = Worth(wallet) + (f.credit + f.plan - f.debt)
          - (bseen[b].credit + bseen[b].plan - bseen[b].debt)
    BY <1>0, <2>1, <2>3, BillingWorth
  <2>6. Worth(wallet') = Worth(wallet) - cost
    <3>1. /\ bseen[b].credit \in Int /\ bseen[b].plan \in Int /\ bseen[b].debt \in Int
          /\ f.credit \in Int /\ f.plan \in Int /\ f.debt \in Int
      BY <2>1, <2>3
    <3> QED
      BY <1>0, <2>2, <2>4, <2>5, <3>1
  <2>7. SumFunction(billed') = SumFunction(billed) + cost
    BY <1>0, <2>1, <2>2, BilledMore
  <2> QED
    BY <2>2, <2>6, <2>7
<1>3. ASSUME NEW w \in Workers, ProcessAlreadyReversed(w) \/ ProcessNotEnoughFunds(w)
      PROVE  wallet' = wallet /\ billed' = billed
  BY <1>3 DEF ProcessAlreadyReversed, ProcessNotEnoughFunds
<1>4. ASSUME NEW c \in Clients, Insert(c) PROVE wallet' = wallet /\ billed' = billed
  BY <1>4 DEF Insert
<1>5. ASSUME NEW w \in Workers, StartZeroing(w) PROVE wallet' = wallet /\ billed' = billed
  BY <1>5 DEF StartZeroing
<1>6. Worth(wallet') + SumFunction(billed') = Worth(wallet) + SumFunction(billed)
  <2>1. CASE wallet' = wallet /\ billed' = billed
    BY <2>1
  <2>2. ASSUME NEW w \in Workers, Process(w)
        PROVE  Worth(wallet') + SumFunction(billed') = Worth(wallet) + SumFunction(billed)
    BY <1>1, <2>2
  <2>3. ASSUME NEW b \in Billers, NEW cost \in Costs, CommitBilling(b, cost)
        PROVE  Worth(wallet') + SumFunction(billed') = Worth(wallet) + SumFunction(billed)
    BY <1>0, <1>2, <2>3
  <2> QED
    BY <1>3, <1>4, <1>5, <2>1, <2>2, <2>3, Steps, OtherStepKeeps
<1> QED
  BY <1>6 DEF MoneyConserved, Worth, Value

(* Where wallets are locked, money is neither made nor lost: what process, *)
(* reverse, zero_balance and process_reading do to the wallets adds up to  *)
(* the balances at the start less what the billed readings cost.           *)
THEOREM MoneyStays ==
  ASSUME LockWalletsOnProcess
  PROVE  Spec => []MoneyConserved
<1>1. Spec => [](TypeInv /\ Reversals /\ FreshView)
  BY TypeInvariance, ReversalsInvariance, ViewsStayFresh, PTL
<1> QED
  BY <1>1, MoneyInit, MoneyStep, PTL DEF Spec
=============================================================================
