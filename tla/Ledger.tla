------------------------------ MODULE Ledger ------------------------------
(***************************************************************************)
(* The payment ledger of a ground: the transactions and wallet tables, the *)
(* requests that create and reverse transactions, the workers that process *)
(* them (the once-a-minute loop and the `transaction process` command),    *)
(* the zeroing of a customer's wallet, and the threads that bill readings  *)
(* against the same wallets.                                               *)
(*                                                                         *)
(* A step is what one database transaction does between two points where   *)
(* another can be seen: acquiring locks, reading, committing.  A request   *)
(* checks the tables first and inserts later, when the lock on the table   *)
(* lets it; a worker or a billing thread reads balances once it holds its  *)
(* locks and writes what it computed from them when it commits.            *)
(***************************************************************************)
EXTENDS Wallets, Sequences, FiniteSetsExt

CONSTANTS
  Workers,             \* threads and processes that process transactions
  Cli,                 \* those of them that are `transaction process` commands
  Clients,             \* web and API requests in flight
  Billers,             \* threads that bill readings
  LockWalletsOnProcess,\* config["LOCK_WALLETS_ON_PROCESS"]
  Flows,               \* the [from, to, kind] for which transactions are requested
  Amounts,             \* the amounts requested
  Markups,             \* the markups requested
  ReversalRequests,    \* the origins of the transactions users ask to reverse
  Costs,               \* what a reading may cost
  InitialBalance,      \* the wallets at the start
  MaxReadings,         \* bound: readings billed
  MaxZeroRequests,     \* bound: zeroing requests
  MaxCrashes           \* bound: crashes

(* Who may pay whom: a sales account sells credit to a meter or transfers  *)
(* it to a restricted account; a meter or a restricted account pays debt   *)
(* to a restricted account.                                                *)
AllFlows ==
  {f \in [from : Meters \cup SalesAccounts, to : Meters \cup Vendors,
          kind : {"credit", "debt"}] :
     /\ f.from # f.to
     /\ \/ f.kind = "credit" /\ f.from \in SalesAccounts
        \/ f.kind = "debt" /\ f.from \in Meters \cup Vendors /\ f.to \in Vendors}

ASSUME LedgerAssumption ==
  /\ Cli \subseteq Workers
  /\ None \notin Workers \cup Billers \cup Wallet
  /\ Workers \cap Billers = {}
  /\ LockWalletsOnProcess \in BOOLEAN
  /\ Flows \subseteq AllFlows
  /\ Amounts \subseteq Int \ {0}
  /\ Markups \subseteq {0, 1}
  /\ ReversalRequests \subseteq Origin
  /\ Costs \subseteq Nat
  /\ InitialBalance \in [Wallet -> Int]
  /\ MaxReadings \in Nat /\ MaxZeroRequests \in Nat /\ MaxCrashes \in Nat

VARIABLES
  wallet,     \* table wallet: the balances
  tx,         \* table transactions: id -> Transaction, growing
  notices,    \* table event: the customer notices created by processing
  zeroEvents, \* table event: wallets with an unprocessed zeroing request
  billed,     \* table reading: the cost of the readings billed, per meter
  tableLock,  \* holder of the lock on table transactions
  walletLock, \* holder of each wallet's row lock
  client,     \* per client: the checked rows it is about to insert
  pc,         \* per worker: where it is
  queue,      \* per worker: the transactions left in this pass
  cur,        \* per worker: the transaction being processed
  zeroing,    \* per worker: the wallet whose zeroing event it processes
  seen,       \* per worker: the balances its session read
  bill,       \* per biller: the meter whose reading it bills
  bseen,      \* per biller: the balances its session read
  readings, zeroRequests, crashes   \* counters of the bounds

tables    == <<wallet, tx, notices, zeroEvents, billed>>
locks     == <<tableLock, walletLock>>
workerVars == <<pc, queue, cur, zeroing, seen>>
billVars  == <<bill, bseen>>
counters  == <<readings, zeroRequests, crashes>>
vars == <<tables, locks, client, workerVars, billVars, counters>>

-----------------------------------------------------------------------------
Init ==
  /\ wallet = InitialBalance
  /\ tx = <<>>
  /\ notices = {}
  /\ zeroEvents = {}
  /\ billed = [m \in Meters |-> 0]
  /\ tableLock = None
  /\ walletLock = [x \in Wallet |-> None]
  /\ client = [c \in Clients |-> <<>>]
  /\ pc = [w \in Workers |-> "idle"]
  /\ queue = [w \in Workers |-> {}]
  /\ cur = [w \in Workers |-> None]
  /\ zeroing = [w \in Workers |-> None]
  /\ seen = [w \in Workers |-> <<>>]
  /\ bill = [b \in Billers |-> None]
  /\ bseen = [b \in Billers |-> <<>>]
  /\ readings = 0 /\ zeroRequests = 0 /\ crashes = 0

-----------------------------------------------------------------------------
(* Requests.  client[c] is the sequence of rows that passed the checks.    *)

(* create_transactions up to the first INSERT.  A bonus comes along when   *)
(* credit is transferred to a restricted account with a markup.            *)
CheckCreate(c, f, amount, markup, ext) ==
  LET from == <<f.from, f.kind>>
      to   == <<f.to, f.kind>>
      main == NewTransaction("user", amount, from, to, None, ext)
  IN  /\ client[c] = <<>>
      /\ amount < 0 => f.from = System /\ markup = 0
      /\ markup > 0 => f.kind = "credit" /\ f.to \in Vendors
      /\ EnoughFunds(main, wallet)
      /\ ext # None => ~\E t \in DOMAIN tx : tx[t].ext = ext
      /\ client' = [client EXCEPT ![c] =
           IF markup = 0 THEN <<main>>
           ELSE <<main, NewTransaction("system", amount * markup, from, to, None, None)>>]
      /\ UNCHANGED <<tables, locks, workerVars, billVars, counters>>

(* Transaction.reverse, of a transaction p a user asks to reverse.         *)
CheckReverse(c, p) ==
  /\ client[c] = <<>>
  /\ tx[p].origin \in ReversalRequests
  /\ ~HasBeenReversed(tx, p)
  /\ tx[p].state = "processed"
  /\ client' = [client EXCEPT ![c] = <<ReversalOf(tx, p)>>]
  /\ UNCHANGED <<tables, locks, workerVars, billVars, counters>>

FreeIds == TxId \ DOMAIN tx

WithRow(txs, id, row) == [t \in DOMAIN txs \cup {id} |-> IF t = id THEN row ELSE txs[t]]

(* The INSERT and the commit: the lock of process_transaction excludes     *)
(* them.  A bonus refers to the transaction it was given for.              *)
Insert(c) ==
  /\ client[c] # <<>>
  /\ tableLock = None
  /\ \E id \in FreeIds :
       \/ /\ Len(client[c]) = 1
          /\ tx' = WithRow(tx, id, client[c][1])
       \/ /\ Len(client[c]) = 2
          /\ \E bonus \in FreeIds \ {id} :
               tx' = WithRow(WithRow(tx, id, client[c][1]),
                             bonus, [client[c][2] EXCEPT !.ref = id])
  /\ client' = [client EXCEPT ![c] = <<>>]
  /\ UNCHANGED <<wallet, notices, zeroEvents, billed, locks, workerVars, billVars, counters>>

(* zero_customer_wallet: the request only creates an event.                *)
RequestZero(x) ==
  /\ zeroRequests < MaxZeroRequests
  /\ x \notin zeroEvents
  /\ zeroEvents' = zeroEvents \cup {x}
  /\ zeroRequests' = zeroRequests + 1
  /\ UNCHANGED <<wallet, tx, notices, billed, locks, client, workerVars, billVars,
                 readings, crashes>>

-----------------------------------------------------------------------------
(* Workers.  pc: "idle"; "pass", inside process_transactions with the rows *)
(* it has still to take; "table", holding the lock on the table; "wallets",*)
(* holding the row locks and having read the balances; "zeroed", its       *)
(* zeroing transaction committed but the event not yet marked processed.   *)

Pending == {t \in DOMAIN tx : tx[t].state = "pending"}

(* get_unprocessed: the pending rows, in no particular order.              *)
StartPass(w) ==
  /\ pc[w] = "idle"
  /\ Pending # {}
  /\ pc' = [pc EXCEPT ![w] = "pass"]
  /\ queue' = [queue EXCEPT ![w] = Pending]
  /\ UNCHANGED <<tables, locks, client, cur, zeroing, seen, billVars, counters>>

EndPass(w) ==
  /\ pc[w] = "pass" /\ queue[w] = {}
  /\ pc' = [pc EXCEPT ![w] = "idle"]
  /\ UNCHANGED <<tables, locks, client, queue, cur, zeroing, seen, billVars, counters>>

(* zero_balance: the amount is what the wallet holds now; the transaction  *)
(* is committed, then handed to process_transaction by this same worker.   *)
StartZeroing(w) ==
  /\ w \notin Cli
  /\ pc[w] = "idle"
  /\ tableLock = None
  /\ \E x \in zeroEvents, id \in FreeIds :
       /\ tx' = WithRow(tx, id, NewTransaction("zeroing", -wallet[x],
                                               SystemWallet(x[2]), x, None, None))
       /\ zeroing' = [zeroing EXCEPT ![w] = x]
       /\ queue' = [queue EXCEPT ![w] = {id}]
  /\ pc' = [pc EXCEPT ![w] = "pass"]
  /\ UNCHANGED <<wallet, notices, zeroEvents, billed, locks, client, cur, seen,
                 billVars, counters>>

(* LOCK TABLE transactions IN SHARE ROW EXCLUSIVE MODE                     *)
LockTable(w) ==
  /\ pc[w] = "pass"
  /\ tableLock = None
  /\ \E t \in queue[w] :
       /\ cur' = [cur EXCEPT ![w] = t]
       /\ queue' = [queue EXCEPT ![w] = @ \ {t}]
  /\ tableLock' = w
  /\ pc' = [pc EXCEPT ![w] = "table"]
  /\ UNCHANGED <<tables, walletLock, client, zeroing, seen, billVars, counters>>

(* A faulty LockSet: only the sending wallet is locked.                    *)
LockSetSender(t) == {tx[t].from}

LockSet(t) == IF LockWalletsOnProcess THEN {tx[t].from, tx[t].to} ELSE {}

(* SELECT ... FOR UPDATE of both wallets, then expire_all: every balance   *)
(* process() uses is read after the locks are held.                        *)
LockWallets(w) ==
  /\ pc[w] = "table"
  /\ \A x \in LockSet(cur[w]) : walletLock[x] = None
  /\ walletLock' = [x \in Wallet |-> IF x \in LockSet(cur[w]) THEN w ELSE walletLock[x]]
  /\ seen' = [seen EXCEPT ![w] = [x \in Touched(tx[cur[w]]) |-> wallet[x]]]
  /\ pc' = [pc EXCEPT ![w] = "wallets"]
  /\ UNCHANGED <<tables, tableLock, client, queue, cur, zeroing, billVars, counters>>

(* The database transaction ends: every lock of the holder h is released.  *)
WalletLockWithout(h) == [x \in Wallet |-> IF walletLock[x] = h THEN None ELSE walletLock[x]]

EndTransaction(w) ==
  /\ tableLock' = None
  /\ walletLock' = WalletLockWithout(w)
  /\ cur' = [cur EXCEPT ![w] = None]
  /\ seen' = [seen EXCEPT ![w] = <<>>]

(* An exception leaves the loop: the rest of the queue waits for the next  *)
(* pass, and a zeroing event stays unprocessed.                            *)
Abandon(w) ==
  /\ pc' = [pc EXCEPT ![w] = "idle"]
  /\ queue' = [queue EXCEPT ![w] = {}]
  /\ zeroing' = [zeroing EXCEPT ![w] = None]

GoOn(w) ==
  /\ pc' = [pc EXCEPT ![w] = IF zeroing[w] = None THEN "pass" ELSE "zeroed"]
  /\ UNCHANGED <<queue, zeroing>>

(* Only process_transactions goes on after "already processed" and         *)
(* "already reversed"; the command and zero_balance let them propagate.    *)
SkipOrAbandon(w) == IF w \in Cli \/ zeroing[w] # None THEN Abandon(w) ELSE GoOn(w)

(* DatabaseLockTimeoutException: some wallet stayed locked by another.     *)
LockTimeout(w) ==
  /\ pc[w] = "table"
  /\ \E x \in LockSet(cur[w]) : walletLock[x] # None
  /\ EndTransaction(w)
  /\ Abandon(w)
  /\ UNCHANGED <<tables, client, billVars, counters>>

(* process() raises ERROR_ALREADY_PROCESSED: nothing is written.           *)
ProcessAlreadyProcessed(w) ==
  /\ pc[w] = "wallets"
  /\ tx[cur[w]].state # "pending"
  /\ EndTransaction(w)
  /\ SkipOrAbandon(w)
  /\ UNCHANGED <<tables, client, billVars, counters>>

(* A faulty ParentReversed: it asks about the reversal, not its parent.    *)
ParentReversedOwn(t) == IsReversal(tx[t]) /\ HasBeenReversed(tx, t)

ParentReversed(t) == IsReversal(tx[t]) /\ HasBeenReversed(tx, tx[t].ref)

(* process() raises ERROR_ALREADY_REVERSED: set_error and commit.          *)
ProcessAlreadyReversed(w) ==
  /\ pc[w] = "wallets"
  /\ tx[cur[w]].state = "pending"
  /\ ParentReversed(cur[w])
  /\ tx' = [tx EXCEPT ![cur[w]].state = "error"]
  /\ EndTransaction(w)
  /\ SkipOrAbandon(w)
  /\ UNCHANGED <<wallet, notices, zeroEvents, billed, client, billVars, counters>>

(* A faulty Outcome: set_error leaves the state as it was.                 *)
OutcomeStillPending(t, state) ==
  [i \in DOMAIN tx |->
     IF i = t /\ state = "processed" THEN [tx[i] EXCEPT !.state = state]
     ELSE IF IsReversal(tx[t]) /\ i = tx[t].ref THEN [tx[i] EXCEPT !.state = "reversed"]
     ELSE tx[i]]

(* The rows after transaction t of the reversal branch of process() and    *)
(* its outcome: the parent is marked before the funds are looked at.       *)
Outcome(t, state) ==
  [i \in DOMAIN tx |->
     IF i = t THEN [tx[i] EXCEPT !.state = state]
     ELSE IF IsReversal(tx[t]) /\ i = tx[t].ref THEN [tx[i] EXCEPT !.state = "reversed"]
     ELSE tx[i]]

ReversalNotice(t) == IF IsReversal(tx[t]) THEN {<<"reversal", tx[t].ref>>} ELSE {}

(* process() raises ERROR_NOT_ENOUGH_FUNDS: set_error and commit, which    *)
(* writes all the session changed, the parent and its notice included.     *)
ProcessNotEnoughFunds(w) ==
  /\ pc[w] = "wallets"
  /\ tx[cur[w]].state = "pending"
  /\ ~ParentReversed(cur[w])
  /\ ~EnoughFunds(tx[cur[w]], seen[w])
  /\ tx' = Outcome(cur[w], "error")
  /\ notices' = notices \cup ReversalNotice(cur[w])
  /\ EndTransaction(w)
  /\ Abandon(w)
  /\ UNCHANGED <<wallet, zeroEvents, billed, client, billVars, counters>>

CreditNotice(t) ==
  IF tx[t].to[1] \in Meters /\ tx[t].from[2] = "credit" /\ tx[t].origin # "reversal"
  THEN {<<"credit", t>>} ELSE {}

Process(w) ==
  /\ pc[w] = "wallets"
  /\ tx[cur[w]].state = "pending"
  /\ ~ParentReversed(cur[w])
  /\ EnoughFunds(tx[cur[w]], seen[w])
  /\ LET after == Settled(tx[cur[w]], seen[w])
     IN  wallet' = [x \in Wallet |-> IF x \in DOMAIN after THEN after[x] ELSE wallet[x]]
  /\ tx' = Outcome(cur[w], "processed")
  /\ notices' = notices \cup ReversalNotice(cur[w]) \cup CreditNotice(cur[w])
  /\ EndTransaction(w)
  /\ GoOn(w)
  /\ UNCHANGED <<zeroEvents, billed, client, billVars, counters>>

(* Event.process marks the event; process_events commits it.               *)
CommitEvent(w) ==
  /\ pc[w] = "zeroed"
  /\ zeroEvents' = zeroEvents \ {zeroing[w]}
  /\ Abandon(w)
  /\ UNCHANGED <<wallet, tx, notices, billed, locks, client, cur, seen, billVars, counters>>

(* The process of a worker dies: the database rolls its transaction back.  *)
Crash(w) ==
  /\ crashes < MaxCrashes
  /\ pc[w] # "idle"
  /\ tableLock' = IF tableLock = w THEN None ELSE tableLock
  /\ walletLock' = WalletLockWithout(w)
  /\ cur' = [cur EXCEPT ![w] = None]
  /\ seen' = [seen EXCEPT ![w] = <<>>]
  /\ Abandon(w)
  /\ crashes' = crashes + 1
  /\ UNCHANGED <<tables, client, billVars, readings, zeroRequests>>

-----------------------------------------------------------------------------
(* Billing threads: process_reading of a reading of meter m.               *)

(* A faulty BillLockSet: the credit wallet is left out.                    *)
BillLockSetNoCredit(m) == MeterWallets(m) \ {<<m, "credit">>}

BillLockSet(m) == IF LockWalletsOnProcess THEN MeterWallets(m) ELSE {}

LockForBilling(b, m) ==
  /\ readings < MaxReadings
  /\ bill[b] = None
  /\ \A x \in BillLockSet(m) : walletLock[x] = None
  /\ walletLock' = [x \in Wallet |-> IF x \in BillLockSet(m) THEN b ELSE walletLock[x]]
  /\ bill' = [bill EXCEPT ![b] = m]
  /\ bseen' = [bseen EXCEPT ![b] = Balances(wallet, m)]
  /\ readings' = readings + 1
  /\ UNCHANGED <<tables, tableLock, client, workerVars, zeroRequests, crashes>>

CommitBilling(b, cost) ==
  /\ bill[b] # None
  /\ wallet' = WithBalances(wallet, bill[b], Billed(bill[b] \in AutoMeters, bseen[b], cost))
  /\ billed' = [billed EXCEPT ![bill[b]] = @ + cost]
  /\ walletLock' = WalletLockWithout(b)
  /\ bill' = [bill EXCEPT ![b] = None]
  /\ bseen' = [bseen EXCEPT ![b] = <<>>]
  /\ UNCHANGED <<tx, notices, zeroEvents, tableLock, client, workerVars, counters>>

(* The thread's process dies before the commit.                            *)
CrashBilling(b) ==
  /\ crashes < MaxCrashes
  /\ bill[b] # None
  /\ walletLock' = WalletLockWithout(b)
  /\ bill' = [bill EXCEPT ![b] = None]
  /\ bseen' = [bseen EXCEPT ![b] = <<>>]
  /\ crashes' = crashes + 1
  /\ UNCHANGED <<tables, tableLock, client, workerVars, readings, zeroRequests>>

-----------------------------------------------------------------------------
Request ==
  \/ \E c \in Clients, f \in Flows, amount \in Amounts, markup \in Markups,
        ext \in ExtIds \cup {None} : CheckCreate(c, f, amount, markup, ext)
  \/ \E c \in Clients, p \in DOMAIN tx : CheckReverse(c, p)
  \/ \E c \in Clients : Insert(c)
  \/ \E m \in Meters : \E x \in MeterWallets(m) : RequestZero(x)

(* What a worker does once it runs.                                        *)
Run(w) ==
  \/ EndPass(w) \/ LockTable(w)
  \/ LockWallets(w) \/ LockTimeout(w)
  \/ ProcessAlreadyProcessed(w) \/ ProcessAlreadyReversed(w)
  \/ ProcessNotEnoughFunds(w) \/ Process(w)
  \/ CommitEvent(w)

Billing ==
  \/ \E b \in Billers, m \in Meters : LockForBilling(b, m)
  \/ \E b \in Billers, cost \in Costs : CommitBilling(b, cost)

Next ==
  \/ Request
  \/ \E w \in Workers : StartPass(w) \/ StartZeroing(w) \/ Run(w)
  \/ Billing
  \/ \E w \in Workers : Crash(w)
  \/ \E b \in Billers : CrashBilling(b)

Spec == Init /\ [][Next]_vars

(* The loop starts a pass every minute, and what runs goes on running; no  *)
(* request, no command and no reading has to come.                         *)
Fairness ==
  /\ \A w \in Workers \ Cli : WF_vars(StartPass(w)) /\ WF_vars(StartZeroing(w))
  /\ \A w \in Workers : WF_vars(Run(w))
  /\ \A b \in Billers : WF_vars(\E cost \in Costs : CommitBilling(b, cost))

FairSpec == Spec /\ Fairness

-----------------------------------------------------------------------------
(* The types of the variables, for one invariant of the module.            *)
TypeOK ==
  /\ wallet \in [Wallet -> Int]
  /\ DOMAIN tx \subseteq TxId
  /\ \A t \in DOMAIN tx : tx[t] \in Transaction
  /\ notices \subseteq {"reversal", "credit"} \X TxId
  /\ zeroEvents \subseteq Wallet
  /\ billed \in [Meters -> Int]
  /\ tableLock \in Workers \cup {None}
  /\ walletLock \in [Wallet -> Workers \cup Billers \cup {None}]
  /\ client \in [Clients -> Seq(Transaction)]
  /\ pc \in [Workers -> {"idle", "pass", "table", "wallets", "zeroed"}]
  /\ queue \in [Workers -> SUBSET TxId]
  /\ cur \in [Workers -> TxId \cup {None}]
  /\ zeroing \in [Workers -> Wallet \cup {None}]
  /\ bill \in [Billers -> Meters \cup {None}]
  /\ readings \in Nat /\ zeroRequests \in Nat /\ crashes \in Nat

(* What a session read before it computes new balances is still true when  *)
(* it commits them: process_transaction and process_reading write absolute *)
(* values computed from balances read earlier, and only the row locks keep *)
(* the one from overwriting what the other has just committed.             *)
FreshView ==
  /\ \A w \in Workers : pc[w] = "wallets" =>
       \A x \in Touched(tx[cur[w]]) : seen[w][x] = wallet[x]
  /\ \A b \in Billers : bill[b] # None => bseen[b] = Balances(wallet, bill[b])

(* A transaction is undone at most once, whatever reversals were requested *)
(* while it was still processed and whichever worker takes them: "no       *)
(* double-reversals are allowed" (Transaction.process).  A reversal that   *)
(* was itself reversed does not count.                                     *)
ReversalsOf(p) ==
  {r \in DOMAIN tx : IsReversal(tx[r]) /\ tx[r].ref = p /\ Applied(tx[r])}

OneReversal ==
  \A p \in DOMAIN tx : \A r, s \in ReversalsOf(p) :
    ReversalsOf(r) = {} /\ ReversalsOf(s) = {} => r = s

(* What a wallet is worth to its owner: debt counts against the credit.    *)
Value(s, x) == IF x[2] = "debt" THEN -s[x] ELSE s[x]

Worth(s) == SumFunction([x \in Wallet |-> Value(s, x)])

(* Money is neither made nor lost: transfers, reversals, bonuses, zeroing  *)
(* and the conversion of negative credit to debt keep credit and plan less *)
(* debt, and readings take out exactly what the reading table says they    *)
(* cost.                                                                   *)
MoneyConserved ==
  Worth(wallet) + SumFunction(billed) = Worth(InitialBalance)

(* A wallet that may not go negative is taken below zero only as the       *)
(* receiving end of a negative transaction (a reversal, a zeroing, or one  *)
(* placed from the system account), or as the credit of the meter whose    *)
(* reading the step bills: the funds check of process() is made on the     *)
(* balance the transaction is then taken from, not on the one at the time  *)
(* of creation.                                                            *)
OverdrawnBy(x, t) ==
  /\ t \in DOMAIN tx /\ tx[t].to = x /\ tx[t].amount < 0
  /\ tx[t].state = "pending" /\ tx'[t].state = "processed"

BilledStep(m) == \E b \in Billers : bill[b] = m /\ bill'[b] = None

NoOverdraft ==
  [][\A x \in Wallet :
       ~NegativePermitted(x) /\ wallet'[x] < 0 /\ wallet'[x] < wallet[x]
         => \/ \E t \in DOMAIN tx : OverdrawnBy(x, t)
            \/ x[2] = "credit" /\ x[1] \in Meters /\ BilledStep(x[1])]_vars

(* A transaction marked reversed has been reversed, in the sense of the    *)
(* docstring of has_been_reversed: another transaction references it and   *)
(* is processed with a reversal origin.                                    *)
ReversedHasReversal ==
  \A t \in DOMAIN tx : tx[t].state = "reversed" => HasBeenReversed(tx, t)

(* Every pending transaction is settled in the end, processed or marked as *)
(* an error, whatever aborts the passes that meet it.                      *)
PendingSettles ==
  \A t \in TxId : t \in Pending ~> t \notin Pending

(* The ledger without its locks, sessions and queues: a transaction counts *)
(* as settled from the moment its amount has moved.                        *)
StatusOf(t) ==
  IF Applied(t) THEN "settled" ELSE IF t.state = "error" THEN "rejected" ELSE "pending"

Abstract == INSTANCE LedgerSpec WITH
  balance <- wallet,
  orders <- [t \in DOMAIN tx |->
               [status |-> StatusOf(tx[t]), origin |-> tx[t].origin,
                amount |-> tx[t].amount, from |-> tx[t].from, to |-> tx[t].to,
                ref |-> tx[t].ref]]

(* Every step of the ledger is a step of LedgerSpec or none: locks, stale  *)
(* queues, crashes and aborted passes neither lose a transfer nor make one *)
(* twice, and a rejection has a reason.                                    *)
ImplementsLedgerSpec == Abstract!Spec
=============================================================================
