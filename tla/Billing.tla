------------------------------ MODULE Billing ------------------------------
(***************************************************************************)
(* The billing of one meter: CalculateBilling.calculate for the readings   *)
(* that arrive, while credit is bought and an operator changes the         *)
(* operating mode and the tariff of the meter.  process_reading holds the  *)
(* locks of the meter's wallets while it bills, so a reading is billed in  *)
(* one step.                                                               *)
(*                                                                         *)
(* A reading may be processed long after its heartbeat ended (`delay`),    *)
(* when a gateway that was cut off sends what it has kept.  Readings come  *)
(* in the order of their heartbeats.                                       *)
(***************************************************************************)
EXTENDS Charges, Tariffs, Sequences

CONSTANTS
  TariffRows,      \* the tariffs of the system
  Modes,           \* the operating modes in use, of MeterMode
  InitialPurse,    \* the balances at the start
  CreditAmounts,   \* the amounts of credit bought
  Kwhs,            \* what a reading may add
  Gaps,            \* the times between two heartbeats
  Delays,          \* how late a reading may be processed
  MaxReadings, MaxPurchases, MaxChanges,  \* bounds of the model
  None             \* SQL NULL

MeterMode == {"off", "on", "auto"}   \* MeterConfig.STATE_*

Tariff ==
  [type : {"flat", "blockrate"}, flatPrice : Nat, blocks : SUBSET
     [lower : Nat, upper : Nat, value : Nat],
   tous : SUBSET [start : Nat, end : Nat, value : Nat],
   plan : BOOLEAN, price : Nat, fee : Nat, daily : BOOLEAN,
   startDay : 1..DaysPerMonth, threshold : Nat]

(* A tariff is stored once its blocks are valid (tariffutils.py:185).      *)
ASSUME BillingAssumption ==
  /\ TariffRows \subseteq Tariff
  /\ \A t \in TariffRows :
       IsFiniteSet(t.blocks) /\ (t.type = "blockrate" => ValidBlockrates(t.blocks))
  /\ Modes \subseteq MeterMode
  /\ InitialPurse \in [credit : Int, debt : Nat, plan : {0}]
  /\ CreditAmounts \subseteq Nat
  /\ Kwhs \subseteq Nat
  /\ Gaps \subseteq Nat \ {0}
  /\ Delays \subseteq Nat
  /\ MaxReadings \in Nat /\ MaxPurchases \in Nat /\ MaxChanges \in Nat
  /\ None \notin Int

VARIABLES
  account,    \* the wallets and the MeterBilling row
  mode,       \* config.state
  tariff,     \* the tariff of the meter
  last,       \* system_info.last_energy_datetime
  now,        \* the clock of the server
  notice,     \* timestamp of the last low-balance event, or None
  readings,   \* the readings billed
  bought,     \* the credit bought, in total
  purchases, changes   \* how often credit was bought, and a setting changed

vars == <<account, mode, tariff, last, now, notice, readings, bought,
          purchases, changes>>

Purse(a) == [credit |-> a.credit, debt |-> a.debt, plan |-> a.plan]

(* The fees, costs and plans written off are not in the database: they say *)
(* where the money went.                                                   *)
NewAccount ==
  [credit |-> InitialPurse.credit, debt |-> InitialPurse.debt,
   plan |-> InitialPurse.plan, running |-> FALSE, expires |-> None,
   cycleStart |-> None, cycleEnergy |-> 0,
   fees |-> 0, spent |-> 0, lapsed |-> 0]

Init ==
  /\ account = NewAccount
  /\ mode \in Modes
  /\ tariff \in TariffRows
  /\ last = 0 /\ now = 0
  /\ notice = None
  /\ readings = <<>>
  /\ bought = 0
  /\ purchases = 0 /\ changes = 0

-----------------------------------------------------------------------------
(* The steps of CalculateBilling.calculate, on an account a.               *)

(* Meter.is_new_cycle                                                      *)
IsNewCycle(a, date) ==
  \/ a.cycleStart = None
  \/ /\ a.expires = None \/ date >= a.expires
     /\ LastCycleStart(tariff, date) > a.cycleStart

(* A faulty StartCycle: the energy of the cycle goes on counting.          *)
StartCycleNoReset(a, date) ==
  IF IsNewCycle(a, date) THEN [a EXCEPT !.cycleStart = date] ELSE a

StartCycle(a, date) ==
  IF IsNewCycle(a, date)
  THEN [a EXCEPT !.cycleStart = date, !.cycleEnergy = 0]
  ELSE a

(* A faulty ExpirePlan: what is left of the plan stays in its wallet.      *)
ExpirePlanKeep(a, date) ==
  IF tariff.plan /\ a.running /\ date >= a.expires
  THEN [a EXCEPT !.running = FALSE]
  ELSE a

ExpirePlan(a, date) ==
  IF tariff.plan /\ a.running /\ date >= a.expires
  THEN [a EXCEPT !.running = FALSE, !.plan = 0, !.lapsed = @ + a.plan]
  ELSE a

(* Three faulty MayPurchase: a running plan is not looked at; the fee does *)
(* not count; credit that just pays for the plan does not suffice.         *)
MayPurchaseAgain(a) ==
  tariff.plan /\ \/ mode = "on"
                 \/ mode = "auto" /\ a.credit >= tariff.price + tariff.fee
MayPurchaseNoFee(a) ==
  /\ tariff.plan /\ ~a.running
  /\ \/ mode = "on"
     \/ mode = "auto" /\ a.credit >= tariff.price
MayPurchaseStrict(a) ==
  /\ tariff.plan /\ ~a.running
  /\ \/ mode = "on"
     \/ mode = "auto" /\ a.credit > tariff.price + tariff.fee

MayPurchase(a) ==
  /\ tariff.plan /\ ~a.running
  /\ \/ mode = "on"
     \/ mode = "auto" /\ a.credit >= tariff.price + tariff.fee

PurchasePlan(a, end) ==
  IF MayPurchase(a)
  THEN [a EXCEPT !.running = TRUE, !.expires = NextCycleStart(tariff, end),
                 !.credit = @ - tariff.fee - tariff.price,
                 !.plan = @ + tariff.price, !.fees = @ + tariff.fee]
  ELSE a

(* The three calls made before and after a reading is priced.              *)
Renewed(a, date, end) == PurchasePlan(ExpirePlan(StartCycle(a, date), date), end)

(* A faulty BaseRate: the energy of the reading is counted before.         *)
BaseRateAfter(a, kwh) ==
  IF tariff.type = "flat"
  THEN [num |-> tariff.flatPrice, den |-> 1]
  ELSE AverageBlockRate(tariff.blocks, a.cycleEnergy + kwh, a.cycleEnergy + 2 * kwh)

(* The price of a kWh as a fraction, before the time of use.               *)
BaseRate(a, kwh) ==
  IF tariff.type = "flat"
  THEN [num |-> tariff.flatPrice, den |-> 1]
  ELSE AverageBlockRate(tariff.blocks, a.cycleEnergy, a.cycleEnergy + kwh)

(* The percentage of the time-of-use period the reading lies in.           *)
TouPercent(from, to) ==
  LET ps == {p \in tariff.tous : SupersetOf(p, from, to)}
  IN  IF ps = {} THEN 100 ELSE (CHOOSE p \in ps : TRUE).value

(* CalculateBilling.update_tariff_cost                                     *)
Cost(a, kwh, from, to) ==
  LET rate == BaseRate(a, kwh)
      tou  == IF rate.num > 0 THEN TouPercent(from, to) ELSE 100
  IN  (rate.num * tou * kwh) \div (rate.den * 100)

(* The cost is paid and the energy counted.                                *)
Charge(a, cost, kwh) ==
  LET paid == Billed(mode = "auto", Purse(a), cost)
  IN  [a EXCEPT !.credit = paid.credit, !.debt = paid.debt, !.plan = paid.plan,
                !.cycleEnergy = @ + kwh, !.spent = @ + cost]

(* What the tariff made of a reading: its cost and the account after it.   *)
Calculate(a, from, to, kwh) ==
  LET opened == Renewed(a, to - 1, to)
      cost   == Cost(opened, kwh, from, to)
  IN  [cost |-> cost, account |-> Renewed(Charge(opened, cost, kwh), to, to)]

Total(a) == a.credit + a.plan

(* Reading.get_max_total_balance_since; no reading counts as a balance of 0*)
MaxTotalSince(since) ==
  LET totals == {readings[i].total : i \in {j \in DOMAIN readings : readings[j].end >= since}}
  IN  IF totals = {} THEN 0 ELSE Max(totals)

(* A faulty LowBalance: the readings since the last event are not asked.   *)
LowBalanceAlways(a) == mode = "auto" /\ Total(a) <= tariff.threshold

(* CalculateBilling._check_balance: whether an event is created.           *)
LowBalance(a) ==
  /\ mode = "auto"
  /\ Total(a) <= tariff.threshold
  /\ notice # None => MaxTotalSince(notice) > tariff.threshold

-----------------------------------------------------------------------------
(* A reading of `kwh` whose heartbeat ended `gap` after the last one is    *)
(* billed, `delay` after it ended or as soon as the one before it was.     *)
ProcessReading(gap, delay, kwh) ==
  LET end  == last + gap
      done == Calculate(account, last, end, kwh)
  IN  /\ Len(readings) < MaxReadings
      /\ now' = Max({now, end + delay})
      /\ account' = done.account
      /\ notice' = IF LowBalance(done.account) THEN now' ELSE notice
      /\ readings' = Append(readings,
           [end |-> end, at |-> now', kwh |-> kwh, cost |-> done.cost, tariff |-> tariff,
            mode |-> mode, total |-> Total(done.account),
            notified |-> LowBalance(done.account)])
      /\ last' = end
      /\ UNCHANGED <<mode, tariff, bought, purchases, changes>>

(* A transaction to the credit wallet of the meter is processed.           *)
BuyCredit(amount) ==
  /\ purchases < MaxPurchases
  /\ account' = [account EXCEPT !.credit = @ + amount]
  /\ bought' = bought + amount
  /\ purchases' = purchases + 1
  /\ UNCHANGED <<mode, tariff, last, now, notice, readings, changes>>

(* Meter.set_state                                                         *)
SetState(m) ==
  /\ changes < MaxChanges
  /\ mode # m
  /\ mode' = m
  /\ changes' = changes + 1
  /\ UNCHANGED <<account, tariff, last, now, notice, readings, bought, purchases>>

(* The meter form gives the meter another tariff.                          *)
SetTariff(t) ==
  /\ changes < MaxChanges
  /\ tariff # t
  /\ tariff' = t
  /\ changes' = changes + 1
  /\ UNCHANGED <<account, mode, last, now, notice, readings, bought, purchases>>

Next ==
  \/ \E gap \in Gaps, delay \in Delays, kwh \in Kwhs : ProcessReading(gap, delay, kwh)
  \/ \E amount \in CreditAmounts : BuyCredit(amount)
  \/ \E m \in Modes : SetState(m)
  \/ \E t \in TariffRows : SetTariff(t)

Spec == Init /\ [][Next]_vars

-----------------------------------------------------------------------------
(* Properties.                                                             *)

AccountType ==
  [credit : Int, debt : Nat, plan : Nat, running : BOOLEAN,
   expires : Int \cup {None}, cycleStart : Int \cup {None}, cycleEnergy : Nat,
   fees : Nat, spent : Nat, lapsed : Nat]

ReadingType ==
  [end : Nat, at : Nat, kwh : Nat, cost : Nat, tariff : TariffRows, mode : Modes,
   total : Int, notified : BOOLEAN]

(* Every variable has the type of its column; no amount of billing takes   *)
(* the debt or the plan below zero.                                        *)
TypeOK ==
  /\ account \in AccountType
  /\ mode \in Modes
  /\ tariff \in TariffRows
  /\ last \in Nat /\ now \in Nat
  /\ notice \in Nat \cup {None}
  /\ readings \in Seq(ReadingType)
  /\ bought \in Nat
  /\ purchases \in 0..MaxPurchases /\ changes \in 0..MaxChanges

(* The readings of the current cycle.                                      *)
CycleReadings ==
  IF account.cycleStart = None THEN {}
  ELSE {i \in DOMAIN readings : readings[i].end > account.cycleStart}

(* total_cycle_energy, from which the block of the next kWh is found, is   *)
(* the energy of the readings that ended after the cycle started: the      *)
(* reading on either side of a cycle start is counted once, and in the     *)
(* right cycle, through the two calls of _maybe_start_new_cycle.           *)
CycleEnergyCounted ==
  account.cycleEnergy = SumFunction([i \in CycleReadings |-> readings[i].kwh])

(* What the customer has paid for energy in a cycle on a block tariff is   *)
(* the price of the cycle's energy kWh by kWh: it depends neither on when  *)
(* the readings were taken nor on the blocks they reached across.          *)
CyclePricedByBlocks ==
  (/\ tariff.type = "blockrate" /\ tariff.tous = {}
   /\ \A i \in CycleReadings : readings[i].tariff = tariff)
  =>
    SumFunction([i \in CycleReadings |-> readings[i].cost])
      = PriceByKwh(tariff.blocks, 0, account.cycleEnergy)

(* All money is accounted for: what the customer started with and bought   *)
(* is what is left less the debt, or went for energy, for plan fees, or    *)
(* lapsed with a plan.  A plan price is credit moved to the plan wallet.   *)
MoneyAccounted ==
  account.credit + account.plan - account.debt
    + account.spent + account.fees + account.lapsed
  = InitialPurse.credit + InitialPurse.plan - InitialPurse.debt + bought

(* Only a running plan has a balance, and every running plan will expire.  *)
PlanBalanceRuns ==
  /\ account.running \/ account.plan = 0
  /\ account.running => account.expires # None

(* Billing leaves a prepaid meter that may not have a negative balance     *)
(* with none: no sequence of plan purchase, charge and debt payment takes  *)
(* its credit below zero, whatever the mode it was in before.              *)
PrepaidNeverOwes ==
  [][\A gap \in Gaps, delay \in Delays, kwh \in Kwhs :
       (ProcessReading(gap, delay, kwh) /\ mode = "auto" /\ ~AllowNegativeBalance)
         => account'.credit >= 0]_vars

(* A plan is paid for at most once per reading and never before the one    *)
(* before it is over, and the plan paid for is not already over.           *)
PlanPaidOnce ==
  [][account'.fees # account.fees =>
       /\ account'.fees = account.fees + tariff.fee
       /\ account.expires # None => last' >= account.expires
       /\ account'.expires > last']_vars

(* Under a tariff with a plan, no meter is on a plan that is over once a   *)
(* reading has been billed, and whoever can pay for the next one has it.   *)
PlanKeptUp ==
  [][(Len(readings') > Len(readings) /\ tariff.plan) =>
       /\ account'.running => account'.expires > last'
       /\ ~account'.running =>
            /\ account'.plan = 0
            /\ mode # "on"
            /\ mode = "auto" => account'.credit < tariff.price + tariff.fee]_vars

(* The low-balance event: a prepaid meter found at or below the threshold  *)
(* for the first time has one created; after that another is created only  *)
(* if a reading since the last one was above the threshold, and it is      *)
(* created if that reading was processed as it ended ("check if we have    *)
(* ever been above the low balance threshold since the last low balance    *)
(* event").  A reading processed late does not count: its heartbeat ended  *)
(* before the event it follows.                                            *)
LastNotified == Max({0} \cup {i \in DOMAIN readings : readings[i].notified})

AboveSinceNotified ==
  {i \in DOMAIN readings : i >= LastNotified /\ readings[i].total > tariff.threshold}

LowBalanceNoticed ==
  [][(Len(readings') > Len(readings) /\ mode = "auto"
        /\ Total(account') <= tariff.threshold) =>
       LET told == readings'[Len(readings')].notified
       IN  IF LastNotified = 0 THEN told
           ELSE /\ told => AboveSinceNotified # {}
                /\ (\E i \in AboveSinceNotified : readings[i].at = readings[i].end) => told]_vars
=============================================================================
