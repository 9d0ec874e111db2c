------------------------------ MODULE Tariffs ------------------------------
(***************************************************************************)
(* What a tariff says: the price of energy in blocks, the periods of the   *)
(* day, and when billing cycles and plans start.  Everything here is a     *)
(* pure function.                                                          *)
(*                                                                         *)
(* Time is an integer number of ticks; days have TicksPerDay of them and   *)
(* months DaysPerMonth days.  Energy is an integer number of kWh.  A       *)
(* period [start, end, value] is given in ticks after midnight, an end of  *)
(* 0 standing for the midnight that follows; a block [lower, upper, value] *)
(* in kWh, an upper of 0 standing for no limit.                            *)
(***************************************************************************)
EXTENDS Integers, FiniteSetsExt

CONSTANTS
  TicksPerDay,   \* resolution of the periods of the day
  DaysPerMonth,  \* months of equal length
  MaxValue       \* TariffBlockrate.MAX_VALUE

ASSUME TariffsAssumption ==
  /\ TicksPerDay \in Nat \ {0}
  /\ DaysPerMonth \in Nat \ {0}
  /\ MaxValue \in Nat \ {0}

IntervalsOverlap(x, y) == x[2] > y[1] /\ y[2] > x[1]

-----------------------------------------------------------------------------
(* Block rates.                                                            *)

(* The interval of b for validation, where no limit is MaxValue.           *)
BlockInterval(b) == <<b.lower, IF b.upper = 0 THEN MaxValue ELSE b.upper>>

ValidBlock(b) ==
  /\ b.lower >= 0 /\ b.upper >= 0 /\ b.value >= 0
  /\ BlockInterval(b)[1] < BlockInterval(b)[2]

(* Tariff.validate_blockrates                                              *)
ValidBlockrates(blocks) ==
  /\ blocks # {}
  /\ \A b \in blocks : ValidBlock(b)
  /\ \A b, c \in blocks :
       b # c => ~IntervalsOverlap(BlockInterval(b), BlockInterval(c))
  /\ \A n \in 0..(MaxValue - 1) :
       \E b \in blocks : BlockInterval(b)[1] <= n /\ n < BlockInterval(b)[2]

(* The upper end of b when it is compared with an interval ending at upper.*)
BlockTop(b, upper) == IF b.upper = 0 THEN upper ELSE b.upper

BlockOverlaps(b, lower, upper) ==
  IF lower = upper
  THEN b.lower < lower /\ lower <= BlockTop(b, upper)
  ELSE IntervalsOverlap(<<b.lower, BlockTop(b, upper)>>, <<lower, upper>>)

Multiplier(b, lower, upper) ==
  IF lower = upper
  THEN 1
  ELSE Min({BlockTop(b, upper), upper}) - Max({b.lower, lower})

(* A faulty AverageBlockRate: only the block of the first kWh counts.      *)
FirstBlockRate(blocks, lower, upper) ==
  [num |-> SumFunction([b \in {c \in blocks : BlockOverlaps(c, lower, lower + 1)} |->
                           b.value]),
   den |-> 1]

(* Tariff.get_average_block_rate, as a fraction.                           *)
AverageBlockRate(blocks, lower, upper) ==
  [num |-> SumFunction([b \in {c \in blocks : BlockOverlaps(c, lower, upper)} |->
                           b.value * Multiplier(b, lower, upper)]),
   den |-> IF lower = upper THEN 1 ELSE upper - lower]

(* The reference: each kWh has the price of the block it lies in.          *)
BlocksOfKwh(blocks, n) ==
  {b \in blocks : b.lower < n /\ (b.upper = 0 \/ n <= b.upper)}

PriceOfKwh(blocks, n) == SumFunction([b \in BlocksOfKwh(blocks, n) |-> b.value])

PriceByKwh(blocks, lower, upper) ==
  SumFunction([n \in (lower + 1)..upper |-> PriceOfKwh(blocks, n)])

(* The average rate times the energy is that price, and up to MaxValue     *)
(* every kWh has one.                                                      *)
PricedByKwh(blocks, lower, upper) ==
  /\ \A n \in (lower + 1)..Min({upper, MaxValue}) :
       Cardinality(BlocksOfKwh(blocks, n)) = 1
  /\ LET rate == AverageBlockRate(blocks, lower, upper)
     IN  rate.num * (upper - lower) = PriceByKwh(blocks, lower, upper) * rate.den

-----------------------------------------------------------------------------
(* Periods of the day.                                                     *)

(* _TariffPeriod.end_to_min_after_midnight                                 *)
EndAfterMidnight(p) == IF p.end = 0 THEN TicksPerDay ELSE p.end

ValidPeriod(p) == p.start # EndAfterMidnight(p) /\ p.value >= 0

(* The intervals validation compares: two for a period across midnight.    *)
PeriodIntervals(p) ==
  IF p.start > EndAfterMidnight(p)
  THEN {<<0, EndAfterMidnight(p)>>, <<p.start, TicksPerDay>>}
  ELSE {<<p.start, EndAfterMidnight(p)>>}

(* Tariff.validate_tous, and the same checks of validate_load_limits.      *)
ValidPeriods(ps) ==
  /\ ps # {}
  /\ \A p \in ps : ValidPeriod(p)
  /\ \A p, q \in ps : p # q =>
       \A x \in PeriodIntervals(p), y \in PeriodIntervals(q) : ~IntervalsOverlap(x, y)

(* A faulty PeriodsAt: the hour a period ends at belongs to it.            *)
PeriodsAtInclusive(ps, hour) ==
  {p \in ps : IF EndAfterMidnight(p) > p.start
              THEN p.start <= hour /\ hour <= EndAfterMidnight(p)
              ELSE p.start <= hour \/ hour <= EndAfterMidnight(p)}

(* find_period: the periods of which it returns the first.                 *)
PeriodsAt(ps, hour) ==
  {p \in ps : IF EndAfterMidnight(p) > p.start
              THEN p.start <= hour /\ hour < EndAfterMidnight(p)
              ELSE p.start <= hour \/ hour < EndAfterMidnight(p)}

(* A faulty SupersetOf: no part of a period may follow a midnight.         *)
SupersetOfToday(p, from, to) ==
  LET today == from - (from % TicksPerDay)
  IN  today + p.start <= from /\ to <= today + p.end

(* _TariffPeriod.superset_of: whether the period p of some day covers the  *)
(* time between two heartbeats.                                            *)
SupersetOf(p, from, to) ==
  LET before == from - (from % TicksPerDay)
      after  == before + TicksPerDay
      start  == before + p.start
      end    == before + p.end
      back   == IF to > after THEN to - TicksPerDay ELSE to
  IN  IF p.start < p.end
      THEN start <= from /\ from < end /\ start < to /\ to <= end
      ELSE \/ before <= from /\ from < end   /\ before < back /\ back <= end
           \/ start  <= from /\ from < after /\ start  < back /\ back <= after
           \/ start  <= from /\ from < after /\ before < back /\ back <= end

(* The reference: every tick between the heartbeats lies in the period.    *)
Covers(p, from, to) ==
  \A t \in from..(to - 1) : p \in PeriodsAt({p}, t % TicksPerDay)

-----------------------------------------------------------------------------
(* Billing cycles and plans.                                               *)

TicksPerMonth == TicksPerDay * DaysPerMonth

(* Tariff._get_cycle_start_date, for the month of the time t.              *)
CycleStartDate(tariff, t) ==
  (t - (t % TicksPerMonth)) + (tariff.startDay - 1) * TicksPerDay

LastCycleStart(tariff, t) ==
  LET start == CycleStartDate(tariff, t)
  IN  IF t >= start THEN start ELSE start - TicksPerMonth

NextCycleStart(tariff, t) ==
  LET start == CycleStartDate(tariff, t)
  IN  IF tariff.daily THEN t + TicksPerDay
      ELSE IF t < start THEN start ELSE start + TicksPerMonth
=============================================================================
