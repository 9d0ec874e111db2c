----------------------------- MODULE TariffUse -----------------------------
(***************************************************************************)
(* The readings of one meter under one tariff, each starting where the     *)
(* last one ended, in time and in energy: the use CalculateBilling makes   *)
(* of the block rates and periods of the module Tariffs.                   *)
(***************************************************************************)
EXTENDS Tariffs

CONSTANTS
  Proposals,    \* the [periods, blocks] with which a tariff is made
  Heartbeats,   \* the times between two heartbeats
  Amounts,      \* the kWh a reading may add
  MaxEnergy     \* bound on the energy of a cycle

ASSUME TariffUseAssumption ==
  /\ Heartbeats \subseteq Nat \ {0}
  /\ Amounts \subseteq Nat
  /\ MaxEnergy \in Nat
  /\ \A t \in Proposals :
       /\ \A p \in t.periods : {p.start, p.end} \subseteq 0..(TicksPerDay - 1)
       /\ t.blocks \subseteq [lower : Nat, upper : Nat, value : Nat]
       /\ IsFiniteSet(t.blocks)

VARIABLES
  tariffRow,    \* its periods (tariff.tous, or tariff.load_limits) and blocks
  metered       \* the reading: last_energy_datetime and heartbeat_end, and
                \* total_cycle_energy before and after it

useVars == <<tariffRow, metered>>

UseInit ==
  /\ tariffRow \in {t \in Proposals : ValidPeriods(t.periods) /\ ValidBlockrates(t.blocks)}
  /\ \E gap \in Heartbeats, kwh \in Amounts :
       metered = [from |-> 0, to |-> gap, lower |-> 0, upper |-> kwh]

(* The next reading; the days before it are forgotten.  Its cycle is that  *)
(* of the last reading or a new one.                                       *)
Reading(gap, kwh, start) ==
  LET from == metered.to % TicksPerDay IN
  /\ start + kwh <= MaxEnergy
  /\ metered' = [from |-> from, to |-> from + gap, lower |-> start, upper |-> start + kwh]
  /\ UNCHANGED tariffRow

UseNext ==
  \E gap \in Heartbeats, kwh \in Amounts, start \in {0, metered.upper} :
    Reading(gap, kwh, start)

UseSpec == UseInit /\ [][UseNext]_useVars

-----------------------------------------------------------------------------
(* What a reading costs on a block tariff is what its kWh cost one by one, *)
(* wherever the readings of a cycle happen to be cut and whichever blocks  *)
(* they reach into, and validation leaves exactly one block for each kWh   *)
(* up to MaxValue.  get_average_block_rate gives the average price, which  *)
(* billing multiplies by the energy.                                       *)
BlocksPricedByKwh ==
  metered.lower < metered.upper =>
    PricedByKwh(tariffRow.blocks, metered.lower, metered.upper)

(* How long the period p is not on each day.                               *)
TimeOutside(p) == (p.start - EndAfterMidnight(p)) % TicksPerDay

(* A time-of-use price applies to every reading whose whole time lies in   *)
(* the period, across midnights too, and only to those ("current rules     *)
(* only applies a TOU if both the time between the last energy reading and *)
(* the actual one is within a TOU period", billing.py), unless the reading *)
(* is longer than the time the period leaves out: superset_of then takes   *)
(* 22:00-02:00 to lie in 01:00-00:00.  A reading of more than a day may    *)
(* have no price: superset_of looks across one midnight only.              *)
TouCoversReading ==
  LET from == metered.from
      to   == metered.to IN
  \A p \in tariffRow.periods :
    /\ Covers(p, from, to) /\ to - from <= TicksPerDay => SupersetOf(p, from, to)
    /\ (SupersetOf(p, from, to) /\ to - from <= TimeOutside(p)) => Covers(p, from, to)

(* The hours at which find_period, reading the hours of the day, finds a   *)
(* period are those that validation, reckoning in minutes after midnight,  *)
(* took it to have, so that in a tariff that passed validation the first   *)
(* period it meets is the only one that applies.                           *)
OnePeriodPerHour ==
  \A hour \in 0..(TicksPerDay - 1) :
    /\ PeriodsAt(tariffRow.periods, hour) =
         {p \in tariffRow.periods : \E x \in PeriodIntervals(p) : x[1] <= hour /\ hour < x[2]}
    /\ Cardinality(PeriodsAt(tariffRow.periods, hour)) <= 1
=============================================================================
