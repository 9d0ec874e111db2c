----------------------------- MODULE MeterState -----------------------------
(***************************************************************************)
(* What a customer meter should be told: the decision on its relay and its *)
(* power limit, taken from the rows of the meter, its tariff and the       *)
(* ground and from the hour, and when the code finds it worth a command.   *)
(*                                                                         *)
(* A row stands for meter, meter_config, meter_billing, meter_system_info  *)
(* and the wallets of one meter: its mode, whether there is money in the   *)
(* credit or the plan wallet, whether its plan runs, the energy used since *)
(* the last daily reset (None without a daily limit at the last reading),  *)
(* its tariff, whether it is hidden, and what its last reading said of the *)
(* relay and the limit.  The terms of a tariff are what these decisions    *)
(* take from its row: the load limit of every hour, the same in all of     *)
(* them unless the limits are scheduled, whether it has a plan, and its    *)
(* daily energy limit or None.                                             *)
(***************************************************************************)
EXTENDS Integers

CONSTANTS
  Nodes,           \* the customer meters that exist at some time
  Tariffs,
  Hours,           \* the parts of the day with load limits of their own
  Rating,          \* continuous_current_limit of the model of the meters
  Powers,          \* the load limits a tariff may get
  Caps, Uses,      \* the daily energy limits, the energy used in a day
  Voltages,        \* the values of nominal-voltage
  Broadest,        \* 65535, the limit that limits nothing
  None

ASSUME MeterAssumption ==
  /\ Rating \in Nat /\ Powers \subseteq Nat /\ Voltages \subseteq Nat
  /\ Broadest \in Nat /\ Caps \subseteq Nat /\ Uses \subseteq Nat
  /\ None \notin Nat /\ None \notin BOOLEAN

Modes == {"on", "off", "auto"}

Limits == {Broadest} \cup Powers \cup {Rating * v : v \in Voltages}

(* Of the relay and the limit: what is commanded, or read.                 *)
Setting == [on : BOOLEAN, limit : Limits]

Row ==
  [mode : Modes, funded : BOOLEAN, running : BOOLEAN, used : {None} \cup Uses,
   tariff : Tariffs, hidden : BOOLEAN, known : {None} \cup Setting]

Terms == [limits : [Hours -> Powers], planned : BOOLEAN, cap : {None} \cup Caps]

ASSUME NoneAssumption == None \notin Row /\ None \notin Setting /\ None \notin Terms

(* The committed rows a command depends on, and the hour.                  *)
Database ==
  [rows : [Nodes -> {None} \cup Row], override : BOOLEAN,
   tariffs : [Tariffs -> Terms], voltage : Voltages, hour : Hours]

(* Should the relay be closed, but for an override?                        *)
StateValue(d, r) ==
  \/ r.mode = "on"
  \/ /\ r.mode = "auto"
     /\ d.tariffs[r.tariff].planned => r.running
     /\ r.funded
     /\ \/ d.tariffs[r.tariff].cap = None \/ r.used = None
        \/ r.used < d.tariffs[r.tariff].cap

(* get_current_load_limit of a tariff.                                     *)
LoadLimit(d, t) == d.tariffs[t].limits[d.hour]

PowerLimit(d, r) ==
  IF Rating * d.voltage < LoadLimit(d, r.tariff) THEN Rating * d.voltage
                                                 ELSE LoadLimit(d, r.tariff)

(* The set-config that the rows d ask for, for the meter of row r.         *)
Command(d, r) == [on |-> StateValue(d, r) /\ ~d.override, limit |-> PowerLimit(d, r)]

(* Is a command worth sending, by what the last reading said?              *)
NeedsUpdate(d, r) ==
  \/ r.known = None
  \/ d.override /\ r.known.on
  \/ /\ ~d.override
     /\ r.known.limit # PowerLimit(d, r) \/ r.known.on # StateValue(d, r)

(* Do two settings amount to the same: the limit of a meter that is off    *)
(* does not matter.                                                        *)
Agree(c, d) == c.on = d.on /\ (c.on => c.limit = d.limit)
=============================================================================
