--------------------------- MODULE BillingProofs ---------------------------
(***************************************************************************)
(* Proofs about Billing, for all tariffs, modes, balances and readings:    *)
(*                                                                         *)
(*   BlocksArePriced     PricedByKwh, for valid block rates                *)
(*   TypeCorrect         Spec => []TypeOK                                  *)
(*   AllMoneyAccounted   Spec => []MoneyAccounted                          *)
(*   OnlyRunningPlans    Spec => []PlanBalanceRuns                         *)
(*   CycleIsCounted      Spec => []CycleEnergyCounted                      *)
(*   CycleIsPriced       Spec => []CyclePricedByBlocks                     *)
(*   PrepaidStaysPaid    Spec => PrepaidNeverOwes                          *)
(*   PlansPaidOnce       Spec => PlanPaidOnce                              *)
(*   PlansKeptUp         Spec => PlanKeptUp                                *)
(*   LowBalanceIsNoticed Spec => LowBalanceNoticed                         *)
(*                                                                         *)
(* and about TariffUse, for all valid tariffs and all readings:            *)
(*                                                                         *)
(*   EveryKwhIsPriced         UseSpec => []BlocksPricedByKwh               *)
(*   TouAppliesWhereItCovers  UseSpec => []TouCoversReading                *)
(*   LimitsAreUnique          UseSpec => []OnePeriodPerHour                *)
(*                                                                         *)
(* AccountInv is inductive by itself.  Its last part says that the cycle   *)
(* and the plan have been renewed up to the last reading, without which a  *)
(* reading could be charged to a plan that was over before it.  The energy *)
(* of a cycle is the sum over its readings only if these are in order      *)
(* (ReadingsInOrder).  Its price is that of the blocks under the tariff of *)
(* the moment only if that was so under any tariff that all the readings   *)
(* of the cycle have had (CyclePrices), since the tariff may be changed    *)
(* and changed back.  What the next low balance does follows from which    *)
(* reading had the last event created (NoticeTold).                        *)
(***************************************************************************)
EXTENDS Billing, TariffUse, Sums, SequenceTheorems

-----------------------------------------------------------------------------
(* Energy in blocks: the part of each block that a reading reaches into.   *)

LEMMA MaxOfTwo ==
  ASSUME NEW x \in Int, NEW y \in Int
  PROVE  Max({x, y}) = IF x < y THEN y ELSE x
BY DEF Max

LEMMA MinOfTwo ==
  ASSUME NEW x \in Int, NEW y \in Int
  PROVE  Min({x, y}) = IF x < y THEN x ELSE y
BY DEF Min

Block == [lower : Nat, upper : Nat, value : Nat]

LEMMA MultiplierNat ==
  ASSUME NEW b \in Block, ValidBlock(b), NEW lower \in Nat, NEW upper \in Nat,
         lower <= upper, BlockOverlaps(b, lower, upper)
  PROVE  Multiplier(b, lower, upper) \in Nat
<1>1. BlockTop(b, upper) \in Nat /\ b.lower \in Nat
  BY DEF BlockTop, Block
<1>2. CASE lower = upper
  BY <1>2 DEF Multiplier
<1>3. CASE lower # upper
  <2>1. Multiplier(b, lower, upper)
          = (IF BlockTop(b, upper) < upper THEN BlockTop(b, upper) ELSE upper)
              - (IF b.lower < lower THEN lower ELSE b.lower)
    BY <1>1, <1>3, MinOfTwo, MaxOfTwo DEF Multiplier
  <2>2. BlockTop(b, upper) > lower /\ upper > b.lower
    BY <1>3 DEF BlockOverlaps, IntervalsOverlap
  <2>3. b.lower < BlockTop(b, upper)
    BY <1>1, <2>2 DEF ValidBlock, BlockInterval, BlockTop, Block
  <2> QED BY <1>1, <2>1, <2>2, <2>3
<1> QED BY <1>2, <1>3

LEMMA DivisionNat ==
  ASSUME NEW x \in Nat, NEW y \in Nat \ {0}
  PROVE  x \div y \in Nat
OBVIOUS

LEMMA WholeDivision ==
  ASSUME NEW x \in Nat, NEW y \in Nat \ {0}
  PROVE  (x * y) \div y = x
OBVIOUS

LEMMA ProductNat ==
  ASSUME NEW x \in Nat, NEW y \in Nat
  PROVE  x * y \in Nat
OBVIOUS

(* How many of the kWh lower + 1, ..., upper lie in the block b.           *)
Share(b, lower, upper) ==
  Most(0, Least(BlockTop(b, upper), upper) - Most(b.lower, lower))

SharedPrice(blocks, lower, upper) ==
  SumFunctionOnSet([b \in blocks |-> b.value * Share(b, lower, upper)], blocks)

LEMMA ShareType ==
  ASSUME NEW b \in Block, NEW lower \in Nat, NEW upper \in Nat
  PROVE  Share(b, lower, upper) \in Nat /\ b.value * Share(b, lower, upper) \in Nat
<1>1. Share(b, lower, upper) \in Nat
  BY DEF Share, Most, Least, BlockTop, Block
<1>2. b.value \in Nat
  BY DEF Block
<1> QED BY <1>1, <1>2, ProductNat

LEMMA OverlapIsShare ==
  ASSUME NEW b \in Block, ValidBlock(b), NEW lower \in Nat, NEW upper \in Nat, lower < upper
  PROVE  IF BlockOverlaps(b, lower, upper)
         THEN Multiplier(b, lower, upper) = Share(b, lower, upper)
         ELSE Share(b, lower, upper) = 0
<1>1. BlockTop(b, upper) \in Nat /\ b.lower \in Nat
  BY DEF BlockTop, Block
<1>2. CASE BlockOverlaps(b, lower, upper)
  <2>1. Multiplier(b, lower, upper) \in Nat
    BY <1>2, MultiplierNat
  <2>2. Multiplier(b, lower, upper)
          = Least(BlockTop(b, upper), upper) - Most(b.lower, lower)
    BY <1>1, MinOfTwo, MaxOfTwo DEF Multiplier, Least, Most
  <2> QED BY <1>1, <1>2, <2>1, <2>2 DEF Share, Most, Least
<1>3. CASE ~BlockOverlaps(b, lower, upper)
  <2>1. BlockTop(b, upper) <= lower \/ upper <= b.lower
    BY <1>1, <1>3 DEF BlockOverlaps, IntervalsOverlap
  <2> QED BY <1>1, <1>3, <2>1 DEF Share, Most, Least
<1> QED BY <1>2, <1>3

(* get_average_block_rate, times the energy it is the average of.          *)
LEMMA RateIsSharedPrice ==
  ASSUME NEW blocks \in SUBSET Block, IsFiniteSet(blocks), \A b \in blocks : ValidBlock(b),
         NEW lower \in Nat, NEW upper \in Nat, lower < upper
  PROVE  /\ AverageBlockRate(blocks, lower, upper).num = SharedPrice(blocks, lower, upper)
         /\ AverageBlockRate(blocks, lower, upper).den = upper - lower
<1> DEFINE T == {b \in blocks : BlockOverlaps(b, lower, upper)}
           F == [b \in T |-> b.value * Multiplier(b, lower, upper)]
           G == [b \in blocks |-> b.value * Share(b, lower, upper)]
<1>1. /\ AverageBlockRate(blocks, lower, upper).num = SumFunctionOnSet(F, T)
      /\ AverageBlockRate(blocks, lower, upper).den = upper - lower
  BY DEF AverageBlockRate, SumFunction
<1>2. IsFiniteSet(T) /\ T \in SUBSET blocks
  BY FS_Subset
<1>3. \A b \in T : F[b] = G[b]
  BY OverlapIsShare
<1>4. \A b \in blocks : G[b] \in Int
  BY ShareType
<1>5. \A b \in blocks \ T : G[b] = 0
  <2>1. ASSUME NEW b \in blocks \ T PROVE Share(b, lower, upper) = 0 /\ b.value \in Nat
    BY OverlapIsShare DEF Block
  <2> QED BY <2>1
<1>6. SumFunctionOnSet(F, T) = SumFunctionOnSet(G, blocks)
  <2> HIDE DEF T, F, G
  <2> QED BY <1>2, <1>3, <1>4, <1>5, SumSame, SumFilter
<1> QED BY <1>1, <1>6 DEF SharedPrice

(* A kWh costs what the blocks with a share in it say.                     *)
LEMMA PriceIsSharedPrice ==
  ASSUME NEW blocks \in SUBSET Block, IsFiniteSet(blocks), NEW n \in Nat
  PROVE  PriceOfKwh(blocks, n + 1) = SharedPrice(blocks, n, n + 1)
<1> DEFINE T == BlocksOfKwh(blocks, n + 1)
           F == [b \in T |-> b.value]
           G == [b \in blocks |-> b.value * Share(b, n, n + 1)]
<1>1. PriceOfKwh(blocks, n + 1) = SumFunctionOnSet(F, T)
  BY DEF PriceOfKwh, SumFunction
<1>2. IsFiniteSet(T) /\ T \in SUBSET blocks
  BY FS_Subset DEF BlocksOfKwh
<1>3. ASSUME NEW b \in blocks
      PROVE  Share(b, n, n + 1) = (IF b \in T THEN 1 ELSE 0) /\ b.value \in Nat
  <2>1. b.lower \in Nat /\ b.upper \in Nat /\ b.value \in Nat
    BY DEF Block
  <2>2. (b \in T) <=> (b.lower < n + 1 /\ (b.upper = 0 \/ n + 1 <= b.upper))
    BY DEF BlocksOfKwh
  <2> QED BY <2>1, <2>2 DEF Share, Most, Least, BlockTop
<1>4. \A b \in T : F[b] = G[b]
  BY <1>2, <1>3
<1>5. \A b \in blocks : G[b] \in Int
  <2>1. n + 1 \in Nat
    OBVIOUS
  <2>2. \A b \in blocks : b.value * Share(b, n, n + 1) \in Nat
    BY <2>1, ShareType
  <2> QED BY <2>2
<1>6. \A b \in blocks \ T : G[b] = 0
  BY <1>3
<1>7. SumFunctionOnSet(F, T) = SumFunctionOnSet(G, blocks)
  <2> HIDE DEF T, F, G
  <2> QED BY <1>2, <1>4, <1>5, <1>6, SumSame, SumFilter
<1> QED BY <1>1, <1>7 DEF SharedPrice

LEMMA ShareAdds ==
  ASSUME NEW b \in Block, ValidBlock(b), NEW lower \in Nat, NEW middle \in Nat, NEW upper \in Nat,
         lower <= middle, middle <= upper
  PROVE  Share(b, lower, upper) = Share(b, lower, middle) + Share(b, middle, upper)
<1>1. b.lower \in Nat /\ b.upper \in Nat
  BY DEF Block
<1>2. CASE b.upper = 0
  BY <1>1, <1>2 DEF Share, Most, Least, BlockTop
<1>3. CASE b.upper # 0
  <2>1. b.lower < b.upper
    BY <1>1, <1>3 DEF ValidBlock, BlockInterval
  <2> QED BY <1>1, <1>3, <2>1 DEF Share, Most, Least, BlockTop
<1> QED BY <1>2, <1>3

LEMMA SharedPriceAdds ==
  ASSUME NEW blocks \in SUBSET Block, IsFiniteSet(blocks), \A b \in blocks : ValidBlock(b),
         NEW lower \in Nat, NEW middle \in Nat, NEW upper \in Nat,
         lower <= middle, middle <= upper
  PROVE  SharedPrice(blocks, lower, upper)
           = SharedPrice(blocks, lower, middle) + SharedPrice(blocks, middle, upper)
<1> DEFINE F == [b \in blocks |-> b.value * Share(b, lower, middle)]
           G == [b \in blocks |-> b.value * Share(b, middle, upper)]
           H == [b \in blocks |-> b.value * Share(b, lower, upper)]
<1>1. ASSUME NEW b \in blocks
      PROVE  F[b] \in Int /\ G[b] \in Int /\ H[b] = F[b] + G[b]
  <2>1. F[b] \in Int /\ G[b] \in Int
    BY ShareType
  <2>2. /\ Share(b, lower, upper) = Share(b, lower, middle) + Share(b, middle, upper)
        /\ Share(b, lower, middle) \in Nat /\ Share(b, middle, upper) \in Nat
    BY ShareAdds, ShareType
  <2>3. b.value \in Nat
    BY DEF Block
  <2>4. b.value * (Share(b, lower, middle) + Share(b, middle, upper))
          = b.value * Share(b, lower, middle) + b.value * Share(b, middle, upper)
    BY <2>2, <2>3
  <2> QED BY <2>1, <2>2, <2>4
<1>2. SumFunctionOnSet(H, blocks) = SumFunctionOnSet(F, blocks) + SumFunctionOnSet(G, blocks)
  <2> HIDE DEF F, G, H
  <2> QED BY <1>1, SumPlus
<1> QED BY <1>2 DEF SharedPrice

LEMMA SharedPriceNat ==
  ASSUME NEW blocks \in SUBSET Block, IsFiniteSet(blocks), NEW lower \in Nat, NEW upper \in Nat
  PROVE  SharedPrice(blocks, lower, upper) \in Nat
<1> DEFINE F == [b \in blocks |-> b.value * Share(b, lower, upper)]
<1>1. \A b \in blocks : F[b] \in Nat
  BY ShareType
<1>2. SumFunctionOnSet(F, blocks) \in Nat
  <2> HIDE DEF F
  <2> QED BY <1>1, SumNat
<1> QED BY <1>2 DEF SharedPrice

LEMMA SharedPriceNone ==
  ASSUME NEW blocks \in SUBSET Block, IsFiniteSet(blocks), \A b \in blocks : ValidBlock(b),
         NEW n \in Nat
  PROVE  SharedPrice(blocks, n, n) = 0
<1>1. SharedPrice(blocks, n, n) = SharedPrice(blocks, n, n) + SharedPrice(blocks, n, n)
  BY SharedPriceAdds
<1>2. SharedPrice(blocks, n, n) \in Nat
  BY SharedPriceNat
<1> DEFINE x == SharedPrice(blocks, n, n)
<1>3. x = x + x /\ x \in Nat
  BY <1>1, <1>2
<1> HIDE DEF x
<1>4. x = 0
  BY <1>3
<1> QED BY <1>4 DEF x

(* The price of a cycle's energy kWh by kWh, as shares.                    *)
LEMMA PriceByShares ==
  ASSUME NEW blocks \in SUBSET Block, IsFiniteSet(blocks), \A b \in blocks : ValidBlock(b),
         NEW lower \in Nat, NEW upper \in Nat, lower <= upper
  PROVE  PriceByKwh(blocks, lower, upper) = SharedPrice(blocks, lower, upper)
<1> DEFINE P(n) == [k \in (lower + 1)..n |-> PriceOfKwh(blocks, k)]
           Bad == {n \in Nat : lower <= n
                     /\ PriceByKwh(blocks, lower, n) # SharedPrice(blocks, lower, n)}
<1>1. SUFFICES ASSUME Bad # {} PROVE FALSE
  BY <1>1
<1>2. PICK n \in Bad : \A m \in Bad : n <= m
  <2>1. Bad \in SUBSET Nat
    OBVIOUS
  <2> HIDE DEF Bad
  <2> QED BY <1>1, <2>1, SmallestNumber
<1>3. \A k \in Nat : PriceByKwh(blocks, lower, k) = SumFunctionOnSet(P(k), (lower + 1)..k)
  BY DEF PriceByKwh, SumFunction
<1>4. \A k \in Nat : lower < k => PriceOfKwh(blocks, k) \in Nat
  <2>1. ASSUME NEW k \in Nat, lower < k
        PROVE  PriceOfKwh(blocks, k) \in Nat
    <3>1. k - 1 \in Nat /\ k = (k - 1) + 1
      BY <2>1
    <3>2. PriceOfKwh(blocks, k) = SharedPrice(blocks, k - 1, k)
      BY <3>1, PriceIsSharedPrice
    <3> QED BY <3>1, <3>2, SharedPriceNat
  <2> QED BY <2>1
<1>5. CASE n = lower
  <2>1. (lower + 1)..lower = {}
    OBVIOUS
  <2>2. PriceByKwh(blocks, lower, lower) = 0
    BY <1>3, <2>1, SumEmpty
  <2>3. SharedPrice(blocks, lower, lower) = 0
    BY SharedPriceNone
  <2> QED BY <1>2, <1>5, <2>2, <2>3
<1>6. CASE n # lower
  <2> DEFINE m == n - 1
  <2>1. m \in Nat /\ n = m + 1 /\ lower <= m
    BY <1>2, <1>6
  <2>2. PriceByKwh(blocks, lower, m) = SharedPrice(blocks, lower, m)
    <3>1. m \notin Bad
      BY <1>2, <2>1
    <3> QED BY <2>1, <3>1
  <2>3. PriceByKwh(blocks, lower, n) = PriceByKwh(blocks, lower, m) + PriceOfKwh(blocks, n)
    <3> DEFINE S == (lower + 1)..m
    <3>1. (lower + 1)..n = S \cup {n} /\ n \notin S /\ IsFiniteSet(S) /\ IsFiniteSet(S \cup {n})
      <4>1. (lower + 1)..n = S \cup {n} /\ n \notin S
        BY <2>1
      <4>2. IsFiniteSet(S)
        BY <2>1, FS_Interval
      <4>3. IsFiniteSet(S \cup {n})
        <5> HIDE DEF S
        <5> QED BY <4>2, FS_AddElement
      <4> QED BY <4>1, <4>2, <4>3
    <3>2. \A k \in S \cup {n} : P(n)[k] = PriceOfKwh(blocks, k) /\ k \in Nat /\ lower < k
      BY <2>1
    <3>3. \A k \in S \cup {n} : P(n)[k] \in Int
      BY <1>4, <3>2
    <3>4. SumFunctionOnSet(P(n), S \cup {n}) = SumFunctionOnSet(P(n), S) + P(n)[n]
      <4> HIDE DEF P, S, m
      <4> QED BY <3>1, <3>3, SumAdd
    <3>5. \A k \in S : P(n)[k] = P(m)[k]
      BY <2>1
    <3>6. SumFunctionOnSet(P(n), S) = SumFunctionOnSet(P(m), S)
      <4> HIDE DEF P, S, m
      <4> QED BY <3>1, <3>5, SumSame
    <3>7. P(n)[n] = PriceOfKwh(blocks, n)
      BY <3>2
    <3>8. /\ PriceByKwh(blocks, lower, n) = SumFunctionOnSet(P(n), S \cup {n})
          /\ PriceByKwh(blocks, lower, m) = SumFunctionOnSet(P(m), S)
      <4> HIDE DEF P
      <4> QED BY <1>3, <2>1, <3>1
    <3> QED BY <3>4, <3>6, <3>7, <3>8
  <2>4. PriceOfKwh(blocks, n) = SharedPrice(blocks, m, n)
    BY <2>1, PriceIsSharedPrice
  <2>5. SharedPrice(blocks, lower, n) = SharedPrice(blocks, lower, m) + SharedPrice(blocks, m, n)
    BY <2>1, SharedPriceAdds
  <2> QED BY <1>2, <2>2, <2>3, <2>4, <2>5
<1> QED BY <1>5, <1>6

(* get_average_block_rate times the energy is the price of the kWh one by  *)
(* one, wherever a reading starts and ends and whichever blocks it reaches *)
(* into; and after validate_blockrates every kWh up to MaxValue has one    *)
(* block.                                                                  *)
THEOREM BlocksArePriced ==
  ASSUME NEW blocks \in SUBSET Block, IsFiniteSet(blocks), ValidBlockrates(blocks),
         NEW lower \in Nat, NEW upper \in Nat, lower < upper
  PROVE  PricedByKwh(blocks, lower, upper)
<1>1. \A b \in blocks : ValidBlock(b) /\ b.lower \in Nat /\ b.upper \in Nat
  BY DEF ValidBlockrates, Block
<1>2. ASSUME NEW n \in (lower + 1)..Min({upper, MaxValue})
      PROVE  Cardinality(BlocksOfKwh(blocks, n)) = 1
  <2>1. MaxValue \in Nat
    BY TariffsAssumption
  <2>2. n \in Nat /\ 1 <= n /\ n <= MaxValue
    BY <2>1, MinOfTwo
  <2>3. PICK b \in blocks : BlockInterval(b)[1] <= n - 1 /\ n - 1 < BlockInterval(b)[2]
    BY <2>1, <2>2 DEF ValidBlockrates
  <2>4. b \in BlocksOfKwh(blocks, n)
    BY <1>1, <2>1, <2>2, <2>3 DEF BlocksOfKwh, BlockInterval
  <2>5. ASSUME NEW c \in BlocksOfKwh(blocks, n) PROVE c = b
    <3>1. c \in blocks
      BY DEF BlocksOfKwh
    <3>2. IntervalsOverlap(BlockInterval(b), BlockInterval(c))
      BY <1>1, <2>1, <2>2, <2>4, <3>1 DEF BlocksOfKwh, BlockInterval, IntervalsOverlap
    <3> QED BY <3>1, <3>2 DEF ValidBlockrates
  <2>6. BlocksOfKwh(blocks, n) = {b}
    BY <2>4, <2>5
  <2> QED BY <2>6, FS_Singleton
<1>3. AverageBlockRate(blocks, lower, upper).num = PriceByKwh(blocks, lower, upper)
  BY <1>1, RateIsSharedPrice, PriceByShares
<1>4. AverageBlockRate(blocks, lower, upper).den = upper - lower
  BY <1>1, RateIsSharedPrice
<1> QED BY <1>2, <1>3, <1>4 DEF PricedByKwh

-----------------------------------------------------------------------------
(* What the steps of calculate do to an account.                           *)

PurseType == [credit : Int, debt : Nat, plan : Nat]

(* Credit and plan less debt, and where the rest went.                     *)
Balance(a) == a.credit + a.plan - a.debt + a.spent + a.fees + a.lapsed

(* Only a running plan has a balance, and every running plan will expire.  *)
PlanRuns(a) ==
  /\ a.running \/ a.plan = 0
  /\ a.running => a.expires # None

LEMMA DeductionBound ==
  ASSUME NEW charge \in Int, NEW value \in Int, NEW debt \in Nat
  PROVE  /\ Deduction(charge, value, debt) \in Nat
         /\ Deduction(charge, value, debt) <= debt
         /\ value >= 0 => Deduction(charge, value, debt) <= value
         /\ value < 0 => Deduction(charge, value, debt) = 0
BY DEF Deduction, Most, Least

LEMMA PayReadingResult ==
  ASSUME NEW auto \in BOOLEAN, NEW b \in PurseType, NEW cost \in Nat
  PROVE  LET paid == PayReading(auto, b, cost)
         IN  /\ paid \in PurseType
             /\ paid.credit + paid.plan - paid.debt = b.credit + b.plan - b.debt - cost
             /\ paid.plan <= b.plan
             /\ auto /\ ~AllowNegativeBalance => paid.credit >= 0
BY DEF PayReading, PurseType, Least, Converts

LEMMA PayOffDebtResult ==
  ASSUME NEW b \in PurseType, NEW cost \in Nat
  PROVE  LET paid == PayOffDebt(b, cost)
         IN  /\ paid \in PurseType
             /\ paid.credit + paid.plan - paid.debt = b.credit + b.plan - b.debt
             /\ paid.plan <= b.plan
             /\ b.credit >= 0 => paid.credit >= 0
<1> DEFINE charge == (cost * DebtPaybackPercent) \div 100
           fromPlan == Deduction(charge, b.plan, b.debt)
           fromCred == Deduction(charge - fromPlan, b.credit, b.debt - fromPlan)
<1>1. charge \in Nat
  <2>1. cost * DebtPaybackPercent \in Nat
    BY ChargesAssumption, ProductNat
  <2> QED BY <2>1, DivisionNat
<1>2. b.plan \in Nat /\ b.credit \in Int /\ b.debt \in Nat
  BY DEF PurseType
<1>3. fromPlan \in Nat /\ fromPlan <= b.debt /\ fromPlan <= b.plan
  <2>1. charge \in Int /\ b.plan \in Int /\ b.plan >= 0
    BY <1>1, <1>2
  <2> HIDE DEF charge
  <2> QED BY <1>2, <2>1, DeductionBound
<1>4. /\ fromCred \in Nat /\ fromCred <= b.debt - fromPlan
      /\ b.credit >= 0 => fromCred <= b.credit
  <2>1. charge - fromPlan \in Int /\ b.debt - fromPlan \in Nat
    <3> HIDE DEF charge, fromPlan
    <3> QED BY <1>1, <1>2, <1>3
  <2> HIDE DEF charge, fromPlan
  <2> QED BY <1>2, <2>1, DeductionBound
<1>5. PayOffDebt(b, cost) = [plan |-> b.plan - fromPlan, credit |-> b.credit - fromCred,
                             debt |-> b.debt - fromPlan - fromCred]
  BY DEF PayOffDebt
<1> HIDE DEF charge, fromPlan, fromCred
<1> QED BY <1>2, <1>3, <1>4, <1>5 DEF PurseType

LEMMA BilledResult ==
  ASSUME NEW auto \in BOOLEAN, NEW b \in PurseType, NEW cost \in Nat
  PROVE  LET paid == Billed(auto, b, cost)
         IN  /\ paid \in PurseType
             /\ paid.credit + paid.plan - paid.debt = b.credit + b.plan - b.debt - cost
             /\ paid.plan <= b.plan
             /\ auto /\ ~AllowNegativeBalance => paid.credit >= 0
<1> DEFINE paid == PayReading(auto, b, cost)
<1>1. /\ paid \in PurseType
      /\ paid.credit + paid.plan - paid.debt = b.credit + b.plan - b.debt - cost
      /\ paid.plan <= b.plan
      /\ auto /\ ~AllowNegativeBalance => paid.credit >= 0
  BY PayReadingResult
<1>2. Billed(auto, b, cost) = IF paid.debt > 0 THEN PayOffDebt(paid, cost) ELSE paid
  BY DEF Billed
<1> HIDE DEF paid
<1>3. CASE paid.debt > 0
  <2> DEFINE off == PayOffDebt(paid, cost)
  <2>1. /\ off \in PurseType
        /\ off.credit + off.plan - off.debt = paid.credit + paid.plan - paid.debt
        /\ off.plan <= paid.plan
        /\ paid.credit >= 0 => off.credit >= 0
    BY <1>1, PayOffDebtResult
  <2>2. Billed(auto, b, cost) = off
    BY <1>2, <1>3
  <2> HIDE DEF off
  <2>3. off.plan \in Int /\ paid.plan \in Int /\ b.plan \in Int
    BY <1>1, <2>1 DEF PurseType
  <2> QED BY <1>1, <2>1, <2>2, <2>3
<1>4. CASE ~(paid.debt > 0)
  BY <1>1, <1>2, <1>4
<1> QED BY <1>3, <1>4

-----------------------------------------------------------------------------

LEMMA NextStart ==
  ASSUME NEW t \in Nat, tariff \in Tariff
  PROVE  NextCycleStart(tariff, t) \in Int /\ NextCycleStart(tariff, t) > t
<1>1. /\ TicksPerDay \in Nat \ {0}
      /\ DaysPerMonth \in Nat \ {0}
      /\ TicksPerMonth \in Nat \ {0}
  <2>1. TicksPerDay \in Nat \ {0} /\ DaysPerMonth \in Nat \ {0}
    BY TariffsAssumption
  <2>2. TicksPerDay * DaysPerMonth \in Nat \ {0}
    BY <2>1
  <2> QED BY <2>1, <2>2 DEF TicksPerMonth
<1>2. tariff.startDay - 1 \in Nat /\ tariff.daily \in BOOLEAN
  BY <1>1 DEF Tariff
<1>3. (tariff.startDay - 1) * TicksPerDay \in Nat
  BY <1>1, <1>2, ProductNat
<1>4. t % TicksPerMonth \in Nat /\ t % TicksPerMonth < TicksPerMonth /\ t % TicksPerMonth <= t
  BY <1>1
<1>5. CycleStartDate(tariff, t) \in Int /\ CycleStartDate(tariff, t) + TicksPerMonth > t
  <2> DEFINE x == (tariff.startDay - 1) * TicksPerDay
             y == t % TicksPerMonth
  <2>1. CycleStartDate(tariff, t) = (t - y) + x
    BY DEF CycleStartDate
  <2> HIDE DEF x, y
  <2>2. x \in Nat /\ y \in Nat /\ y < TicksPerMonth
    BY <1>3, <1>4 DEF x, y
  <2> QED BY <1>1, <2>1, <2>2
<1> QED BY <1>1, <1>2, <1>5 DEF NextCycleStart

LEMMA StartCycleResult ==
  ASSUME NEW a \in AccountType, NEW date \in Int
  PROVE  LET s == StartCycle(a, date)
         IN  /\ s \in AccountType
             /\ Balance(s) = Balance(a) /\ (PlanRuns(a) => PlanRuns(s))
             /\ s.credit = a.credit /\ s.fees = a.fees
             /\ s.running = a.running /\ s.expires = a.expires
             /\ IF IsNewCycle(a, date)
                THEN s.cycleStart = date /\ s.cycleEnergy = 0
                ELSE s = a
BY DEF StartCycle, AccountType, Balance, PlanRuns

LEMMA ExpirePlanResult ==
  ASSUME NEW a \in AccountType, NEW date \in Int, PlanRuns(a), tariff.plan \in BOOLEAN
  PROVE  LET s == ExpirePlan(a, date)
         IN  /\ s \in AccountType /\ PlanRuns(s) /\ Balance(s) = Balance(a)
             /\ s.credit = a.credit /\ s.fees = a.fees /\ s.expires = a.expires
             /\ s.cycleStart = a.cycleStart /\ s.cycleEnergy = a.cycleEnergy
             /\ tariff.plan /\ s.running => date < a.expires
             /\ s.running => a.running
             /\ a.running /\ ~s.running => date >= a.expires
<1>1. CASE tariff.plan /\ a.running /\ date >= a.expires
  <2>1. ExpirePlan(a, date) = [a EXCEPT !.running = FALSE, !.plan = 0, !.lapsed = @ + a.plan]
    BY <1>1 DEF ExpirePlan
  <2> DEFINE s == [a EXCEPT !.running = FALSE, !.plan = 0, !.lapsed = @ + a.plan]
  <2>2. a.lapsed + a.plan \in Nat
    BY DEF AccountType
  <2>3. s \in AccountType
    BY <2>2 DEF AccountType
  <2>4. /\ s.credit = a.credit /\ s.fees = a.fees /\ s.expires = a.expires
        /\ s.cycleStart = a.cycleStart /\ s.cycleEnergy = a.cycleEnergy
        /\ s.debt = a.debt /\ s.spent = a.spent
        /\ s.running = FALSE /\ s.plan = 0 /\ s.lapsed = a.lapsed + a.plan
    BY DEF AccountType
  <2>5. Balance(s) = Balance(a)
    <3> HIDE DEF s
    <3> QED BY <2>4 DEF Balance, AccountType
  <2>6. ExpirePlan(a, date) = s
    BY <2>1
  <2> HIDE DEF s
  <2> QED BY <1>1, <2>3, <2>4, <2>5, <2>6 DEF PlanRuns
<1>2. CASE ~(tariff.plan /\ a.running /\ date >= a.expires)
  <2>1. ExpirePlan(a, date) = a
    BY <1>2 DEF ExpirePlan
  <2>2. a.running => a.expires \in Int
    BY DEF AccountType, PlanRuns
  <2> QED BY <1>2, <2>1, <2>2 DEF AccountType
<1> QED BY <1>1, <1>2

LEMMA PurchasePlanResult ==
  ASSUME NEW a \in AccountType, NEW end \in Nat, PlanRuns(a), tariff \in Tariff
  PROVE  LET s == PurchasePlan(a, end)
         IN  /\ s \in AccountType /\ PlanRuns(s) /\ Balance(s) = Balance(a)
             /\ s.cycleStart = a.cycleStart /\ s.cycleEnergy = a.cycleEnergy
             /\ MayPurchase(a) =>
                  /\ s.running /\ s.expires > end
                  /\ s.fees = a.fees + tariff.fee
                  /\ s.credit = a.credit - tariff.fee - tariff.price
             /\ ~MayPurchase(a) => s = a
<1>1. tariff.fee \in Nat /\ tariff.price \in Nat
  BY DEF Tariff
<1>2. CASE MayPurchase(a)
  <2> DEFINE s == [a EXCEPT !.running = TRUE, !.expires = NextCycleStart(tariff, end),
                            !.credit = @ - tariff.fee - tariff.price,
                            !.plan = @ + tariff.price, !.fees = @ + tariff.fee]
  <2>1. /\ a.credit - tariff.fee - tariff.price \in Int
        /\ a.plan + tariff.price \in Nat /\ a.fees + tariff.fee \in Nat
        /\ NextCycleStart(tariff, end) \in Int /\ NextCycleStart(tariff, end) > end
    BY <1>1, NextStart DEF AccountType
  <2>2. s \in AccountType
    BY <2>1 DEF AccountType
  <2>3. /\ s.credit = a.credit - tariff.fee - tariff.price
        /\ s.fees = a.fees + tariff.fee /\ s.plan = a.plan + tariff.price
        /\ s.expires = NextCycleStart(tariff, end) /\ s.running
        /\ s.cycleStart = a.cycleStart /\ s.cycleEnergy = a.cycleEnergy
        /\ s.debt = a.debt /\ s.spent = a.spent /\ s.lapsed = a.lapsed
    BY DEF AccountType
  <2>4. s.expires # None
    BY <2>1, <2>3, BillingAssumption
  <2>5. Balance(s) = Balance(a)
    <3> HIDE DEF s
    <3> QED BY <1>1, <2>3 DEF Balance, AccountType
  <2>6. PurchasePlan(a, end) = s
    BY <1>2 DEF PurchasePlan
  <2> HIDE DEF s
  <2> QED BY <1>2, <2>1, <2>2, <2>3, <2>4, <2>5, <2>6 DEF PlanRuns
<1>3. CASE ~MayPurchase(a)
  BY <1>3 DEF PurchasePlan
<1> QED BY <1>2, <1>3

(* The renewal of cycle and plan, with the date it is made for.            *)
LEMMA RenewedResult ==
  ASSUME NEW a \in AccountType, NEW date \in Int, NEW end \in Nat, date <= end, PlanRuns(a),
         tariff \in Tariff
  PROVE  LET s == Renewed(a, date, end)
         IN  /\ s \in AccountType /\ PlanRuns(s) /\ Balance(s) = Balance(a)
             /\ IF IsNewCycle(a, date)
                THEN s.cycleStart = date /\ s.cycleEnergy = 0
                ELSE s.cycleStart = a.cycleStart /\ s.cycleEnergy = a.cycleEnergy
             /\ s.fees # a.fees =>
                  /\ s.fees = a.fees + tariff.fee
                  /\ a.running => date >= a.expires
                  /\ s.running /\ s.expires > end
             /\ (s.fees = a.fees /\ tariff.fee # 0) => s.expires = a.expires
             /\ ~s.running =>
                  /\ s.expires = a.expires
                  /\ a.running => date >= a.expires
             /\ (tariff.plan /\ s.running) => s.expires > date
             /\ (tariff.plan /\ ~s.running) =>
                  /\ s.plan = 0
                  /\ mode # "on"
                  /\ mode = "auto" => s.credit < tariff.price + tariff.fee
             /\ mode = "auto" /\ a.credit >= 0 => s.credit >= 0
<1> DEFINE b == StartCycle(a, date)
           c == ExpirePlan(b, date)
           s == PurchasePlan(c, end)
<1>1. tariff.fee \in Nat /\ tariff.price \in Nat /\ tariff.plan \in BOOLEAN
  BY DEF Tariff
<1>2. /\ b \in AccountType /\ PlanRuns(b) /\ Balance(b) = Balance(a)
      /\ b.credit = a.credit /\ b.fees = a.fees
      /\ b.running = a.running /\ b.expires = a.expires
      /\ IF IsNewCycle(a, date) THEN b.cycleStart = date /\ b.cycleEnergy = 0 ELSE b = a
  BY StartCycleResult
<1>3. /\ c \in AccountType /\ PlanRuns(c) /\ Balance(c) = Balance(b)
      /\ c.credit = b.credit /\ c.fees = b.fees /\ c.expires = b.expires
      /\ c.cycleStart = b.cycleStart /\ c.cycleEnergy = b.cycleEnergy
      /\ tariff.plan /\ c.running => date < b.expires
      /\ c.running => b.running
      /\ b.running /\ ~c.running => date >= b.expires
  <2> HIDE DEF b
  <2> QED BY <1>1, <1>2, ExpirePlanResult
<1>4. /\ s \in AccountType /\ PlanRuns(s) /\ Balance(s) = Balance(c)
      /\ s.cycleStart = c.cycleStart /\ s.cycleEnergy = c.cycleEnergy
      /\ MayPurchase(c) =>
           /\ s.running /\ s.expires > end
           /\ s.fees = c.fees + tariff.fee
           /\ s.credit = c.credit - tariff.fee - tariff.price
      /\ ~MayPurchase(c) => s = c
  <2> HIDE DEF c
  <2> QED BY <1>3, PurchasePlanResult
<1>5. Renewed(a, date, end) = s
  BY DEF Renewed
<1> HIDE DEF b, c, s
<1>6. a.running \in BOOLEAN /\ s.running \in BOOLEAN /\ c.running \in BOOLEAN
      /\ a.credit \in Int /\ c.credit \in Int /\ s.credit \in Int
      /\ (s.running => s.expires \in Int)
  BY <1>3, <1>4 DEF AccountType, PlanRuns
<1>7. CASE MayPurchase(c)
  <2>1. /\ tariff.plan /\ ~c.running
        /\ mode = "on" \/ (mode = "auto" /\ c.credit >= tariff.price + tariff.fee)
    BY <1>7 DEF MayPurchase
  <2>2. s.running /\ s.expires > end /\ s.expires > date
    BY <1>4, <1>6, <1>7
  <2>3. mode = "auto" => s.credit >= 0
    BY <1>1, <1>4, <1>6, <1>7, <2>1
  <2>4. s.fees = a.fees + tariff.fee /\ (a.running => date >= a.expires)
    BY <1>2, <1>3, <1>4, <1>7, <2>1
  <2>5. ~(s.fees = a.fees /\ tariff.fee # 0)
    BY <1>1, <2>4 DEF AccountType
  <2> QED BY <1>2, <1>3, <1>4, <1>5, <2>2, <2>3, <2>4, <2>5
<1>8. CASE ~MayPurchase(c)
  <2>1. s = c
    BY <1>4, <1>8
  <2>2. (tariff.plan /\ ~c.running) =>
          /\ c.plan = 0
          /\ mode # "on"
          /\ mode = "auto" => c.credit < tariff.price + tariff.fee
    BY <1>1, <1>3, <1>6, <1>8 DEF MayPurchase, PlanRuns
  <2>3. tariff.plan /\ s.running => s.expires > date
    BY <1>3, <1>6, <2>1
  <2> QED BY <1>2, <1>3, <1>5, <1>6, <2>1, <2>2, <2>3
<1> QED BY <1>7, <1>8

LEMMA ChargeResult ==
  ASSUME NEW a \in AccountType, NEW cost \in Nat, NEW kwh \in Nat, PlanRuns(a)
  PROVE  LET s == Charge(a, cost, kwh)
         IN  /\ s \in AccountType /\ PlanRuns(s) /\ Balance(s) = Balance(a)
             /\ s.running = a.running /\ s.expires = a.expires /\ s.fees = a.fees
             /\ s.cycleStart = a.cycleStart /\ s.cycleEnergy = a.cycleEnergy + kwh
             /\ mode = "auto" /\ ~AllowNegativeBalance => s.credit >= 0
<1> DEFINE paid == Billed(mode = "auto", Purse(a), cost)
           s == [a EXCEPT !.credit = paid.credit, !.debt = paid.debt, !.plan = paid.plan,
                          !.cycleEnergy = @ + kwh, !.spent = @ + cost]
<1>1. /\ Purse(a) \in PurseType /\ Purse(a).credit = a.credit
      /\ Purse(a).debt = a.debt /\ Purse(a).plan = a.plan
  BY DEF Purse, PurseType, AccountType
<1>2. /\ paid \in PurseType
      /\ paid.credit + paid.plan - paid.debt = a.credit + a.plan - a.debt - cost
      /\ paid.plan <= a.plan
      /\ mode = "auto" /\ ~AllowNegativeBalance => paid.credit >= 0
  <2> DEFINE auto == mode = "auto"
             b == Purse(a)
  <2>1. auto \in BOOLEAN /\ b \in PurseType
    BY <1>1
  <2>2. LET p == Billed(auto, b, cost)
        IN  /\ p \in PurseType
            /\ p.credit + p.plan - p.debt = b.credit + b.plan - b.debt - cost
            /\ p.plan <= b.plan
            /\ auto /\ ~AllowNegativeBalance => p.credit >= 0
    <3> HIDE DEF auto, b
    <3> QED BY <2>1, BilledResult
  <2>3. paid = Billed(auto, b, cost)
    OBVIOUS
  <2> QED BY <1>1, <2>2, <2>3
<1>3. Charge(a, cost, kwh) = s
  BY DEF Charge
<1> HIDE DEF paid
<1>4. /\ paid.credit \in Int /\ paid.debt \in Nat /\ paid.plan \in Nat
      /\ a.cycleEnergy + kwh \in Nat /\ a.spent + cost \in Nat
  BY <1>2 DEF PurseType, AccountType
<1>5. s \in AccountType
  BY <1>4 DEF AccountType
<1>6. /\ s.credit = paid.credit /\ s.debt = paid.debt /\ s.plan = paid.plan
      /\ s.cycleEnergy = a.cycleEnergy + kwh /\ s.spent = a.spent + cost
      /\ s.running = a.running /\ s.expires = a.expires /\ s.fees = a.fees
      /\ s.cycleStart = a.cycleStart /\ s.lapsed = a.lapsed
  BY DEF AccountType
<1> HIDE DEF s
<1>7. Balance(s) = Balance(a)
  BY <1>2, <1>4, <1>6 DEF Balance, AccountType
<1>8. PlanRuns(s)
  BY <1>2, <1>4, <1>6 DEF PlanRuns, AccountType
<1> QED BY <1>2, <1>3, <1>5, <1>6, <1>7, <1>8

-----------------------------------------------------------------------------
(* What a reading costs.                                                   *)

LEMMA TariffRowType ==
  ASSUME tariff \in TariffRows
  PROVE  /\ tariff \in Tariff
         /\ tariff.blocks \in SUBSET Block /\ IsFiniteSet(tariff.blocks)
         /\ tariff.type = "blockrate" => \A b \in tariff.blocks : ValidBlock(b)
         /\ tariff.type \in {"flat", "blockrate"} /\ tariff.flatPrice \in Nat
BY BillingAssumption DEF Tariff, Block, ValidBlockrates

LEMMA BaseRateNat ==
  ASSUME NEW a \in AccountType, NEW kwh \in Nat, tariff \in TariffRows
  PROVE  BaseRate(a, kwh).num \in Nat /\ BaseRate(a, kwh).den \in Nat \ {0}
<1>1. CASE tariff.type = "flat"
  BY <1>1, TariffRowType DEF BaseRate
<1>2. CASE tariff.type # "flat"
  <2> DEFINE lower == a.cycleEnergy
             upper == a.cycleEnergy + kwh
             T == {b \in tariff.blocks : BlockOverlaps(b, lower, upper)}
             F == [b \in T |-> b.value * Multiplier(b, lower, upper)]
  <2>1. BaseRate(a, kwh) = AverageBlockRate(tariff.blocks, lower, upper)
    BY <1>2 DEF BaseRate
  <2>2. /\ AverageBlockRate(tariff.blocks, lower, upper).num = SumFunctionOnSet(F, T)
        /\ AverageBlockRate(tariff.blocks, lower, upper).den
             = IF lower = upper THEN 1 ELSE upper - lower
    BY DEF AverageBlockRate, SumFunction
  <2>3. lower \in Nat /\ upper \in Nat /\ lower <= upper
    BY DEF AccountType
  <2>4. \A b \in T : F[b] \in Nat
    <3>1. ASSUME NEW b \in T PROVE b.value * Multiplier(b, lower, upper) \in Nat
      <4>1. b \in Block /\ ValidBlock(b) /\ b.value \in Nat
        BY <1>2, TariffRowType DEF Block
      <4>2. Multiplier(b, lower, upper) \in Nat
        <5> HIDE DEF lower, upper
        <5> QED BY <2>3, <4>1, MultiplierNat
      <4> QED BY <4>1, <4>2, ProductNat
    <3> QED BY <3>1
  <2>5. IsFiniteSet(T)
    BY TariffRowType, FS_Subset
  <2>6. SumFunctionOnSet(F, T) \in Nat
    <3> HIDE DEF F, T
    <3> QED BY <2>4, <2>5, SumNat
  <2>7. (IF lower = upper THEN 1 ELSE upper - lower) \in Nat \ {0}
    BY <2>3
  <2> QED BY <2>1, <2>2, <2>6, <2>7
<1> QED BY <1>1, <1>2

LEMMA TouPercentNat ==
  ASSUME NEW from, NEW to, tariff \in Tariff
  PROVE  TouPercent(from, to) \in Nat
BY DEF TouPercent, Tariff

LEMMA CostNat ==
  ASSUME NEW a \in AccountType, NEW kwh \in Nat, NEW from, NEW to, tariff \in TariffRows
  PROVE  Cost(a, kwh, from, to) \in Nat
<1> DEFINE rate == BaseRate(a, kwh)
           tou == IF rate.num > 0 THEN TouPercent(from, to) ELSE 100
<1>1. rate.num \in Nat /\ rate.den \in Nat \ {0}
  BY BaseRateNat
<1>2. tou \in Nat
  BY TouPercentNat, TariffRowType
<1>3. rate.num * tou * kwh \in Nat
  <2> HIDE DEF rate, tou
  <2>1. rate.num * tou \in Nat
    BY <1>1, <1>2, ProductNat
  <2> QED BY <2>1, ProductNat
<1>4. rate.den * 100 \in Nat \ {0}
  BY <1>1
<1>5. (rate.num * tou * kwh) \div (rate.den * 100) \in Nat
  <2> HIDE DEF rate, tou
  <2> QED BY <1>3, <1>4, DivisionNat
<1> QED BY <1>5 DEF Cost

-----------------------------------------------------------------------------
(* CalculateBilling.calculate, for a reading that ended at `to`.           *)

LEMMA CalculateResult ==
  ASSUME NEW a \in AccountType, NEW from, NEW to \in Nat \ {0}, NEW kwh \in Nat,
         PlanRuns(a), tariff \in TariffRows
  PROVE  LET opened == Renewed(a, to - 1, to)
             s == Calculate(a, from, to, kwh).account
         IN  /\ s \in AccountType /\ PlanRuns(s) /\ Balance(s) = Balance(a)
             /\ opened \in AccountType
             /\ Calculate(a, from, to, kwh).cost = Cost(opened, kwh, from, to)
             /\ Cost(opened, kwh, from, to) \in Nat
             /\ IF IsNewCycle(a, to - 1)
                THEN opened.cycleStart = to - 1 /\ opened.cycleEnergy = 0
                ELSE opened.cycleStart = a.cycleStart /\ opened.cycleEnergy = a.cycleEnergy
             /\ \/ s.cycleStart = to /\ s.cycleEnergy = 0
                \/ /\ s.cycleStart = opened.cycleStart
                   /\ s.cycleEnergy = opened.cycleEnergy + kwh
             /\ s.fees # a.fees =>
                  /\ s.fees = a.fees + tariff.fee
                  /\ a.running => to >= a.expires
                  /\ s.expires > to
             /\ ~s.running =>
                  \/ s.expires = a.expires /\ ~a.running
                  \/ to >= s.expires
             /\ (tariff.plan /\ s.running) => s.expires > to
             /\ (tariff.plan /\ ~s.running) =>
                  /\ s.plan = 0
                  /\ mode # "on"
                  /\ mode = "auto" => s.credit < tariff.price + tariff.fee
             /\ mode = "auto" /\ ~AllowNegativeBalance => s.credit >= 0
<1> DEFINE b == Renewed(a, to - 1, to)
           cost == Cost(b, kwh, from, to)
           c == Charge(b, cost, kwh)
           s == Renewed(c, to, to)
<1>1. tariff \in Tariff /\ tariff.fee \in Nat
  BY TariffRowType DEF Tariff
<1>2. /\ b \in AccountType /\ PlanRuns(b) /\ Balance(b) = Balance(a)
      /\ IF IsNewCycle(a, to - 1)
         THEN b.cycleStart = to - 1 /\ b.cycleEnergy = 0
         ELSE b.cycleStart = a.cycleStart /\ b.cycleEnergy = a.cycleEnergy
      /\ b.fees # a.fees =>
           /\ b.fees = a.fees + tariff.fee
           /\ a.running => to - 1 >= a.expires
           /\ b.running /\ b.expires > to
      /\ (b.fees = a.fees /\ tariff.fee # 0) => b.expires = a.expires
      /\ ~b.running =>
           /\ b.expires = a.expires
           /\ a.running => to - 1 >= a.expires
  BY <1>1, RenewedResult
<1>3. cost \in Nat
  <2> HIDE DEF b
  <2> QED BY <1>2, CostNat
<1>4. /\ c \in AccountType /\ PlanRuns(c) /\ Balance(c) = Balance(b)
      /\ c.running = b.running /\ c.expires = b.expires /\ c.fees = b.fees
      /\ c.cycleStart = b.cycleStart /\ c.cycleEnergy = b.cycleEnergy + kwh
      /\ mode = "auto" /\ ~AllowNegativeBalance => c.credit >= 0
  <2> HIDE DEF b, cost
  <2> QED BY <1>2, <1>3, ChargeResult
<1>5. /\ s \in AccountType /\ PlanRuns(s) /\ Balance(s) = Balance(c)
      /\ IF IsNewCycle(c, to)
         THEN s.cycleStart = to /\ s.cycleEnergy = 0
         ELSE s.cycleStart = c.cycleStart /\ s.cycleEnergy = c.cycleEnergy
      /\ s.fees # c.fees =>
           /\ s.fees = c.fees + tariff.fee
           /\ c.running => to >= c.expires
           /\ s.running /\ s.expires > to
      /\ (s.fees = c.fees /\ tariff.fee # 0) => s.expires = c.expires
      /\ ~s.running =>
           /\ s.expires = c.expires
           /\ c.running => to >= c.expires
      /\ (tariff.plan /\ s.running) => s.expires > to
      /\ (tariff.plan /\ ~s.running) =>
           /\ s.plan = 0
           /\ mode # "on"
           /\ mode = "auto" => s.credit < tariff.price + tariff.fee
      /\ mode = "auto" /\ c.credit >= 0 => s.credit >= 0
  <2> HIDE DEF c
  <2> QED BY <1>1, <1>4, RenewedResult
<1>6. Calculate(a, from, to, kwh).account = s /\ Calculate(a, from, to, kwh).cost = cost
  BY DEF Calculate
<1> HIDE DEF b, cost, c, s
<1>7. /\ a.running \in BOOLEAN /\ b.running \in BOOLEAN /\ c.running \in BOOLEAN
      /\ a.fees \in Nat /\ b.fees \in Nat /\ c.fees \in Nat /\ s.fees \in Nat
      /\ a.running => a.expires \in Int
      /\ b.running => b.expires \in Int
  BY <1>2, <1>4, <1>5 DEF AccountType, PlanRuns
<1>8. s.fees # a.fees =>
        /\ s.fees = a.fees + tariff.fee
        /\ a.running => to >= a.expires
        /\ s.expires > to
  <2>1. CASE b.fees # a.fees
    <3>1. c.running /\ c.expires > to /\ c.expires \in Int
      BY <1>2, <1>4, <1>7, <2>1
    <3>2. s.fees = c.fees
      BY <1>5, <3>1
    <3>3. s.fees = a.fees + tariff.fee /\ (a.running => to >= a.expires) /\ tariff.fee # 0
      BY <1>1, <1>2, <1>4, <1>7, <2>1, <3>2
    <3> QED BY <1>5, <3>1, <3>2, <3>3
  <2>2. CASE b.fees = a.fees
    <3> SUFFICES ASSUME s.fees # a.fees
                 PROVE  /\ s.fees = a.fees + tariff.fee
                        /\ a.running => to >= a.expires
                        /\ s.expires > to
      OBVIOUS
    <3>1. s.fees # c.fees
      BY <1>4, <2>2
    <3>2. s.fees = a.fees + tariff.fee /\ s.expires > to /\ tariff.fee # 0
      BY <1>1, <1>4, <1>5, <1>7, <2>2, <3>1
    <3>3. a.running => to >= a.expires
      BY <1>2, <1>4, <1>5, <1>7, <2>2, <3>1, <3>2
    <3> QED BY <3>2, <3>3
  <2> QED BY <2>1, <2>2
<1>9. ~s.running => \/ s.expires = a.expires /\ ~a.running
                    \/ to >= s.expires
  BY <1>2, <1>4, <1>5, <1>7
<1> QED BY <1>2, <1>3, <1>4, <1>5, <1>6, <1>8, <1>9 DEF b, cost

-----------------------------------------------------------------------------
(* The invariants.                                                         *)

(* Cycles and plans are renewed up to the last reading.                    *)
RenewedToLast ==
  /\ account.cycleStart # None => account.cycleStart <= last
  /\ account.cycleStart = None => account.cycleEnergy = 0
  /\ (~account.running /\ account.expires # None) => last >= account.expires

AccountInv ==
  /\ TypeOK
  /\ PlanRuns(account)
  /\ MoneyAccounted
  /\ RenewedToLast

(* Readings are kept in the order of their ends, none processed before it. *)
ReadingsInOrder ==
  /\ last <= now
  /\ \A i \in DOMAIN readings :
       /\ readings[i].end <= readings[i].at
       /\ readings[i].end <= last
       /\ readings[i].at <= now
       /\ \A j \in DOMAIN readings : i < j =>
            readings[i].end < readings[j].end /\ readings[i].at <= readings[j].at

(* The price of the cycle so far, for every tariff it may have been under. *)
CyclePrices ==
  \A t \in TariffRows :
    (/\ t.type = "blockrate" /\ t.tous = {}
     /\ \A i \in CycleReadings : readings[i].tariff = t)
    => SumFunction([i \in CycleReadings |-> readings[i].cost])
         = PriceByKwh(t.blocks, 0, account.cycleEnergy)

(* The time of the last event is that of the reading it was created for.   *)
NoticeTold ==
  IF notice = None
  THEN \A i \in DOMAIN readings : ~readings[i].notified
  ELSE \E i \in DOMAIN readings :
         /\ readings[i].notified /\ readings[i].at = notice
         /\ \A j \in DOMAIN readings : readings[j].notified => j <= i

LEMMA InitHolds == Init => AccountInv /\ ReadingsInOrder
<1> SUFFICES ASSUME Init PROVE AccountInv /\ ReadingsInOrder
  OBVIOUS
<1> USE BillingAssumption DEF Init
<1>1. /\ InitialPurse.credit \in Int /\ InitialPurse.debt \in Nat /\ InitialPurse.plan = 0
  OBVIOUS
<1>2. account \in AccountType
  BY <1>1 DEF NewAccount, AccountType
<1>3. TypeOK
  BY <1>2 DEF TypeOK
<1>4. PlanRuns(account) /\ RenewedToLast
  BY <1>1 DEF PlanRuns, RenewedToLast, NewAccount
<1>5. MoneyAccounted
  BY <1>1 DEF MoneyAccounted, NewAccount
<1>6. ReadingsInOrder
  BY DEF ReadingsInOrder
<1> QED BY <1>3, <1>4, <1>5, <1>6 DEF AccountInv

(* What a reading does.                                                    *)
LEMMA ReadingStep ==
  ASSUME AccountInv, NEW gap \in Gaps, NEW delay \in Delays, NEW kwh \in Kwhs,
         ProcessReading(gap, delay, kwh)
  PROVE  LET end == last + gap
             opened == Renewed(account, end - 1, end)
             cost == Cost(opened, kwh, last, end)
         IN  /\ end \in Nat \ {0} /\ kwh \in Nat /\ end > last
             /\ last' = end
             /\ account' = Calculate(account, last, end, kwh).account
             /\ now' \in Nat /\ now <= now' /\ last' <= now' /\ now' >= end
             /\ delay = 0 => now' = Max({now, end})
             /\ Len(readings') = Len(readings) + 1
             /\ DOMAIN readings' = DOMAIN readings \cup {Len(readings) + 1}
             /\ \A i \in DOMAIN readings : readings'[i] = readings[i]
             /\ readings'[Len(readings) + 1].end = end
             /\ readings'[Len(readings) + 1].at = now'
             /\ readings'[Len(readings) + 1].kwh = kwh
             /\ readings'[Len(readings) + 1].cost = cost
             /\ readings'[Len(readings) + 1].tariff = tariff
             /\ readings'[Len(readings) + 1].total = Total(account')
             /\ readings'[Len(readings) + 1].notified <=> LowBalance(account')
             /\ readings' \in Seq(ReadingType)
             /\ notice' = IF LowBalance(account') THEN now' ELSE notice
<1> DEFINE end == last + gap
           opened == Renewed(account, end - 1, end)
           done == Calculate(account, last, end, kwh)
           cost == Cost(opened, kwh, last, end)
           new == [end |-> end, at |-> now', kwh |-> kwh, cost |-> cost, tariff |-> tariff,
                   mode |-> mode, total |-> Total(account'),
                   notified |-> LowBalance(account')]
<1>1. /\ account \in AccountType /\ PlanRuns(account) /\ tariff \in TariffRows
      /\ mode \in Modes
      /\ last \in Nat /\ now \in Nat /\ readings \in Seq(ReadingType)
  BY DEF AccountInv, TypeOK
<1>2. gap \in Nat \ {0} /\ delay \in Nat /\ kwh \in Nat
  BY BillingAssumption
<1>3. end \in Nat \ {0} /\ end > last
  BY <1>1, <1>2
<1>4. /\ done.account \in AccountType /\ done.cost = cost /\ cost \in Nat
  <2>1. /\ Calculate(account, last, end, kwh).account \in AccountType
        /\ Calculate(account, last, end, kwh).cost = Cost(Renewed(account, end - 1, end), kwh, last, end)
        /\ Cost(Renewed(account, end - 1, end), kwh, last, end) \in Nat
    <3> HIDE DEF end, opened, done, cost, new
    <3> QED BY <1>1, <1>2, <1>3, CalculateResult
  <2> HIDE DEF end
  <2> QED BY <2>1
<1>5. /\ account' = done.account /\ last' = end
      /\ now' = Max({now, end + delay})
      /\ notice' = IF LowBalance(account') THEN now' ELSE notice
      /\ readings' = Append(readings, new)
  BY <1>4 DEF ProcessReading
<1>6. now' = IF now < end + delay THEN end + delay ELSE now
  <2>1. end + delay \in Int /\ now \in Int
    BY <1>1, <1>2
  <2> QED BY <1>5, <2>1, MaxOfTwo
<1>7. now' \in Nat /\ now <= now' /\ last' <= now' /\ now' >= end
  BY <1>1, <1>2, <1>3, <1>5, <1>6
<1>8. new \in ReadingType
  <2>1. Total(account') \in Int
    BY <1>4, <1>5 DEF Total, AccountType
  <2>2. LowBalance(account') \in BOOLEAN
    BY DEF LowBalance
  <2> HIDE DEF end, cost
  <2> QED BY <1>1, <1>2, <1>3, <1>4, <1>7, <2>1, <2>2 DEF ReadingType
<1>11. /\ new.end = end /\ new.at = now' /\ new.kwh = kwh /\ new.cost = cost
       /\ new.tariff = tariff /\ new.total = Total(account')
       /\ new.notified <=> LowBalance(account')
  OBVIOUS
<1> HIDE DEF new
<1>9. /\ readings' \in Seq(ReadingType)
      /\ Len(readings') = Len(readings) + 1
      /\ DOMAIN readings' = DOMAIN readings \cup {Len(readings) + 1}
      /\ \A i \in DOMAIN readings : readings'[i] = readings[i]
      /\ readings'[Len(readings) + 1] = new
  BY <1>1, <1>5, <1>8
<1>10. delay = 0 => now' = Max({now, end})
  BY <1>1, <1>2, <1>5
<1> HIDE DEF end, opened, done, cost
<1>12. LET n == readings'[Len(readings) + 1]
       IN  /\ n.end = end /\ n.at = now' /\ n.kwh = kwh /\ n.cost = cost
           /\ n.tariff = tariff /\ n.total = Total(account')
           /\ n.notified <=> LowBalance(account')
  BY <1>9, <1>11
<1> QED BY <1>2, <1>3, <1>4, <1>5, <1>7, <1>9, <1>10, <1>12 DEF end, opened, done, cost

LEMMA ReadingTypes ==
  ASSUME NEW rs \in Seq(ReadingType)
  PROVE  /\ Len(rs) \in Nat /\ DOMAIN rs = 1..Len(rs)
         /\ \A i \in DOMAIN rs :
              /\ rs[i].end \in Nat /\ rs[i].at \in Nat /\ rs[i].kwh \in Nat
              /\ rs[i].cost \in Nat /\ rs[i].total \in Int /\ rs[i].notified \in BOOLEAN
<1>1. \A i \in DOMAIN rs : rs[i] \in ReadingType
  OBVIOUS
<1> QED BY <1>1, SMTT(30) DEF ReadingType

LEMMA AccountStep == AccountInv /\ [Next]_vars => AccountInv'
<1> SUFFICES ASSUME AccountInv, [Next]_vars PROVE AccountInv'
  OBVIOUS
<1> USE DEF AccountInv
<1>1. ASSUME NEW gap \in Gaps, NEW delay \in Delays, NEW kwh \in Kwhs,
             ProcessReading(gap, delay, kwh)
      PROVE  AccountInv'
  <2> DEFINE end == last + gap
             opened == Renewed(account, end - 1, end)
             s == Calculate(account, last, end, kwh).account
  <2>1. /\ end \in Nat \ {0} /\ kwh \in Nat /\ end > last
        /\ last' = end /\ account' = s
        /\ now' \in Nat /\ readings' \in Seq(ReadingType)
        /\ notice' = IF LowBalance(account') THEN now' ELSE notice
    BY <1>1, ReadingStep, ZenonT(60)
  <2>2. UNCHANGED <<mode, tariff, bought, purchases, changes>>
    BY <1>1 DEF ProcessReading
  <2>3. account \in AccountType /\ tariff \in TariffRows /\ last \in Nat
    BY DEF TypeOK
  <2> HIDE DEF end, opened, s
  <2>4. /\ s \in AccountType /\ PlanRuns(s) /\ Balance(s) = Balance(account)
        /\ IF IsNewCycle(account, end - 1)
           THEN opened.cycleStart = end - 1 /\ opened.cycleEnergy = 0
           ELSE /\ opened.cycleStart = account.cycleStart
                /\ opened.cycleEnergy = account.cycleEnergy
        /\ \/ s.cycleStart = end /\ s.cycleEnergy = 0
           \/ s.cycleStart = opened.cycleStart
        /\ ~s.running =>
             \/ s.expires = account.expires /\ ~account.running
             \/ end >= s.expires
    BY <2>1, <2>3, CalculateResult DEF opened, s
  <2>5. TypeOK'
    BY <2>1, <2>2, <2>4 DEF TypeOK
  <2>6. PlanRuns(account)'
    BY <2>1, <2>4 DEF PlanRuns
  <2>7. MoneyAccounted'
    BY <2>1, <2>2, <2>4 DEF MoneyAccounted, Balance
  <2>8. RenewedToLast'
    <3>1. s.cycleStart # None /\ s.cycleStart <= end
      <4>1. end \in Int /\ end - 1 \in Int /\ None \notin Int
        BY <2>1, BillingAssumption
      <4>2. ~IsNewCycle(account, end - 1) => account.cycleStart # None
        BY DEF IsNewCycle
      <4>3. account.cycleStart # None => account.cycleStart \in Int
        BY <2>3 DEF AccountType
      <4> QED BY <2>1, <2>3, <2>4, <4>1, <4>2, <4>3 DEF RenewedToLast
    <3>2. (~s.running /\ s.expires # None) => end >= s.expires
      <4>1. account.expires # None => account.expires \in Int
        BY <2>3 DEF AccountType
      <4> QED BY <2>1, <2>3, <2>4, <4>1 DEF RenewedToLast
    <3> QED BY <2>1, <3>1, <3>2 DEF RenewedToLast
  <2> QED BY <2>5, <2>6, <2>7, <2>8
<1>2. ASSUME NEW amount \in CreditAmounts, BuyCredit(amount)
      PROVE  AccountInv'
  <2>1. amount \in Nat /\ MaxPurchases \in Nat
    BY BillingAssumption
  <2>2. account \in AccountType /\ bought \in Nat
    BY DEF TypeOK
  <2>3. account.credit + amount \in Int
    BY <2>1, <2>2 DEF AccountType
  <2>4. account' = [account EXCEPT !.credit = @ + amount]
    BY <1>2 DEF BuyCredit
  <2>5. /\ account' \in AccountType
        /\ account'.credit = account.credit + amount
        /\ account'.debt = account.debt /\ account'.plan = account.plan
        /\ account'.running = account.running /\ account'.expires = account.expires
        /\ account'.cycleStart = account.cycleStart
        /\ account'.cycleEnergy = account.cycleEnergy
        /\ account'.fees = account.fees /\ account'.spent = account.spent
        /\ account'.lapsed = account.lapsed
    BY <2>2, <2>3, <2>4 DEF AccountType
  <2>6. /\ UNCHANGED <<mode, tariff, last, now, notice, readings, changes>>
        /\ bought' = bought + amount
        /\ purchases' \in 0..MaxPurchases
    BY <1>2, <2>1 DEF BuyCredit, TypeOK
  <2>7. TypeOK'
    BY <2>1, <2>2, <2>5, <2>6 DEF TypeOK
  <2>8. PlanRuns(account)' /\ RenewedToLast'
    BY <2>5, <2>6 DEF PlanRuns, RenewedToLast
  <2>9. MoneyAccounted'
    <3>1. /\ InitialPurse.credit \in Int /\ InitialPurse.debt \in Int
          /\ InitialPurse.plan \in Int
      BY BillingAssumption
    <3> QED BY <2>1, <2>2, <2>5, <2>6, <3>1 DEF MoneyAccounted, AccountType
  <2> QED BY <2>7, <2>8, <2>9
<1>3. ASSUME NEW m \in Modes, SetState(m)
      PROVE  AccountInv'
  BY <1>3, BillingAssumption
     DEF SetState, TypeOK, PlanRuns, MoneyAccounted, RenewedToLast
<1>4. ASSUME NEW t \in TariffRows, SetTariff(t)
      PROVE  AccountInv'
  BY <1>4, BillingAssumption
     DEF SetTariff, TypeOK, PlanRuns, MoneyAccounted, RenewedToLast
<1>5. CASE UNCHANGED vars
  BY <1>5 DEF vars, TypeOK, PlanRuns, MoneyAccounted, RenewedToLast
<1> QED BY <1>1, <1>2, <1>3, <1>4, <1>5 DEF Next

LEMMA AccountInvariance == Spec => []AccountInv
<1>1. Init => AccountInv
  BY InitHolds
<1> QED BY <1>1, AccountStep, PTL DEF Spec

(* Every variable has the type of its column; in particular no amount of   *)
(* billing takes the debt or the plan below zero (calculate, billing.py).  *)
THEOREM TypeCorrect == Spec => []TypeOK
BY AccountInvariance, PTL DEF AccountInv

(* Whatever calculate does with plans, charges and debt, all money is      *)
(* accounted for.                                                          *)
THEOREM AllMoneyAccounted == Spec => []MoneyAccounted
BY AccountInvariance, PTL DEF AccountInv

(* _maybe_expire_plan empties the wallet of a plan that is over, and       *)
(* nothing is paid into it but by _maybe_purchase_new_plan.                *)
THEOREM OnlyRunningPlans == Spec => []PlanBalanceRuns
<1>1. AccountInv => PlanBalanceRuns
  BY DEF AccountInv, PlanRuns, PlanBalanceRuns
<1> QED BY <1>1, AccountInvariance, PTL

(* What calculate leaves behind, for the action properties.                *)
LEMMA ReadingResult ==
  ASSUME AccountInv, NEW gap \in Gaps, NEW delay \in Delays, NEW kwh \in Kwhs,
         ProcessReading(gap, delay, kwh)
  PROVE  /\ account'.fees # account.fees =>
              /\ account'.fees = account.fees + tariff.fee
              /\ account.expires # None => last' >= account.expires
              /\ account'.expires > last'
         /\ tariff.plan =>
              /\ account'.running => account'.expires > last'
              /\ ~account'.running =>
                   /\ account'.plan = 0
                   /\ mode # "on"
                   /\ mode = "auto" => account'.credit < tariff.price + tariff.fee
         /\ (mode = "auto" /\ ~AllowNegativeBalance) => account'.credit >= 0
<1> DEFINE end == last + gap
           s == Calculate(account, last, end, kwh).account
<1>1. end \in Nat \ {0} /\ kwh \in Nat /\ end > last /\ last' = end /\ account' = s
  BY ReadingStep
<1>2. /\ account \in AccountType /\ tariff \in TariffRows /\ last \in Nat
      /\ PlanRuns(account) /\ RenewedToLast
  BY DEF AccountInv, TypeOK
<1> HIDE DEF end, s
<1>3. /\ s.fees # account.fees =>
           /\ s.fees = account.fees + tariff.fee
           /\ account.running => end >= account.expires
           /\ s.expires > end
      /\ (tariff.plan /\ s.running) => s.expires > end
      /\ (tariff.plan /\ ~s.running) =>
           /\ s.plan = 0
           /\ mode # "on"
           /\ mode = "auto" => s.credit < tariff.price + tariff.fee
      /\ mode = "auto" /\ ~AllowNegativeBalance => s.credit >= 0
  BY <1>1, <1>2, CalculateResult DEF s
<1>4. ASSUME s.fees # account.fees, account.expires # None
      PROVE  end >= account.expires
  <2>1. account.expires \in Int
    BY <1>2, <1>4 DEF AccountType
  <2>2. CASE account.running
    BY <1>3, <1>4, <2>2
  <2>3. CASE ~account.running
    BY <1>1, <1>2, <1>4, <2>1, <2>3 DEF RenewedToLast
  <2> QED BY <2>2, <2>3
<1> QED BY <1>1, <1>3, <1>4

(* Only a reading changes the fees or the number of readings.              *)
LEMMA OnlyReadings ==
  ASSUME AccountInv, [Next]_vars,
         account'.fees # account.fees \/ Len(readings') > Len(readings)
  PROVE  \E gap \in Gaps, delay \in Delays, kwh \in Kwhs : ProcessReading(gap, delay, kwh)
<1> SUFFICES ASSUME ~\E gap \in Gaps, delay \in Delays, kwh \in Kwhs :
                       ProcessReading(gap, delay, kwh)
             PROVE  account'.fees = account.fees /\ readings' = readings
  BY DEF AccountInv, TypeOK
<1>1. account \in AccountType
  BY DEF AccountInv, TypeOK
<1>2. ASSUME NEW amount \in CreditAmounts, BuyCredit(amount)
      PROVE  account'.fees = account.fees /\ readings' = readings
  BY <1>1, <1>2 DEF BuyCredit, AccountType
<1>3. ASSUME NEW m \in Modes, SetState(m)
      PROVE  account'.fees = account.fees /\ readings' = readings
  BY <1>3 DEF SetState
<1>4. ASSUME NEW t \in TariffRows, SetTariff(t)
      PROVE  account'.fees = account.fees /\ readings' = readings
  BY <1>4 DEF SetTariff
<1>5. CASE UNCHANGED vars
  BY <1>5 DEF vars
<1> QED BY <1>2, <1>3, <1>4, <1>5 DEF Next

(* _update_customer_credit turns what a prepaid meter cannot pay into      *)
(* debt, _pay_off_customer_debt takes no more credit than there is, and    *)
(* _maybe_purchase_new_plan buys only what can be paid for.                *)
THEOREM PrepaidStaysPaid == Spec => PrepaidNeverOwes
<1>1. ASSUME AccountInv, [Next]_vars
      PROVE  [\A gap \in Gaps, delay \in Delays, kwh \in Kwhs :
                (ProcessReading(gap, delay, kwh) /\ mode = "auto" /\ ~AllowNegativeBalance)
                  => account'.credit >= 0]_vars
  BY <1>1, ReadingResult
<1> QED BY <1>1, AccountInvariance, PTL DEF Spec, PrepaidNeverOwes

(* _maybe_purchase_new_plan is called before and after a reading is        *)
(* charged; at most one of the calls pays, and only when no plan runs.     *)
THEOREM PlansPaidOnce == Spec => PlanPaidOnce
<1>1. ASSUME AccountInv, [Next]_vars
      PROVE  [account'.fees # account.fees =>
                /\ account'.fees = account.fees + tariff.fee
                /\ account.expires # None => last' >= account.expires
                /\ account'.expires > last']_vars
  BY <1>1, ReadingResult, OnlyReadings
<1> QED BY <1>1, AccountInvariance, PTL DEF Spec, PlanPaidOnce

(* After _maybe_expire_plan and _maybe_purchase_new_plan no plan is over,  *)
(* and whoever can pay for the next has it.                                *)
THEOREM PlansKeptUp == Spec => PlanKeptUp
<1>1. ASSUME AccountInv, [Next]_vars
      PROVE  [(Len(readings') > Len(readings) /\ tariff.plan) =>
                /\ account'.running => account'.expires > last'
                /\ ~account'.running =>
                     /\ account'.plan = 0
                     /\ mode # "on"
                     /\ mode = "auto" => account'.credit < tariff.price + tariff.fee]_vars
  BY <1>1, ReadingResult, OnlyReadings
<1> QED BY <1>1, AccountInvariance, PTL DEF Spec, PlanKeptUp

-----------------------------------------------------------------------------
(* The energy and the price of a cycle.                                    *)

(* What a reading costs on a block tariff.                                 *)
LEMMA CostIsSharedPrice ==
  ASSUME NEW a \in AccountType, NEW kwh \in Nat, NEW from, NEW to, tariff \in TariffRows,
         tariff.type = "blockrate", tariff.tous = {}
  PROVE  Cost(a, kwh, from, to)
           = SharedPrice(tariff.blocks, a.cycleEnergy, a.cycleEnergy + kwh)
<1> DEFINE e == a.cycleEnergy
           rate == BaseRate(a, kwh)
           tou == IF rate.num > 0 THEN TouPercent(from, to) ELSE 100
<1>1. e \in Nat /\ e + kwh \in Nat
  BY DEF AccountType
<1>2. /\ tariff.blocks \in SUBSET Block /\ IsFiniteSet(tariff.blocks)
      /\ \A b \in tariff.blocks : ValidBlock(b)
  BY TariffRowType
<1>3. tou = 100
  BY DEF TouPercent
<1>4. rate.num \in Nat /\ rate.den \in Nat \ {0}
  BY BaseRateNat
<1>5. Cost(a, kwh, from, to) = (rate.num * tou * kwh) \div (rate.den * 100)
  BY DEF Cost
<1>6. rate = AverageBlockRate(tariff.blocks, e, e + kwh)
  BY DEF BaseRate
<1>7. CASE kwh = 0
  <2>1. SharedPrice(tariff.blocks, e, e + kwh) = 0
    <3>1. e + kwh = e
      BY <1>1, <1>7
    <3> HIDE DEF e
    <3> QED BY <1>1, <1>2, <3>1, SharedPriceNone
  <2>2. rate.num * tou * kwh = 0 * (rate.den * 100) /\ rate.den * 100 \in Nat \ {0}
    <3> HIDE DEF rate, tou
    <3> QED BY <1>3, <1>4, <1>7
  <2>3. (rate.num * tou * kwh) \div (rate.den * 100) = 0
    <3> DEFINE x == rate.num * tou * kwh
               y == rate.den * 100
    <3>1. x = 0 * y /\ y \in Nat \ {0}
      BY <2>2
    <3> HIDE DEF x, y
    <3>2. x \div y = 0
      BY <3>1, WholeDivision
    <3> QED BY <3>2 DEF x, y
  <2> QED BY <1>5, <2>1, <2>3
<1>8. CASE kwh # 0
  <2>1. /\ rate.num = SharedPrice(tariff.blocks, e, e + kwh)
        /\ rate.den = kwh
    <3>1. e < e + kwh /\ (e + kwh) - e = kwh
      BY <1>1, <1>8
    <3> DEFINE u == e + kwh
    <3>2. e \in Nat /\ u \in Nat /\ e < u /\ u - e = kwh
      BY <1>1, <3>1
    <3>3. /\ AverageBlockRate(tariff.blocks, e, u).num = SharedPrice(tariff.blocks, e, u)
          /\ AverageBlockRate(tariff.blocks, e, u).den = u - e
      <4> HIDE DEF e, u
      <4> QED BY <1>2, <3>2, RateIsSharedPrice
    <3> QED BY <1>6, <3>2, <3>3
  <2>2. /\ rate.num * tou * kwh = rate.num * (rate.den * 100)
        /\ rate.den * 100 \in Nat \ {0}
    <3>1. rate.den = kwh
      BY <2>1
    <3> HIDE DEF rate, tou
    <3> QED BY <1>3, <1>4, <3>1
  <2>3. (rate.num * tou * kwh) \div (rate.den * 100) = rate.num
    <3> DEFINE x == rate.num * tou * kwh
               y == rate.den * 100
               n == rate.num
    <3>1. x = n * y /\ y \in Nat \ {0} /\ n \in Nat
      BY <1>4, <2>2
    <3> HIDE DEF x, y, n
    <3>2. x \div y = n
      BY <3>1, WholeDivision
    <3> QED BY <3>2 DEF x, y, n
  <2> QED BY <1>5, <2>1, <2>3
<1> QED BY <1>7, <1>8

NoPrice ==
  \A t \in TariffRows : PriceByKwh(t.blocks, 0, 0) = 0

LEMMA NothingCostsNothing == NoPrice
<1> SUFFICES ASSUME NEW t \in TariffRows PROVE PriceByKwh(t.blocks, 0, 0) = 0
  BY DEF NoPrice
<1>1. (0 + 1)..0 = {}
  OBVIOUS
<1> QED BY <1>1, SumEmpty DEF PriceByKwh, SumFunction

(* The energy and the cost of the readings with numbers in I.              *)
Energies(rs, I) == [i \in I |-> rs[i].kwh]
Costs(rs, I)    == [i \in I |-> rs[i].cost]

LEMMA OneReadingMore ==
  ASSUME NEW rs \in Seq(ReadingType), NEW I \in SUBSET DOMAIN rs,
         NEW rt \in Seq(ReadingType), DOMAIN rt = DOMAIN rs \cup {Len(rs) + 1},
         \A i \in DOMAIN rs : rt[i] = rs[i]
  PROVE  LET n == Len(rs) + 1
             J == I \cup {n}
         IN  /\ IsFiniteSet(I)
             /\ SumFunctionOnSet(Energies(rt, J), J)
                  = SumFunctionOnSet(Energies(rs, I), I) + rt[n].kwh
             /\ SumFunctionOnSet(Costs(rt, J), J)
                  = SumFunctionOnSet(Costs(rs, I), I) + rt[n].cost
<1> DEFINE n == Len(rs) + 1
           J == I \cup {n}
<1>1. IsFiniteSet(I) /\ n \notin I
  <2>1. DOMAIN rs = 1..Len(rs) /\ Len(rs) \in Nat
    OBVIOUS
  <2>2. IsFiniteSet(1..Len(rs))
    BY <2>1, FS_Interval
  <2>3. IsFiniteSet(I)
    BY <2>1, <2>2, FS_Subset
  <2> QED BY <2>1, <2>3
<1>2. ASSUME NEW i \in J PROVE rt[i] \in ReadingType
  OBVIOUS
<1> HIDE DEF n
<1>3. SumFunctionOnSet(Energies(rt, J), J) = SumFunctionOnSet(Energies(rs, I), I) + rt[n].kwh
  <2> DEFINE F == Energies(rs, I)
             G == Energies(rt, J)
  <2>1. \A i \in J : G[i] \in Int
    BY <1>2 DEF Energies, ReadingType
  <2>2. \A i \in I : G[i] = F[i]
    BY DEF Energies
  <2>3. G[n] = rt[n].kwh
    BY DEF Energies
  <2>4. SumFunctionOnSet(G, I \cup {n}) = SumFunctionOnSet(F, I) + G[n]
    <3> HIDE DEF F, G
    <3> QED BY <1>1, <2>1, <2>2, SumExtend
  <2> QED BY <2>3, <2>4
<1>4. SumFunctionOnSet(Costs(rt, J), J) = SumFunctionOnSet(Costs(rs, I), I) + rt[n].cost
  <2> DEFINE F == Costs(rs, I)
             G == Costs(rt, J)
  <2>1. \A i \in J : G[i] \in Int
    BY <1>2 DEF Costs, ReadingType
  <2>2. \A i \in I : G[i] = F[i]
    BY DEF Costs
  <2>3. G[n] = rt[n].cost
    BY DEF Costs
  <2>4. SumFunctionOnSet(G, I \cup {n}) = SumFunctionOnSet(F, I) + G[n]
    <3> HIDE DEF F, G
    <3> QED BY <1>1, <2>1, <2>2, SumExtend
  <2> QED BY <2>3, <2>4
<1> QED BY <1>1, <1>3, <1>4 DEF n

CycleInv == CycleEnergyCounted /\ CyclePrices

(* The readings that still count once the cycle has been renewed to start  *)
(* at `start`, with `energy` counted and priced.                           *)
Counted(I, energy) ==
  /\ SumFunctionOnSet(Energies(readings, I), I) = energy
  /\ \A t \in TariffRows :
       (/\ t.type = "blockrate" /\ t.tous = {}
        /\ \A i \in I : readings[i].tariff = t)
       => SumFunctionOnSet(Costs(readings, I), I) = PriceByKwh(t.blocks, 0, energy)

LEMMA CountedIsInv == CycleInv <=> Counted(CycleReadings, account.cycleEnergy)
BY DEF CycleInv, CycleEnergyCounted, CyclePrices, Counted, Energies, Costs, SumFunction

LEMMA CountedNone == Counted({}, 0)
BY SumEmpty, NothingCostsNothing DEF Counted, NoPrice

LEMMA OrderStep == AccountInv /\ ReadingsInOrder /\ [Next]_vars => ReadingsInOrder'
<1> SUFFICES ASSUME AccountInv, ReadingsInOrder, [Next]_vars PROVE ReadingsInOrder'
  OBVIOUS
<1>1. ASSUME NEW gap \in Gaps, NEW delay \in Delays, NEW kwh \in Kwhs,
             ProcessReading(gap, delay, kwh)
      PROVE  ReadingsInOrder'
  <2> DEFINE n == Len(readings) + 1
  <2>1. /\ last' \in Nat /\ now' \in Nat /\ last' > last /\ now <= now' /\ last' <= now'
        /\ DOMAIN readings' = DOMAIN readings \cup {n}
        /\ \A i \in DOMAIN readings : readings'[i] = readings[i]
        /\ readings'[n].end = last' /\ readings'[n].at = now'
    BY <1>1, ReadingStep
  <2>2. /\ last \in Nat /\ now \in Nat /\ DOMAIN readings = 1..Len(readings)
        /\ Len(readings) \in Nat
        /\ \A i \in DOMAIN readings : readings[i].end \in Nat /\ readings[i].at \in Nat
    BY ReadingTypes DEF AccountInv, TypeOK
  <2>3. \A i \in DOMAIN readings : i < n
    BY <2>2
  <2> HIDE DEF n
  <2>4. n \in Nat /\ n \notin DOMAIN readings
    BY <2>2, <2>3 DEF n
  <2>5. ASSUME NEW i \in DOMAIN readings'
        PROVE  /\ readings'[i].end <= readings'[i].at
               /\ readings'[i].end <= last'
               /\ readings'[i].at <= now'
    <3>1. CASE i = n
      BY <2>1, <3>1
    <3>2. CASE i # n
      <4>1. i \in DOMAIN readings /\ readings'[i] = readings[i]
        BY <2>1, <3>2
      <4>2. readings[i].end <= readings[i].at /\ readings[i].end <= last /\ readings[i].at <= now
        BY <4>1 DEF ReadingsInOrder
      <4> QED BY <2>1, <2>2, <4>1, <4>2
    <3> QED BY <3>1, <3>2
  <2>6. ASSUME NEW i \in DOMAIN readings', NEW j \in DOMAIN readings', i < j
        PROVE  readings'[i].end < readings'[j].end /\ readings'[i].at <= readings'[j].at
    <3>1. i \in DOMAIN readings /\ readings'[i] = readings[i]
      <4>1. i # n
        BY <2>1, <2>2, <2>3, <2>4, <2>6
      <4> QED BY <2>1, <4>1
    <3>2. readings[i].end <= last /\ readings[i].at <= now
      BY <3>1 DEF ReadingsInOrder
    <3>3. CASE j = n
      BY <2>1, <2>2, <3>1, <3>2, <3>3
    <3>4. CASE j # n
      <4>1. j \in DOMAIN readings /\ readings'[j] = readings[j]
        BY <2>1, <3>4
      <4> QED BY <2>6, <3>1, <4>1 DEF ReadingsInOrder
    <3> QED BY <3>3, <3>4
  <2> QED BY <2>1, <2>5, <2>6 DEF ReadingsInOrder
<1>2. ASSUME UNCHANGED <<readings, last, now>>
      PROVE  ReadingsInOrder'
  BY <1>2 DEF ReadingsInOrder
<1> QED BY <1>1, <1>2 DEF Next, BuyCredit, SetState, SetTariff, vars

LEMMA CycleStep ==
  AccountInv /\ ReadingsInOrder /\ CycleInv /\ [Next]_vars => CycleInv'
<1> SUFFICES ASSUME AccountInv, ReadingsInOrder, CycleInv, [Next]_vars PROVE CycleInv'
  OBVIOUS
<1>1. ASSUME NEW gap \in Gaps, NEW delay \in Delays, NEW kwh \in Kwhs,
             ProcessReading(gap, delay, kwh)
      PROVE  CycleInv'
  <2> DEFINE end == last + gap
             opened == Renewed(account, end - 1, end)
             cost == Cost(opened, kwh, last, end)
             s == Calculate(account, last, end, kwh).account
             n == Len(readings) + 1
             I == {i \in DOMAIN readings : readings[i].end > opened.cycleStart}
             J == I \cup {n}
  <2>1. /\ end \in Nat \ {0} /\ kwh \in Nat /\ end > last
        /\ last' = end /\ account' = s
        /\ DOMAIN readings' = DOMAIN readings \cup {n}
        /\ \A i \in DOMAIN readings : readings'[i] = readings[i]
        /\ readings' \in Seq(ReadingType)
        /\ readings'[n].end = end /\ readings'[n].kwh = kwh
        /\ readings'[n].cost = cost /\ readings'[n].tariff = tariff
    BY <1>1, ReadingStep, ZenonT(60)
  <2>2. /\ account \in AccountType /\ tariff \in TariffRows /\ last \in Nat
        /\ PlanRuns(account) /\ RenewedToLast
        /\ readings \in Seq(ReadingType)
        /\ None \notin Int
    BY BillingAssumption DEF AccountInv, TypeOK
  <2> HIDE DEF end, cost, s, n
  <2>3. /\ opened \in AccountType
        /\ IF IsNewCycle(account, end - 1)
           THEN opened.cycleStart = end - 1 /\ opened.cycleEnergy = 0
           ELSE /\ opened.cycleStart = account.cycleStart
                /\ opened.cycleEnergy = account.cycleEnergy
        /\ \/ s.cycleStart = end /\ s.cycleEnergy = 0
           \/ /\ s.cycleStart = opened.cycleStart
              /\ s.cycleEnergy = opened.cycleEnergy + kwh
    <3> HIDE DEF opened
    <3> QED BY <2>1, <2>2, CalculateResult DEF opened, s
  <2> HIDE DEF opened
  <2>4. /\ opened.cycleStart \in Int /\ opened.cycleStart < end
        /\ Counted(I, opened.cycleEnergy)
    <3>1. CASE IsNewCycle(account, end - 1)
      <4>1. \A i \in DOMAIN readings : readings[i].end \in Nat /\ readings[i].end <= last
        BY <2>2, ReadingTypes DEF ReadingsInOrder
      <4>2. I = {}
        BY <2>1, <2>2, <2>3, <3>1, <4>1
      <4>3. Counted(I, 0)
        BY <4>2, CountedNone
      <4> HIDE DEF I
      <4> QED BY <2>1, <2>3, <3>1, <4>3
    <3>2. CASE ~IsNewCycle(account, end - 1)
      <4>1. account.cycleStart # None /\ account.cycleStart \in Int
        BY <2>2, <3>2 DEF IsNewCycle, AccountType
      <4>2. I = CycleReadings
        BY <2>3, <3>2, <4>1 DEF CycleReadings
      <4>3. account.cycleStart <= last
        BY <2>2, <4>1 DEF RenewedToLast
      <4>4. Counted(I, account.cycleEnergy)
        BY <4>2, CountedIsInv
      <4> HIDE DEF I
      <4> QED BY <2>1, <2>2, <2>3, <3>2, <4>1, <4>3, <4>4
    <3> QED BY <3>1, <3>2
  <2>5. CASE s.cycleStart = end /\ s.cycleEnergy = 0
    <3>1. \A i \in DOMAIN readings' : readings'[i].end \in Nat /\ readings'[i].end <= end
      <4>1. ReadingsInOrder'
        BY OrderStep
      <4>2. \A i \in DOMAIN readings' : readings'[i].end \in Nat
        BY <2>1, ReadingTypes
      <4> QED BY <2>1, <4>1, <4>2 DEF ReadingsInOrder
    <3>2. CycleReadings' = {} /\ account'.cycleEnergy = 0
      BY <2>1, <2>2, <2>5, <3>1 DEF CycleReadings
    <3>3. Counted({}, 0)'
      BY SumEmpty, NothingCostsNothing DEF Counted, NoPrice
    <3>4. \A K, e : K = CycleReadings' /\ e = account'.cycleEnergy /\ Counted(K, e)'
                      => CycleInv'
      BY DEF CycleInv, CycleEnergyCounted, CyclePrices, Counted, Energies, Costs, SumFunction
    <3> QED BY <3>2, <3>3, <3>4
  <2>6. CASE s.cycleStart = opened.cycleStart /\ s.cycleEnergy = opened.cycleEnergy + kwh
    <3> DEFINE e == opened.cycleEnergy + kwh
    <3>1. CycleReadings' = J /\ account'.cycleEnergy = e
      <4>1. \A i \in DOMAIN readings' :
              readings'[i].end > opened.cycleStart <=> i \in J
        <5>1. \A i \in DOMAIN readings : i # n
          BY <2>2 DEF n
        <5> QED BY <2>1, <2>4, <5>1
      <4>2. account'.cycleStart = opened.cycleStart /\ opened.cycleStart # None
        BY <2>1, <2>2, <2>4, <2>6
      <4>3. J \subseteq DOMAIN readings'
        BY <2>1
      <4> QED BY <2>1, <2>6, <4>1, <4>2, <4>3 DEF CycleReadings
    <3>2. /\ SumFunctionOnSet(Energies(readings', J), J)
               = SumFunctionOnSet(Energies(readings, I), I) + kwh
          /\ SumFunctionOnSet(Costs(readings', J), J)
               = SumFunctionOnSet(Costs(readings, I), I) + cost
      BY <2>1, <2>2, OneReadingMore DEF n
    <3>3. SumFunctionOnSet(Energies(readings', J), J) = e
      BY <2>4, <3>2 DEF Counted
    <3>4. ASSUME NEW t \in TariffRows, t.type = "blockrate", t.tous = {},
                 \A i \in J : readings'[i].tariff = t
          PROVE  SumFunctionOnSet(Costs(readings', J), J) = PriceByKwh(t.blocks, 0, e)
      <4>1. tariff = t
        BY <2>1, <3>4
      <4>2. \A i \in I : readings[i].tariff = t
        BY <2>1, <3>4
      <4>3. SumFunctionOnSet(Costs(readings, I), I) = PriceByKwh(t.blocks, 0, opened.cycleEnergy)
        BY <2>4, <3>4, <4>2 DEF Counted
      <4>4. cost = SharedPrice(t.blocks, opened.cycleEnergy, e)
        BY <2>1, <2>2, <2>3, <3>4, <4>1, CostIsSharedPrice DEF cost
      <4>5. /\ t.blocks \in SUBSET Block /\ IsFiniteSet(t.blocks)
            /\ \A b \in t.blocks : ValidBlock(b)
        BY <2>2, <3>4, <4>1, TariffRowType
      <4>6. opened.cycleEnergy \in Nat /\ e \in Nat /\ opened.cycleEnergy <= e /\ 0 \in Nat
            /\ 0 <= opened.cycleEnergy /\ 0 <= e
        <5>1. opened.cycleEnergy \in Nat
          BY <2>3 DEF AccountType
        <5> HIDE DEF opened
        <5> QED BY <2>1, <5>1
      <4> DEFINE m == opened.cycleEnergy
      <4> HIDE DEF e, m
      <4>7. /\ PriceByKwh(t.blocks, 0, m) = SharedPrice(t.blocks, 0, m)
            /\ PriceByKwh(t.blocks, 0, e) = SharedPrice(t.blocks, 0, e)
            /\ SharedPrice(t.blocks, 0, e)
                 = SharedPrice(t.blocks, 0, m) + SharedPrice(t.blocks, m, e)
        BY <4>5, <4>6, PriceByShares, SharedPriceAdds DEF m
      <4> QED BY <3>2, <4>3, <4>4, <4>7 DEF m
    <3>5. ASSUME NEW K, K = CycleReadings', K = J,
                 SumFunctionOnSet(Energies(readings', K), K) = account'.cycleEnergy,
                 \A t \in TariffRows :
                   (/\ t.type = "blockrate" /\ t.tous = {}
                    /\ \A i \in K : readings'[i].tariff = t)
                   => SumFunctionOnSet(Costs(readings', K), K)
                        = PriceByKwh(t.blocks, 0, account'.cycleEnergy)
          PROVE  CycleInv'
      BY <3>5 DEF CycleInv, CycleEnergyCounted, CyclePrices, Energies, Costs, SumFunction
    <3> HIDE DEF e, J
    <3> QED BY <3>1, <3>3, <3>4, <3>5
  <2> QED BY <2>3, <2>5, <2>6
<1>2. ASSUME UNCHANGED readings, account'.cycleStart = account.cycleStart,
             account'.cycleEnergy = account.cycleEnergy
      PROVE  CycleInv'
  BY <1>2 DEF CycleInv, CycleEnergyCounted, CyclePrices, CycleReadings
<1>3. ASSUME NEW amount \in CreditAmounts, BuyCredit(amount)
      PROVE  CycleInv'
  <2>1. account \in AccountType
    BY DEF AccountInv, TypeOK
  <2>2. /\ UNCHANGED readings /\ account'.cycleStart = account.cycleStart
        /\ account'.cycleEnergy = account.cycleEnergy
    BY <1>3, <2>1 DEF BuyCredit, AccountType
  <2> QED BY <1>2, <2>2
<1>4. ASSUME NEW m \in Modes, SetState(m) PROVE CycleInv'
  BY <1>2, <1>4 DEF SetState
<1>5. ASSUME NEW t \in TariffRows, SetTariff(t) PROVE CycleInv'
  BY <1>2, <1>5 DEF SetTariff
<1>6. CASE UNCHANGED vars
  BY <1>2, <1>6 DEF vars
<1> QED BY <1>1, <1>3, <1>4, <1>5, <1>6 DEF Next

LEMMA CycleInvariance == Spec => [](AccountInv /\ ReadingsInOrder /\ CycleInv)
<1>1. Init => AccountInv /\ ReadingsInOrder /\ CycleInv
  <2>1. ASSUME Init PROVE CycleInv
    <3>1. account.cycleStart = None /\ account.cycleEnergy = 0
      BY <2>1 DEF Init, NewAccount
    <3> QED BY <3>1, CountedIsInv, CountedNone DEF CycleReadings
  <2> QED BY <2>1, InitHolds
<1>2. AccountInv /\ ReadingsInOrder /\ CycleInv /\ [Next]_vars
        => (AccountInv /\ ReadingsInOrder /\ CycleInv)'
  BY AccountStep, OrderStep, CycleStep
<1> QED BY <1>1, <1>2, PTL DEF Spec

(* total_cycle_energy is the energy of the readings of the cycle, through  *)
(* both calls of _maybe_start_new_cycle.                                   *)
THEOREM CycleIsCounted == Spec => []CycleEnergyCounted
BY CycleInvariance, PTL DEF CycleInv

(* get_average_block_rate times the energy, summed over the readings of a  *)
(* cycle, is the price of the cycle's energy kWh by kWh.                   *)
THEOREM CycleIsPriced == Spec => []CyclePricedByBlocks
<1>1. AccountInv /\ CycleInv => CyclePricedByBlocks
  BY DEF AccountInv, TypeOK, CycleInv, CyclePrices, CyclePricedByBlocks
<1> QED BY <1>1, CycleInvariance, PTL

-----------------------------------------------------------------------------
(* The low-balance event.                                                  *)

LEMMA NoticeStep ==
  AccountInv /\ NoticeTold /\ [Next]_vars => NoticeTold'
<1> SUFFICES ASSUME AccountInv, NoticeTold, [Next]_vars PROVE NoticeTold'
  OBVIOUS
<1>1. ASSUME NEW gap \in Gaps, NEW delay \in Delays, NEW kwh \in Kwhs,
             ProcessReading(gap, delay, kwh)
      PROVE  NoticeTold'
  <2> DEFINE n == Len(readings) + 1
  <2>1. /\ now' \in Nat
        /\ DOMAIN readings' = DOMAIN readings \cup {n}
        /\ \A i \in DOMAIN readings : readings'[i] = readings[i]
        /\ readings'[n].at = now'
        /\ readings'[n].notified <=> LowBalance(account')
        /\ notice' = IF LowBalance(account') THEN now' ELSE notice
    BY <1>1, ReadingStep
  <2>2. \A i \in DOMAIN readings : i \in Nat /\ i < n
    BY ReadingTypes DEF AccountInv, TypeOK
  <2>3. None \notin Int /\ n \in Nat
    BY BillingAssumption, ReadingTypes DEF AccountInv, TypeOK
  <2> HIDE DEF n
  <2>4. n \notin DOMAIN readings
    BY <2>2, <2>3
  <2>5. CASE LowBalance(account')
    <3>1. notice' = now' /\ notice' # None
      BY <2>1, <2>3, <2>5
    <3>2. /\ n \in DOMAIN readings' /\ readings'[n].notified /\ readings'[n].at = notice'
          /\ \A j \in DOMAIN readings' : readings'[j].notified => j <= n
      BY <2>1, <2>2, <2>3, <2>5, <3>1
    <3> QED BY <3>1, <3>2 DEF NoticeTold
  <2>6. CASE ~LowBalance(account')
    <3>1. notice' = notice /\ ~readings'[n].notified
      BY <2>1, <2>6
    <3>2. CASE notice = None
      BY <2>1, <3>1, <3>2 DEF NoticeTold
    <3>3. CASE notice # None
      <4>1. PICK i \in DOMAIN readings :
              /\ readings[i].notified /\ readings[i].at = notice
              /\ \A j \in DOMAIN readings : readings[j].notified => j <= i
        BY <3>3 DEF NoticeTold
      <4>2. /\ i \in DOMAIN readings' /\ readings'[i].notified /\ readings'[i].at = notice'
            /\ \A j \in DOMAIN readings' : readings'[j].notified => j <= i
        BY <2>1, <3>1, <4>1
      <4> QED BY <3>1, <3>3, <4>2 DEF NoticeTold
    <3> QED BY <3>2, <3>3
  <2> QED BY <2>5, <2>6
<1>2. ASSUME UNCHANGED <<readings, notice>>
      PROVE  NoticeTold'
  BY <1>2 DEF NoticeTold
<1> QED BY <1>1, <1>2 DEF Next, BuyCredit, SetState, SetTariff, vars

LEMMA NoticeInvariance == Spec => [](AccountInv /\ ReadingsInOrder /\ NoticeTold)
<1>1. Init => AccountInv /\ ReadingsInOrder /\ NoticeTold
  <2>1. Init => NoticeTold
    BY DEF Init, NoticeTold
  <2> QED BY <2>1, InitHolds
<1>2. AccountInv /\ ReadingsInOrder /\ NoticeTold /\ [Next]_vars
        => (AccountInv /\ ReadingsInOrder /\ NoticeTold)'
  BY AccountStep, OrderStep, NoticeStep
<1> QED BY <1>1, <1>2, PTL DEF Spec

(* The number of the reading that the last event was created for.          *)
LEMMA LastNotifiedIs ==
  ASSUME AccountInv, NoticeTold
  PROVE  IF notice = None
         THEN LastNotified = 0
         ELSE /\ LastNotified \in DOMAIN readings
              /\ readings[LastNotified].at = notice
              /\ LastNotified # 0
<1> DEFINE D == DOMAIN readings
           K == {0} \cup {i \in D : readings[i].notified}
<1>1. D = 1..Len(readings) /\ Len(readings) \in Nat
  BY ReadingTypes DEF AccountInv, TypeOK
<1>2. IsFiniteSet(K)
  <2>1. IsFiniteSet(0..Len(readings))
    BY <1>1, FS_Interval
  <2>2. K \in SUBSET (0..Len(readings))
    BY <1>1
  <2> HIDE DEF K
  <2> QED BY <2>1, <2>2, FS_Subset
<1>3. K \in SUBSET Int /\ K # {} /\ 0 \in K
  BY <1>1
<1>4. LastNotified = Max(K) /\ Max(K) \in K /\ \A y \in K : Max(K) >= y
  <2>1. LastNotified = Max(K)
    BY DEF LastNotified
  <2> HIDE DEF K
  <2> QED BY <1>2, <1>3, <2>1, MaxOfSet
<1>5. CASE notice = None
  <2>1. K = {0}
    BY <1>5 DEF NoticeTold
  <2> QED BY <1>4, <1>5, <2>1
<1>6. CASE notice # None
  <2>1. PICK l \in D : /\ readings[l].notified /\ readings[l].at = notice
                       /\ \A j \in D : readings[j].notified => j <= l
    BY <1>6 DEF NoticeTold
  <2>2. l \in K /\ l \in Nat \ {0}
    BY <1>1, <2>1
  <2>3. \A y \in K : y <= l /\ y \in Int
    BY <1>1, <2>1, <2>2
  <2>4. LastNotified = l
    <3> DEFINE m == LastNotified
    <3>1. m \in K /\ m >= l
      BY <1>4, <2>2
    <3>2. m <= l /\ m \in Int
      BY <2>3, <3>1
    <3> HIDE DEF m
    <3>3. m = l
      BY <2>2, <3>1, <3>2
    <3> QED BY <3>3 DEF m
  <2> QED BY <1>6, <2>1, <2>2, <2>4
<1> QED BY <1>5, <1>6

(* get_max_total_balance_since against a threshold.                        *)
LEMMA MaxTotalAbove ==
  ASSUME AccountInv, NEW since \in Nat, NEW threshold \in Nat
  PROVE  MaxTotalSince(since) > threshold
           <=> \E i \in DOMAIN readings : readings[i].end >= since /\ readings[i].total > threshold
<1> DEFINE I == {j \in DOMAIN readings : readings[j].end >= since}
           totals == {readings[i].total : i \in I}
<1>1. MaxTotalSince(since) = IF totals = {} THEN 0 ELSE Max(totals)
  BY DEF MaxTotalSince
<1>2. \A i \in DOMAIN readings : readings[i].end \in Nat /\ readings[i].total \in Int
  BY ReadingTypes DEF AccountInv, TypeOK
<1>3. IsFiniteSet(totals)
  <2>1. IsFiniteSet(DOMAIN readings)
    BY ReadingTypes, FS_Interval DEF AccountInv, TypeOK
  <2>2. IsFiniteSet(I)
    BY <2>1, FS_Subset
  <2> DEFINE f == [i \in I |-> readings[i].total]
  <2>3. f \in Surjection(I, totals)
    BY DEF Surjection
  <2> HIDE DEF I, totals, f
  <2> QED BY <2>2, <2>3, FS_Surjection
<1>4. totals \in SUBSET Int
  BY <1>2
<1>5. CASE totals = {}
  <2>1. MaxTotalSince(since) = 0 /\ ~(0 > threshold)
    BY <1>1, <1>5
  <2>2. ~\E i \in DOMAIN readings : readings[i].end >= since /\ readings[i].total > threshold
    BY <1>5
  <2> QED BY <2>1, <2>2
<1>6. CASE totals # {}
  <2> DEFINE max == MaxTotalSince(since)
  <2>1. max \in totals /\ \A y \in totals : max >= y
    <3>1. max = Max(totals)
      BY <1>1, <1>6
    <3> HIDE DEF totals, max
    <3> QED BY <1>3, <1>4, <1>6, <3>1, MaxOfSet
  <2>2. PICK i \in I : max = readings[i].total
    BY <2>1
  <2>3. \A j \in I : max >= readings[j].total
    BY <2>1
  <2>4. max \in Int
    BY <1>4, <2>1
  <2> HIDE DEF max
  <2>5. max > threshold => \E j \in I : readings[j].total > threshold
    BY <2>2
  <2>6. ASSUME NEW j \in I, readings[j].total > threshold
        PROVE  max > threshold
    BY <1>2, <2>3, <2>4, <2>6
  <2> QED BY <2>5, <2>6 DEF max
<1> QED BY <1>5, <1>6

(* _check_balance creates an event when the balance is first found low,    *)
(* and another one only if it was above the threshold in between.          *)
THEOREM LowBalanceIsNoticed == Spec => LowBalanceNoticed
<1>1. ASSUME AccountInv, ReadingsInOrder, NoticeTold, [Next]_vars,
             Len(readings') > Len(readings), mode = "auto",
             Total(account') <= tariff.threshold
      PROVE  LET told == readings'[Len(readings')].notified
             IN  IF LastNotified = 0 THEN told
                 ELSE /\ told => AboveSinceNotified # {}
                      /\ (\E i \in AboveSinceNotified : readings[i].at = readings[i].end) => told
  <2>1. PICK gap \in Gaps, delay \in Delays, kwh \in Kwhs : ProcessReading(gap, delay, kwh)
    BY <1>1, OnlyReadings
  <2> DEFINE told == readings'[Len(readings')].notified
  <2>2. told <=> LowBalance(account')
    BY <1>1, <2>1, ReadingStep
  <2> HIDE DEF told
  <2>3. tariff.threshold \in Nat
    BY <1>1, TariffRowType DEF AccountInv, TypeOK, Tariff
  <2>4. told <=> (notice # None => MaxTotalSince(notice) > tariff.threshold)
    BY <1>1, <2>2 DEF LowBalance
  <2>5. CASE notice = None
    <3>1. LastNotified = 0
      BY <1>1, <2>5, LastNotifiedIs
    <3> QED BY <2>4, <2>5, <3>1 DEF told
  <2>6. CASE notice # None
    <3> DEFINE l == LastNotified
    <3>1. l \in DOMAIN readings /\ readings[l].at = notice /\ l # 0
      BY <1>1, <2>6, LastNotifiedIs
    <3>2. /\ DOMAIN readings = 1..Len(readings) /\ Len(readings) \in Nat
          /\ \A i \in DOMAIN readings :
               /\ readings[i].end \in Nat /\ readings[i].at \in Nat /\ i \in Nat
               /\ readings[i].total \in Int
      BY <1>1, ReadingTypes DEF AccountInv, TypeOK
    <3>3. notice \in Nat
      BY <3>1, <3>2
    <3>4. told <=> \E i \in DOMAIN readings :
                     readings[i].end >= notice /\ readings[i].total > tariff.threshold
      BY <1>1, <2>3, <2>4, <2>6, <3>3, MaxTotalAbove
    <3> HIDE DEF l
    <3>5. ASSUME NEW i \in DOMAIN readings, readings[i].end >= notice
          PROVE  i >= l
      <4>1. SUFFICES ASSUME i < l PROVE FALSE
        BY <3>1, <3>2
      <4>2. readings[i].end < readings[l].end
        BY <1>1, <3>1, <4>1 DEF ReadingsInOrder
      <4>3. readings[l].end <= readings[l].at
        BY <1>1, <3>1 DEF ReadingsInOrder
      <4> QED BY <3>1, <3>2, <3>3, <3>5, <4>2, <4>3
    <3>6. ASSUME NEW i \in DOMAIN readings, i >= l, readings[i].at = readings[i].end
          PROVE  readings[i].end >= notice
      <4>1. i = l \/ l < i
        BY <3>1, <3>2, <3>6
      <4>2. readings[l].at <= readings[i].at
        <5>1. l < i => readings[l].at <= readings[i].at
          BY <1>1, <3>1 DEF ReadingsInOrder
        <5> QED BY <3>1, <3>2, <4>1, <5>1
      <4> QED BY <3>1, <3>2, <3>6, <4>2
    <3>7. AboveSinceNotified
            = {i \in DOMAIN readings : i >= l /\ readings[i].total > tariff.threshold}
      BY DEF AboveSinceNotified, l
    <3>8. told => AboveSinceNotified # {}
      BY <3>4, <3>5, <3>7
    <3>9. (\E i \in AboveSinceNotified : readings[i].at = readings[i].end) => told
      BY <3>4, <3>6, <3>7
    <3> QED BY <3>1, <3>8, <3>9 DEF told, l
  <2> QED BY <2>5, <2>6
<1>2. AccountInv /\ ReadingsInOrder /\ NoticeTold /\ [Next]_vars
        => [(Len(readings') > Len(readings) /\ mode = "auto"
               /\ Total(account') <= tariff.threshold) =>
              LET told == readings'[Len(readings')].notified
              IN  IF LastNotified = 0 THEN told
                  ELSE /\ told => AboveSinceNotified # {}
                       /\ (\E i \in AboveSinceNotified :
                             readings[i].at = readings[i].end) => told]_vars
  BY <1>1
<1> QED BY <1>2, NoticeInvariance, PTL DEF Spec, LowBalanceNoticed

-----------------------------------------------------------------------------
(* The periods of a tariff: the time of day.                              *)

Day == TicksPerDay

LEMMA DayIsLong == Day \in Nat \ {0}
BY TariffsAssumption DEF Day

-----------------------------------------------------------------------------
(* The time of day.                                                        *)

LEMMA TimeOfDay ==
  ASSUME NEW t \in Int
  PROVE  t % Day \in 0..(Day - 1)
BY DayIsLong

LEMMA FirstDay ==
  ASSUME NEW t \in 0..(Day - 1)
  PROVE  t % Day = t
BY DayIsLong

LEMMA SecondDay ==
  ASSUME NEW t \in Day..(2 * Day - 1)
  PROVE  t % Day = t - Day
BY DayIsLong

LEMMA DayBefore ==
  ASSUME NEW t \in (-Day)..(-1)
  PROVE  t % Day = t + Day
BY DayIsLong

-----------------------------------------------------------------------------
(* superset_of.                                                            *)

(* start and end of a period, in ticks after midnight.                     *)
OfTheDay(p) == p.start \in 0..(Day - 1) /\ p.end \in 0..(Day - 1)

(* The period p is in force at the time h of the day.                      *)
On(p, h) ==
  IF EndAfterMidnight(p) > p.start
  THEN p.start <= h /\ h < EndAfterMidnight(p)
  ELSE p.start <= h \/ h < EndAfterMidnight(p)

LEMMA CoversIsOn ==
  ASSUME NEW p, NEW begin \in Nat, NEW end \in Nat
  PROVE  Covers(p, begin, end) <=> \A t \in begin..(end - 1) : On(p, t % Day)
BY DEF Covers, PeriodsAt, On, Day

(* What superset_of asks of a reading that starts on the first day.        *)
Back(end) == IF end > Day THEN end - Day ELSE end

LEMMA SupersetToday ==
  ASSUME NEW p, OfTheDay(p), NEW begin \in 0..(Day - 1), NEW end \in Nat
  PROVE  SupersetOf(p, begin, end) <=>
           IF p.start < p.end
           THEN p.start <= begin /\ begin < p.end /\ p.start < end /\ end <= p.end
           ELSE \/ begin < p.end /\ 0 < Back(end) /\ Back(end) <= p.end
                \/ p.start <= begin /\ p.start < Back(end) /\ Back(end) <= Day
                \/ p.start <= begin /\ 0 < Back(end) /\ Back(end) <= p.end
<1>1. begin % Day = begin
  BY FirstDay
<1>2. begin - (begin % Day) = 0
  BY <1>1, DayIsLong
<1> QED BY <1>2, DayIsLong DEF SupersetOf, OfTheDay, Back, Day

(* A reading of a day at most that a period covers is found to be in it.   *)
LEMMA CoveredIsSuperset ==
  ASSUME NEW p, OfTheDay(p), ValidPeriod(p), NEW begin \in 0..(Day - 1), NEW end \in Nat,
         begin < end, end - begin <= Day, Covers(p, begin, end)
  PROVE  SupersetOf(p, begin, end)
<1> USE DayIsLong
<1> DEFINE s == p.start
           e == EndAfterMidnight(p)
<1>1. s \in 0..(Day - 1) /\ e \in 1..Day /\ s # e /\ (p.end = IF e = Day THEN 0 ELSE e)
  BY DEF OfTheDay, ValidPeriod, EndAfterMidnight, Day
<1>a. begin \in Nat
  OBVIOUS
<1>b. \A t \in begin..(end - 1) : On(p, t % Day)
  BY <1>a, CoversIsOn
<1>2. On(p, begin)
  <2>1. begin \in begin..(end - 1) /\ begin % Day = begin
    BY FirstDay
  <2> QED BY <1>b, <2>1
<1>3. ASSUME NEW t \in begin..(end - 1), t < Day PROVE On(p, t)
  <2>1. t % Day = t
    BY <1>3, FirstDay
  <2> QED BY <1>b, <2>1
<1>4. ASSUME NEW t \in begin..(end - 1), Day <= t PROVE On(p, t - Day)
  <2>1. t % Day = t - Day
    BY <1>4, SecondDay
  <2> QED BY <1>b, <2>1
<1>5. CASE s < e /\ e < Day
  <2>1. s <= begin /\ begin < e
    BY <1>1, <1>2, <1>5 DEF On
  <2>2. end <= e
    <3> SUFFICES ASSUME e < end PROVE FALSE
      BY <1>1
    <3>1. On(p, e)
      BY <1>1, <1>3, <1>5, <2>1
    <3> QED BY <1>1, <1>5, <3>1 DEF On
  <2> QED BY <1>1, <1>5, <2>1, <2>2, SupersetToday
<1>6. CASE e < s
  <2>1. s <= begin \/ begin < e
    BY <1>1, <1>2, <1>6 DEF On
  <2>2. CASE begin < e
    <3>1. end <= e
      <4> SUFFICES ASSUME e < end PROVE FALSE
        BY <1>1
      <4>1. On(p, e)
        BY <1>1, <1>3, <1>6, <2>2
      <4> QED BY <1>1, <1>6, <4>1 DEF On
    <3> QED BY <1>1, <1>6, <2>2, <3>1, SupersetToday DEF Back
  <2>3. CASE s <= begin
    <3>1. end <= Day + e
      <4> SUFFICES ASSUME Day + e < end PROVE FALSE
        BY <1>1
      <4>1. On(p, (Day + e) - Day)
        BY <1>1, <1>4, <2>3
      <4>2. (Day + e) - Day = e
        BY <1>1
      <4> QED BY <1>1, <1>6, <4>1, <4>2 DEF On
    <3> QED BY <1>1, <1>6, <2>3, <3>1, SupersetToday DEF Back
  <2> QED BY <2>1, <2>2, <2>3
<1>7. CASE e = Day
  <2>1. s <= begin
    BY <1>1, <1>2, <1>7 DEF On
  <2>2. CASE s = 0
    BY <1>1, <1>7, <2>1, <2>2, SupersetToday DEF Back
  <2>3. CASE 0 < s
    <3>1. end <= Day
      <4> SUFFICES ASSUME Day < end PROVE FALSE
        OBVIOUS
      <4>1. On(p, Day - Day)
        BY <1>4
      <4> QED BY <1>1, <1>7, <2>3, <4>1 DEF On
    <3> QED BY <1>1, <1>7, <2>1, <2>3, <3>1, SupersetToday DEF Back
  <2> QED BY <1>1, <2>2, <2>3
<1> QED BY <1>1, <1>5, <1>6, <1>7

(* A reading that is found to be in a period and is not longer than the    *)
(* time which the period leaves out each day, is covered by it.            *)
LEMMA SupersetIsCovered ==
  ASSUME NEW p, OfTheDay(p), ValidPeriod(p), NEW begin \in 0..(Day - 1), NEW end \in Nat,
         begin < end, SupersetOf(p, begin, end), end - begin <= TimeOutside(p)
  PROVE  Covers(p, begin, end)
<1> USE DayIsLong
<1> DEFINE s == p.start
           e == EndAfterMidnight(p)
<1>1. s \in 0..(Day - 1) /\ e \in 1..Day /\ s # e /\ (p.end = IF e = Day THEN 0 ELSE e)
  BY DEF OfTheDay, ValidPeriod, EndAfterMidnight, Day
<1>2. TimeOutside(p) = IF s < e THEN s - e + Day ELSE s - e
  <2>1. TimeOutside(p) = (s - e) % Day
    BY DEF TimeOutside, Day
  <2>2. CASE s < e
    <3>1. s - e \in (-Day)..(-1)
      BY <1>1, <2>2
    <3> QED BY <2>1, <2>2, <3>1, DayBefore
  <2>3. CASE e < s
    <3>1. s - e \in 0..(Day - 1)
      BY <1>1, <2>3
    <3>2. (s - e) % Day = s - e /\ ~(s < e)
      BY <1>1, <2>3, <3>1, FirstDay
    <3> QED BY <1>1, <2>1, <2>3, <3>2, Zenon
  <2> QED BY <1>1, <2>2, <2>3
<1>3. end <= begin + Day
  BY <1>1, <1>2
<1>a. begin \in Nat
  OBVIOUS
<1>b. Covers(p, begin, end) <=> \A t \in begin..(end - 1) : On(p, t % Day)
  BY <1>a, CoversIsOn
<1> SUFFICES ASSUME NEW t \in begin..(end - 1) PROVE On(p, t % Day)
  BY <1>b, Zenon
<1>4. t % Day = IF t < Day THEN t ELSE t - Day
  <2>1. CASE t < Day
    BY <2>1, FirstDay
  <2>2. CASE Day <= t
    BY <1>3, <2>2, SecondDay
  <2> QED BY <2>1, <2>2
<1> DEFINE h == t % Day
<1>5. h = (IF t < Day THEN t ELSE t - Day) /\ h \in Int
  BY <1>4
<1> HIDE DEF h
<1>6. CASE s < e /\ e < Day
  <2>1. s <= begin /\ end <= e
    BY <1>1, <1>6, SupersetToday
  <2> QED BY <1>1, <1>5, <1>6, <2>1 DEF On, h
<1>7. CASE e < s
  <2>1. \/ begin < e /\ Back(end) <= e
        \/ s <= begin /\ s < Back(end) /\ Back(end) <= Day
        \/ s <= begin /\ 0 < Back(end) /\ Back(end) <= e
    BY <1>1, <1>7, SupersetToday
  <2> QED BY <1>1, <1>2, <1>5, <1>7, <2>1 DEF On, Back, h
<1>8. CASE e = Day
  <2>1. s <= begin /\ s < Back(end) /\ Back(end) <= Day
    BY <1>1, <1>8, SupersetToday DEF Back
  <2> QED BY <1>1, <1>2, <1>5, <1>8, <2>1 DEF On, Back, h
<1> QED BY <1>1, <1>6, <1>7, <1>8

-----------------------------------------------------------------------------
(* find_period.                                                            *)

(* What it takes for the hours of a period is what validation compares.    *)
LEMMA HoursAreIntervals ==
  ASSUME NEW p, OfTheDay(p), ValidPeriod(p), NEW hour \in 0..(Day - 1)
  PROVE  On(p, hour) <=> \E x \in PeriodIntervals(p) : x[1] <= hour /\ hour < x[2]
<1>1. p.start # EndAfterMidnight(p) /\ p.start \in Int /\ EndAfterMidnight(p) \in Int
  BY DayIsLong DEF OfTheDay, ValidPeriod, EndAfterMidnight, Day
<1>2. CASE p.start < EndAfterMidnight(p)
  <2>1. PeriodIntervals(p) = {<<p.start, EndAfterMidnight(p)>>}
    BY <1>1, <1>2 DEF PeriodIntervals
  <2>2. (\E x \in PeriodIntervals(p) : x[1] <= hour /\ hour < x[2])
          <=> p.start <= hour /\ hour < EndAfterMidnight(p)
    BY <2>1
  <2> QED BY <1>1, <1>2, <2>2 DEF On
<1>3. CASE EndAfterMidnight(p) < p.start
  <2>1. PeriodIntervals(p) = {<<0, EndAfterMidnight(p)>>, <<p.start, Day>>}
    BY <1>1, <1>3 DEF PeriodIntervals, Day
  <2>2. (\E x \in PeriodIntervals(p) : x[1] <= hour /\ hour < x[2])
          <=> \/ 0 <= hour /\ hour < EndAfterMidnight(p)
              \/ p.start <= hour /\ hour < Day
    BY <2>1
  <2> QED BY <1>1, <1>3, <2>2, DayIsLong DEF On
<1> QED BY <1>1, <1>2, <1>3

LEMMA OneAtATime ==
  ASSUME NEW ps, ValidPeriods(ps), \A p \in ps : OfTheDay(p), NEW hour \in 0..(Day - 1)
  PROVE  /\ PeriodsAt(ps, hour) =
              {p \in ps : \E x \in PeriodIntervals(p) : x[1] <= hour /\ hour < x[2]}
         /\ Cardinality(PeriodsAt(ps, hour)) <= 1
<1>1. PeriodsAt(ps, hour) = {p \in ps : On(p, hour)}
  BY DEF PeriodsAt, On
<1>2. \A p \in ps : On(p, hour) <=> \E x \in PeriodIntervals(p) : x[1] <= hour /\ hour < x[2]
  BY HoursAreIntervals DEF ValidPeriods
<1>3. ASSUME NEW p \in PeriodsAt(ps, hour), NEW q \in PeriodsAt(ps, hour)
      PROVE  p = q
  <2>1. PICK x \in PeriodIntervals(p) : x[1] <= hour /\ hour < x[2]
    BY <1>1, <1>2
  <2>2. PICK y \in PeriodIntervals(q) : y[1] <= hour /\ hour < y[2]
    BY <1>1, <1>2
  <2>3. ASSUME NEW r \in ps, NEW z \in PeriodIntervals(r)
        PROVE  z[1] \in Int /\ z[2] \in Int
    BY <2>3, DayIsLong DEF OfTheDay, PeriodIntervals, EndAfterMidnight, Day
  <2>4. p \in ps /\ q \in ps
    BY <1>1
  <2>5. IntervalsOverlap(x, y)
    BY <2>1, <2>2, <2>3, <2>4 DEF IntervalsOverlap
  <2> QED BY <2>4, <2>5 DEF ValidPeriods
<1>4. Cardinality(PeriodsAt(ps, hour)) <= 1
  <2>1. CASE PeriodsAt(ps, hour) = {}
    BY <2>1, FS_EmptySet
  <2>2. CASE PeriodsAt(ps, hour) # {}
    <3>1. PICK p : PeriodsAt(ps, hour) = {p}
      BY <1>3, <2>2
    <3>2. Cardinality({p}) = 1
      BY FS_Singleton
    <3> QED BY <3>1, <3>2
  <2> QED BY <2>1, <2>2
<1> QED BY <1>1, <1>2, <1>4

-----------------------------------------------------------------------------
(* The readings of a meter.                                                *)

ReadingStartsToday ==
  /\ ValidPeriods(tariffRow.periods) /\ \A p \in tariffRow.periods : OfTheDay(p)
  /\ tariffRow.blocks \in SUBSET Block /\ IsFiniteSet(tariffRow.blocks)
  /\ ValidBlockrates(tariffRow.blocks)
  /\ metered.from \in 0..(Day - 1) /\ metered.to \in Nat /\ metered.from < metered.to
  /\ metered.lower \in Nat /\ metered.upper \in Nat

LEMMA ReadingsFollow == UseSpec => []ReadingStartsToday
<1>1. UseInit => ReadingStartsToday
  <2> SUFFICES ASSUME UseInit PROVE ReadingStartsToday
    OBVIOUS
  <2>1. /\ tariffRow \in Proposals
        /\ ValidPeriods(tariffRow.periods) /\ ValidBlockrates(tariffRow.blocks)
    BY DEF UseInit
  <2>2. PICK gap \in Heartbeats, kwh \in Amounts :
          metered = [from |-> 0, to |-> gap, lower |-> 0, upper |-> kwh]
    BY DEF UseInit
  <2>3. \A p \in tariffRow.periods : OfTheDay(p)
    BY <2>1, TariffUseAssumption DEF OfTheDay, Day
  <2>4. tariffRow.blocks \in SUBSET Block /\ IsFiniteSet(tariffRow.blocks)
    BY <2>1, TariffUseAssumption DEF Block
  <2>5. gap \in Nat \ {0} /\ kwh \in Nat
    BY TariffUseAssumption
  <2>6. /\ metered.from \in 0..(Day - 1) /\ metered.to \in Nat
        /\ metered.from < metered.to
        /\ metered.lower \in Nat /\ metered.upper \in Nat
    BY <2>2, <2>5, DayIsLong
  <2> QED BY <2>1, <2>3, <2>4, <2>6 DEF ReadingStartsToday
<1>2. ReadingStartsToday /\ [UseNext]_useVars => ReadingStartsToday'
  <2> SUFFICES ASSUME ReadingStartsToday, [UseNext]_useVars PROVE ReadingStartsToday'
    OBVIOUS
  <2>1. CASE UNCHANGED useVars
    BY <2>1 DEF useVars, ReadingStartsToday, OfTheDay
  <2>2. ASSUME NEW gap \in Heartbeats, NEW kwh \in Amounts,
               NEW start \in {0, metered.upper}, Reading(gap, kwh, start)
        PROVE  ReadingStartsToday'
    <3> DEFINE begin == metered.to % Day
    <3>1. /\ tariffRow' = tariffRow
          /\ metered' = [from |-> begin, to |-> begin + gap,
                         lower |-> start, upper |-> start + kwh]
      BY <2>2 DEF Reading, Day
    <3>2. begin \in 0..(Day - 1)
      BY TimeOfDay DEF ReadingStartsToday
    <3>3. gap \in Nat \ {0} /\ kwh \in Nat /\ start \in Nat
      BY TariffUseAssumption DEF ReadingStartsToday
    <3> HIDE DEF begin
    <3>4. /\ metered'.from \in 0..(Day - 1) /\ metered'.to \in Nat
          /\ metered'.from < metered'.to
          /\ metered'.lower \in Nat /\ metered'.upper \in Nat
      BY <3>1, <3>2, <3>3, DayIsLong
    <3> QED BY <3>1, <3>4 DEF ReadingStartsToday, OfTheDay, Day
  <2> QED BY <2>1, <2>2 DEF UseNext
<1> QED BY <1>1, <1>2, PTL DEF UseSpec

(* Billing multiplies the average price of a reading by its energy: that   *)
(* is the price of its kWh one by one, wherever the readings of a cycle    *)
(* are cut.                                                                *)
THEOREM EveryKwhIsPriced == UseSpec => []BlocksPricedByKwh
<1>1. ReadingStartsToday => BlocksPricedByKwh
  BY BlocksArePriced DEF ReadingStartsToday, BlocksPricedByKwh
<1> QED BY <1>1, ReadingsFollow, PTL

(* superset_of finds the time-of-use period of a reading just if the whole *)
(* reading lies in the period, across midnights too, if the reading is not *)
(* longer than the time that the period leaves out each day.               *)
THEOREM TouAppliesWhereItCovers == UseSpec => []TouCoversReading
<1>1. ReadingStartsToday => TouCoversReading
  <2> SUFFICES ASSUME ReadingStartsToday, NEW p \in tariffRow.periods
               PROVE  /\ (/\ Covers(p, metered.from, metered.to)
                          /\ metered.to - metered.from <= TicksPerDay) =>
                           SupersetOf(p, metered.from, metered.to)
                      /\ (/\ SupersetOf(p, metered.from, metered.to)
                          /\ metered.to - metered.from <= TimeOutside(p)) =>
                           Covers(p, metered.from, metered.to)
    BY DEF TouCoversReading
  <2>1. OfTheDay(p) /\ ValidPeriod(p)
    BY DEF ReadingStartsToday, ValidPeriods
  <2>2. metered.from \in 0..(Day - 1) /\ metered.to \in Nat /\ metered.from < metered.to
    BY DEF ReadingStartsToday
  <2> QED BY <2>1, <2>2, CoveredIsSuperset, SupersetIsCovered DEF Day
<1> QED BY <1>1, ReadingsFollow, PTL

(* In a tariff that passed validation find_period has one period at most   *)
(* to find at any hour, the one that validation took to have that hour.    *)
THEOREM LimitsAreUnique == UseSpec => []OnePeriodPerHour
<1>1. ReadingStartsToday => OnePeriodPerHour
  <2> SUFFICES ASSUME ReadingStartsToday, NEW hour \in 0..(TicksPerDay - 1)
               PROVE  /\ PeriodsAt(tariffRow.periods, hour) =
                           {p \in tariffRow.periods :
                              \E x \in PeriodIntervals(p) : x[1] <= hour /\ hour < x[2]}
                      /\ Cardinality(PeriodsAt(tariffRow.periods, hour)) <= 1
    BY DEF OnePeriodPerHour
  <2> QED BY OneAtATime DEF ReadingStartsToday, Day
<1> QED BY <1>1, ReadingsFollow, PTL
=============================================================================
