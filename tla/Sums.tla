-------------------------------- MODULE Sums --------------------------------
(***************************************************************************)
(* Sums over finite sets.  SumFunctionOnSet adds the values of a function  *)
(* up in the order in which CHOOSE happens to take the elements of the     *)
(* set; the lemmas of this module say what does not depend on that order.  *)
(*                                                                         *)
(* They are proved by taking a smallest set for which they fail, which     *)
(* needs no induction over an operator.                                    *)
(***************************************************************************)
EXTENDS FiniteSetsExt, FiniteSetTheorems, TLAPS

(* Any set of subsets of a finite set, if it is not empty, has a member    *)
(* without smaller members.                                                *)
LEMMA SmallestSubset ==
  ASSUME NEW S, IsFiniteSet(S), NEW T, T \subseteq SUBSET S, T # {}
  PROVE  \E b \in T : \A c \in T : c \subseteq b => c = b
<1>1. IsWellFoundedOn(StrictSubsetOrdering(S), SUBSET S)
  BY FS_StrictSubsetOrderingWellFounded, FS_FiniteSubsetsOfFinite
<1>2. PICK b \in T : \A c \in T : <<c, b>> \notin StrictSubsetOrdering(S)
  BY <1>1, WFMin
<1>3. \A c \in T : c \subseteq b => c = b
  BY <1>2 DEF StrictSubsetOrdering
<1> QED BY <1>2, <1>3

-----------------------------------------------------------------------------
(* The function with which the sum over S is computed.                     *)

First(s) == CHOOSE x \in s : TRUE

IsTally(g, F, S) ==
  g = [s \in SUBSET S |-> IF s = {} THEN 0 ELSE F[First(s)] + g[s \ {First(s)}]]

Tally(F, S) == CHOOSE g : IsTally(g, F, S)

LEMMA SumIsTally ==
  ASSUME NEW F, NEW S
  PROVE  SumFunctionOnSet(F, S) = Tally(F, S)[S]
BY DEF SumFunctionOnSet, FoldFunctionOnSet, MapThenFoldSet, Tally, IsTally, First

LEMMA FirstIn ==
  ASSUME NEW s, s # {}
  PROVE  First(s) \in s
BY DEF First

LEMMA TallyStep ==
  ASSUME NEW F, NEW S, NEW g, IsTally(g, F, S), NEW s \in SUBSET S
  PROVE  g[s] = IF s = {} THEN 0 ELSE F[First(s)] + g[s \ {First(s)}]
BY DEF IsTally

LEMMA TallyUnique ==
  ASSUME NEW F, NEW A, NEW B, NEW S, IsFiniteSet(S), S \subseteq A, S \subseteq B,
         NEW g, NEW h, IsTally(g, F, A), IsTally(h, F, B)
  PROVE  g[S] = h[S]
<1> DEFINE Bad == {s \in SUBSET S : g[s] # h[s]}
<1>1. SUFFICES ASSUME Bad # {} PROVE FALSE OBVIOUS
<1>2. PICK b \in Bad : \A c \in Bad : c \subseteq b => c = b
  <2>1. Bad \subseteq SUBSET S
    OBVIOUS
  <2> HIDE DEF Bad
  <2> QED BY <1>1, <2>1, SmallestSubset
<1>3. b \in SUBSET A /\ b \in SUBSET B /\ b \in SUBSET S
  BY <1>2
<1>4. b # {}
  BY <1>2, <1>3, TallyStep
<1>5. b \ {First(b)} \notin Bad
  BY <1>2, <1>4, FirstIn
<1>6. g[b \ {First(b)}] = h[b \ {First(b)}]
  BY <1>3, <1>5
<1>7. g[b] = h[b]
  BY <1>3, <1>4, <1>6, TallyStep
<1> QED BY <1>2, <1>7

LEMMA TallyExists ==
  ASSUME NEW F, NEW S, IsFiniteSet(S)
  PROVE  \E g : IsTally(g, F, S)
<1> DEFINE Bad == {s \in SUBSET S : ~\E g : IsTally(g, F, s)}
<1>1. SUFFICES ASSUME Bad # {} PROVE FALSE OBVIOUS
<1>2. PICK b \in Bad : \A c \in Bad : c \subseteq b => c = b
  <2>1. Bad \subseteq SUBSET S
    OBVIOUS
  <2> HIDE DEF Bad
  <2> QED BY <1>1, <2>1, SmallestSubset
<1> DEFINE Rest(s) == s \ {First(s)}
           G(t) == Tally(F, t)
           g == [s \in SUBSET b |-> IF s = {} THEN 0 ELSE F[First(s)] + G(Rest(s))[Rest(s)]]
<1>3. ASSUME NEW s \in SUBSET b, s # {}
      PROVE  /\ Rest(s) \in SUBSET b /\ Rest(s) # b
             /\ IsFiniteSet(Rest(s))
             /\ IsTally(G(Rest(s)), F, Rest(s))
  <2>1. Rest(s) \in SUBSET b /\ Rest(s) # b
    BY <1>3, FirstIn
  <2>2. Rest(s) \in SUBSET S
    BY <1>2, <2>1
  <2>3. \E h : IsTally(h, F, Rest(s))
    BY <2>1, <2>2, <1>2
  <2>4. IsTally(G(Rest(s)), F, Rest(s))
    BY <2>3 DEF Tally
  <2> QED BY <2>1, <2>2, <2>4, FS_Subset
<1>4. ASSUME NEW s \in SUBSET b, s # {}
      PROVE  g[Rest(s)] = G(Rest(s))[Rest(s)]
  <2> DEFINE t == Rest(s)
  <2>1. t \in SUBSET b /\ t # b /\ IsFiniteSet(t) /\ IsTally(G(t), F, t)
    BY <1>3, <1>4
  <2>2. CASE t = {}
    <3>1. g[t] = 0
      BY <2>1, <2>2
    <3>2. G(t)[t] = 0
      BY <2>1, <2>2, TallyStep
    <3> QED BY <3>1, <3>2
  <2>3. CASE t # {}
    <3>1. IsFiniteSet(Rest(t)) /\ IsTally(G(Rest(t)), F, Rest(t))
      BY <2>1, <2>3, <1>3
    <3>2. G(t)[Rest(t)] = G(Rest(t))[Rest(t)]
      BY <2>1, <3>1, TallyUnique
    <3>3. G(t)[t] = F[First(t)] + G(t)[Rest(t)]
      <4>1. t \in SUBSET t
        OBVIOUS
      <4> HIDE DEF t, G
      <4> QED BY <2>1, <2>3, <4>1, TallyStep
    <3>4. g[t] = F[First(t)] + G(Rest(t))[Rest(t)]
      BY <2>1, <2>3
    <3> QED BY <3>2, <3>3, <3>4
  <2> QED BY <2>2, <2>3
<1>5. ASSUME NEW s \in SUBSET b
      PROVE  g[s] = IF s = {} THEN 0 ELSE F[First(s)] + g[Rest(s)]
  BY <1>4
<1>6. IsTally(g, F, b)
  <2>1. g = [s \in SUBSET b |-> g[s]]
    OBVIOUS
  <2>2. g = [s \in SUBSET b |-> IF s = {} THEN 0 ELSE F[First(s)] + g[Rest(s)]]
    <3> HIDE DEF g
    <3> QED BY <2>1, <1>5
  <2> QED BY <2>2 DEF IsTally
<1> QED BY <1>2, <1>6
LEMMA SumFirst ==
  ASSUME NEW F, NEW S, IsFiniteSet(S), S # {}
  PROVE  SumFunctionOnSet(F, S)
           = F[First(S)] + SumFunctionOnSet(F, S \ {First(S)})
<1> DEFINE R == S \ {First(S)}
<1>1. IsFiniteSet(R) /\ R \in SUBSET S
  BY FS_Subset
<1>2. IsTally(Tally(F, S), F, S)
  BY TallyExists DEF Tally
<1>3. IsTally(Tally(F, R), F, R)
  BY <1>1, TallyExists DEF Tally
<1>4. Tally(F, S)[S] = F[First(S)] + Tally(F, S)[R]
  <2>1. S \in SUBSET S
    OBVIOUS
  <2> QED BY <1>2, <2>1, TallyStep
<1>5. Tally(F, S)[R] = Tally(F, R)[R]
  BY <1>1, <1>2, <1>3, TallyUnique
<1> QED BY <1>4, <1>5, SumIsTally

-----------------------------------------------------------------------------
(* What other modules need to know of a sum.                               *)

LEMMA SumEmpty ==
  ASSUME NEW F
  PROVE  SumFunctionOnSet(F, {}) = 0
<1>1. IsTally(Tally(F, {}), F, {})
  BY TallyExists, FS_EmptySet DEF Tally
<1>2. {} \in SUBSET {}
  OBVIOUS
<1>3. Tally(F, {})[{}] = 0
  BY <1>1, <1>2, TallyStep
<1> QED BY <1>3, SumIsTally

(* A sum of integers is an integer.                                        *)
LEMMA SumInt ==
  ASSUME NEW F, NEW S, IsFiniteSet(S), \A x \in S : F[x] \in Int
  PROVE  SumFunctionOnSet(F, S) \in Int
<1> DEFINE Bad == {s \in SUBSET S : SumFunctionOnSet(F, s) \notin Int}
<1>1. SUFFICES ASSUME Bad # {} PROVE FALSE OBVIOUS
<1>2. PICK b \in Bad : \A c \in Bad : c \subseteq b => c = b
  <2>1. Bad \subseteq SUBSET S
    OBVIOUS
  <2> HIDE DEF Bad
  <2> QED BY <1>1, <2>1, SmallestSubset
<1>3. b # {} /\ b \in SUBSET S /\ IsFiniteSet(b)
  <2>1. b # {}
    <3>1. 0 \in Int
      OBVIOUS
    <3>2. SumFunctionOnSet(F, {}) \in Int
      BY <3>1, SumEmpty
    <3> QED BY <3>2
  <2>2. b \in SUBSET S
    OBVIOUS
  <2> QED BY <2>1, <2>2, FS_Subset
<1>4. b \ {First(b)} \notin Bad /\ First(b) \in S
  BY <1>2, <1>3, FirstIn
<1>5. SumFunctionOnSet(F, b \ {First(b)}) \in Int
  BY <1>3, <1>4
<1>6. SumFunctionOnSet(F, b) \in Int
  BY <1>3, <1>4, <1>5, SumFirst
<1> QED BY <1>2, <1>6

(* A sum of natural numbers is a natural number.                           *)
LEMMA SumNat ==
  ASSUME NEW F, NEW S, IsFiniteSet(S), \A x \in S : F[x] \in Nat
  PROVE  SumFunctionOnSet(F, S) \in Nat
<1> DEFINE Bad == {s \in SUBSET S : SumFunctionOnSet(F, s) \notin Nat}
<1>1. SUFFICES ASSUME Bad # {} PROVE FALSE OBVIOUS
<1>2. PICK b \in Bad : \A c \in Bad : c \subseteq b => c = b
  <2>1. Bad \subseteq SUBSET S
    OBVIOUS
  <2> HIDE DEF Bad
  <2> QED BY <1>1, <2>1, SmallestSubset
<1>3. b # {} /\ b \in SUBSET S /\ IsFiniteSet(b)
  <2>1. b # {}
    <3>1. 0 \in Nat
      OBVIOUS
    <3>2. SumFunctionOnSet(F, {}) \in Nat
      BY <3>1, SumEmpty
    <3> QED BY <3>2
  <2>2. b \in SUBSET S
    OBVIOUS
  <2> QED BY <2>1, <2>2, FS_Subset
<1>4. b \ {First(b)} \notin Bad /\ First(b) \in S
  BY <1>2, <1>3, FirstIn
<1>5. SumFunctionOnSet(F, b \ {First(b)}) \in Nat
  BY <1>3, <1>4
<1>6. SumFunctionOnSet(F, b) \in Nat
  BY <1>3, <1>4, <1>5, SumFirst
<1> QED BY <1>2, <1>6

(* The order does not matter: any element may be taken out first.          *)
LEMMA SumRemove ==
  ASSUME NEW F, NEW S, IsFiniteSet(S), \A x \in S : F[x] \in Int, NEW e \in S
  PROVE  SumFunctionOnSet(F, S) = F[e] + SumFunctionOnSet(F, S \ {e})
<1> DEFINE Bad == {s \in SUBSET S : \E x \in s :
                     SumFunctionOnSet(F, s) # F[x] + SumFunctionOnSet(F, s \ {x})}
<1>1. SUFFICES ASSUME Bad # {} PROVE FALSE OBVIOUS
<1>2. PICK b \in Bad : \A c \in Bad : c \subseteq b => c = b
  <2>1. Bad \subseteq SUBSET S
    OBVIOUS
  <2> HIDE DEF Bad
  <2> QED BY <1>1, <2>1, SmallestSubset
<1>3. PICK x \in b : SumFunctionOnSet(F, b) # F[x] + SumFunctionOnSet(F, b \ {x})
  BY <1>2
<1> DEFINE f == First(b)
           rest == b \ {f}
           without == b \ {x}
           core == rest \ {x}
<1>4. /\ b \in SUBSET S /\ IsFiniteSet(b) /\ f \in b
      /\ rest \in SUBSET S /\ IsFiniteSet(rest)
      /\ without \in SUBSET S /\ IsFiniteSet(without)
      /\ core \in SUBSET S /\ IsFiniteSet(core)
  BY <1>2, <1>3, FirstIn, FS_Subset
<1>5. SumFunctionOnSet(F, b) = F[f] + SumFunctionOnSet(F, rest)
  BY <1>3, <1>4, SumFirst
<1>6. x # f
  BY <1>3, <1>5
<1>7. rest \notin Bad /\ without \notin Bad
  BY <1>2, <1>3, <1>4
<1>8. SumFunctionOnSet(F, rest) = F[x] + SumFunctionOnSet(F, core)
  BY <1>3, <1>4, <1>6, <1>7
<1>9. SumFunctionOnSet(F, without) = F[f] + SumFunctionOnSet(F, core)
  <2>1. f \in without /\ without \ {f} = core
    BY <1>4, <1>6
  <2> QED BY <1>4, <1>7, <2>1
<1>10. /\ F[f] \in Int /\ F[x] \in Int
       /\ SumFunctionOnSet(F, core) \in Int
  <2>1. F[f] \in Int /\ F[x] \in Int /\ \A y \in core : F[y] \in Int
    BY <1>3, <1>4
  <2> HIDE DEF core, f
  <2> QED BY <1>4, <2>1, SumInt
<1>11. SumFunctionOnSet(F, b) = F[x] + SumFunctionOnSet(F, without)
  <2> HIDE DEF f, rest, without, core
  <2> QED BY <1>5, <1>8, <1>9, <1>10
<1> QED BY <1>3, <1>11

(* An element more.                                                        *)
LEMMA SumAdd ==
  ASSUME NEW F, NEW S, IsFiniteSet(S), NEW e, e \notin S,
         \A x \in S \cup {e} : F[x] \in Int
  PROVE  SumFunctionOnSet(F, S \cup {e}) = SumFunctionOnSet(F, S) + F[e]
<1> DEFINE T == S \cup {e}
<1>1. IsFiniteSet(T) /\ e \in T /\ T \ {e} = S
  BY FS_AddElement
<1>2. SumFunctionOnSet(F, T) = F[e] + SumFunctionOnSet(F, T \ {e})
  <2>1. \A x \in T : F[x] \in Int
    OBVIOUS
  <2> HIDE DEF T
  <2> QED BY <1>1, <2>1, SumRemove
<1>3. F[e] \in Int /\ SumFunctionOnSet(F, S) \in Int
  BY SumInt
<1> QED
  <2>1. SumFunctionOnSet(F, T) = F[e] + SumFunctionOnSet(F, S)
    BY <1>1, <1>2
  <2> QED BY <1>3, <2>1

(* Functions equal on the set have the same sum.                           *)
LEMMA SumSame ==
  ASSUME NEW F, NEW G, NEW S, IsFiniteSet(S), \A x \in S : F[x] = G[x]
  PROVE  SumFunctionOnSet(F, S) = SumFunctionOnSet(G, S)
<1> DEFINE Bad == {s \in SUBSET S : SumFunctionOnSet(F, s) # SumFunctionOnSet(G, s)}
<1>1. SUFFICES ASSUME Bad # {} PROVE FALSE OBVIOUS
<1>2. PICK b \in Bad : \A c \in Bad : c \subseteq b => c = b
  <2>1. Bad \subseteq SUBSET S
    OBVIOUS
  <2> HIDE DEF Bad
  <2> QED BY <1>1, <2>1, SmallestSubset
<1>3. b # {} /\ b \in SUBSET S /\ IsFiniteSet(b)
  BY <1>2, SumEmpty, FS_Subset
<1>4. b \ {First(b)} \notin Bad /\ First(b) \in S
  BY <1>2, <1>3, FirstIn
<1>5. SumFunctionOnSet(F, b \ {First(b)}) = SumFunctionOnSet(G, b \ {First(b)})
  BY <1>3, <1>4
<1>6. SumFunctionOnSet(F, b) = SumFunctionOnSet(G, b)
  BY <1>3, <1>4, <1>5, SumFirst
<1> QED BY <1>2, <1>6

(* An element more, under a function that agrees with the one before.      *)
LEMMA SumExtend ==
  ASSUME NEW F, NEW G, NEW S, IsFiniteSet(S), NEW e, e \notin S,
         \A x \in S \cup {e} : G[x] \in Int, \A x \in S : G[x] = F[x]
  PROVE  SumFunctionOnSet(G, S \cup {e}) = SumFunctionOnSet(F, S) + G[e]
<1>1. SumFunctionOnSet(G, S \cup {e}) = SumFunctionOnSet(G, S) + G[e]
  BY SumAdd
<1>2. SumFunctionOnSet(G, S) = SumFunctionOnSet(F, S)
  BY SumSame
<1> QED BY <1>1, <1>2

(* The functions differ at one element at most.                            *)
LEMMA SumChange ==
  ASSUME NEW F, NEW G, NEW S, IsFiniteSet(S), NEW e \in S,
         \A x \in S : F[x] \in Int /\ G[x] \in Int,
         \A x \in S : x # e => F[x] = G[x]
  PROVE  SumFunctionOnSet(G, S) = SumFunctionOnSet(F, S) - F[e] + G[e]
<1> DEFINE R == S \ {e}
<1>1. IsFiniteSet(R) /\ R \subseteq S
  BY FS_Subset
<1>2. SumFunctionOnSet(F, S) = F[e] + SumFunctionOnSet(F, R)
  BY SumRemove
<1>3. SumFunctionOnSet(G, S) = G[e] + SumFunctionOnSet(G, R)
  BY SumRemove
<1>4. SumFunctionOnSet(F, R) = SumFunctionOnSet(G, R)
  <2>1. \A x \in R : F[x] = G[x]
    OBVIOUS
  <2> HIDE DEF R
  <2> QED BY <1>1, <2>1, SumSame
<1>5. F[e] \in Int /\ G[e] \in Int /\ SumFunctionOnSet(F, R) \in Int
  <2>1. \A x \in R : F[x] \in Int
    OBVIOUS
  <2> HIDE DEF R
  <2> QED BY <1>1, <2>1, SumInt
<1> QED BY <1>2, <1>3, <1>4, <1>5
(* Elements of value zero may be left out.                                 *)
LEMMA SumFilter ==
  ASSUME NEW F, NEW S, IsFiniteSet(S), \A x \in S : F[x] \in Int,
         NEW T \in SUBSET S, \A x \in S \ T : F[x] = 0
  PROVE  SumFunctionOnSet(F, S) = SumFunctionOnSet(F, T)
<1> DEFINE Bad == {s \in SUBSET S : T \subseteq s
                     /\ SumFunctionOnSet(F, s) # SumFunctionOnSet(F, T)}
<1>1. SUFFICES ASSUME Bad # {} PROVE FALSE OBVIOUS
<1>2. PICK b \in Bad : \A c \in Bad : c \subseteq b => c = b
  <2>1. Bad \subseteq SUBSET S
    OBVIOUS
  <2> HIDE DEF Bad
  <2> QED BY <1>1, <2>1, SmallestSubset
<1>3. PICK x \in b : x \notin T
  BY <1>2
<1> DEFINE rest == b \ {x}
<1>4. /\ IsFiniteSet(b) /\ b \subseteq S
      /\ rest \in SUBSET S /\ IsFiniteSet(rest) /\ T \subseteq rest /\ rest # b
  <2>1. b \in SUBSET S /\ rest \in SUBSET S /\ T \subseteq rest /\ rest # b
    BY <1>3
  <2> QED BY <2>1, FS_Subset
<1>5. SumFunctionOnSet(F, rest) = SumFunctionOnSet(F, T)
  BY <1>2, <1>4
<1>6. SumFunctionOnSet(F, b) = F[x] + SumFunctionOnSet(F, rest)
  BY <1>3, <1>4, SumRemove
<1>7. F[x] = 0 /\ SumFunctionOnSet(F, rest) \in Int
  <2>1. F[x] = 0 /\ \A y \in rest : F[y] \in Int
    BY <1>3, <1>4
  <2> HIDE DEF rest
  <2> QED BY <1>4, <2>1, SumInt
<1>8. SumFunctionOnSet(F, b) = SumFunctionOnSet(F, T)
  <2> HIDE DEF rest
  <2> QED BY <1>5, <1>6, <1>7
<1> QED BY <1>2, <1>8

(* The sum of sums is the sum.                                             *)
LEMMA SumPlus ==
  ASSUME NEW F, NEW G, NEW H, NEW S, IsFiniteSet(S),
         \A x \in S : F[x] \in Int /\ G[x] \in Int /\ H[x] = F[x] + G[x]
  PROVE  SumFunctionOnSet(H, S) = SumFunctionOnSet(F, S) + SumFunctionOnSet(G, S)
<1> DEFINE Bad == {s \in SUBSET S : SumFunctionOnSet(H, s)
                      # SumFunctionOnSet(F, s) + SumFunctionOnSet(G, s)}
<1>1. SUFFICES ASSUME Bad # {} PROVE FALSE OBVIOUS
<1>2. PICK b \in Bad : \A c \in Bad : c \subseteq b => c = b
  <2>1. Bad \subseteq SUBSET S
    OBVIOUS
  <2> HIDE DEF Bad
  <2> QED BY <1>1, <2>1, SmallestSubset
<1>3. SumFunctionOnSet(H, b) # SumFunctionOnSet(F, b) + SumFunctionOnSet(G, b)
  BY <1>2
<1>4. b # {} /\ b \in SUBSET S /\ IsFiniteSet(b)
  <2>1. b # {}
    <3>1. SumFunctionOnSet(H, {}) = SumFunctionOnSet(F, {}) + SumFunctionOnSet(G, {})
      BY SumEmpty
    <3> QED BY <1>3, <3>1
  <2>2. b \in SUBSET S
    OBVIOUS
  <2> QED BY <2>1, <2>2, FS_Subset
<1> DEFINE f == First(b)
           rest == b \ {f}
<1>5. f \in b /\ f \in S /\ rest \notin Bad /\ rest \in SUBSET S /\ IsFiniteSet(rest)
  <2>1. f \in b /\ f \in S /\ rest \in SUBSET S /\ rest # b
    BY <1>4, FirstIn
  <2>2. rest \notin Bad
    BY <1>2, <2>1
  <2> QED BY <2>1, <2>2, FS_Subset
<1>6. SumFunctionOnSet(H, rest) = SumFunctionOnSet(F, rest) + SumFunctionOnSet(G, rest)
  BY <1>5
<1>7. /\ SumFunctionOnSet(H, b) = H[f] + SumFunctionOnSet(H, rest)
      /\ SumFunctionOnSet(F, b) = F[f] + SumFunctionOnSet(F, rest)
      /\ SumFunctionOnSet(G, b) = G[f] + SumFunctionOnSet(G, rest)
  BY <1>4, SumFirst
<1>8. SumFunctionOnSet(F, rest) \in Int /\ SumFunctionOnSet(G, rest) \in Int
  <2>1. \A y \in rest : F[y] \in Int /\ G[y] \in Int
    BY <1>5
  <2> HIDE DEF rest
  <2> QED BY <1>5, <2>1, SumInt
<1>9. F[f] \in Int /\ G[f] \in Int /\ H[f] = F[f] + G[f]
  BY <1>5
<1>10. SumFunctionOnSet(H, b) = SumFunctionOnSet(F, b) + SumFunctionOnSet(G, b)
  <2> HIDE DEF f, rest
  <2> QED BY <1>6, <1>7, <1>8, <1>9
<1> QED BY <1>3, <1>10

-----------------------------------------------------------------------------
(* Any set of natural numbers, if it is not empty, has a smallest one.     *)
LEMMA SmallestNumber ==
  ASSUME NEW T \in SUBSET Nat, T # {}
  PROVE  \E n \in T : \A m \in T : n <= m
<1>1. PICK n \in T : \A m \in T : <<m, n>> \notin OpToRel(<, Nat)
  BY NatLessThanWellFounded, WFMin
<1>2. \A m \in T : ~(m < n)
  BY <1>1 DEF OpToRel
<1> QED BY <1>2

(* Max is the largest element of a finite set of integers.                 *)
LEMMA MaxOfSet ==
  ASSUME NEW S, IsFiniteSet(S), S # {}, \A n \in S : n \in Int
  PROVE  Max(S) \in S /\ \A y \in S : Max(S) >= y
<1> DEFINE Bad == {s \in SUBSET S : s # {} /\ ~\E x \in s : \A y \in s : x >= y}
<1>1. Bad = {}
  <2>1. SUFFICES ASSUME Bad # {} PROVE FALSE OBVIOUS
  <2>2. PICK b \in Bad : \A c \in Bad : c \subseteq b => c = b
    <3>1. Bad \subseteq SUBSET S
      OBVIOUS
    <3>2. IsFiniteSet(S)
      OBVIOUS
    <3> HIDE DEF Bad
    <3> QED BY <2>1, <3>1, <3>2, SmallestSubset
  <2>3. PICK x \in b : TRUE
    OBVIOUS
  <2> DEFINE c == b \ {x}
  <2>4. c = {} \/ \E m \in c : \A y \in c : m >= y
    <3>1. c \in SUBSET S /\ c \subseteq b /\ c # b
      BY <2>3
    <3>2. c \notin Bad
      BY <2>2, <3>1
    <3> QED BY <3>1, <3>2
  <2>5. \A y \in b : y \in Int /\ (y = x \/ y \in c)
    OBVIOUS
  <2>6. CASE c = {}
    <3>1. \A y \in b : x >= y
      BY <2>3, <2>5, <2>6
    <3> QED BY <2>3, <3>1
  <2>7. CASE \E m \in c : \A y \in c : m >= y
    <3>1. PICK m \in c : \A y \in c : m >= y
      BY <2>7
    <3>2. m \in b /\ x \in b /\ m \in Int /\ x \in Int
      BY <2>3, <2>5
    <3>3. CASE m >= x
      <4>1. \A y \in b : m >= y
        BY <2>5, <3>1, <3>3
      <4> QED BY <3>2, <4>1
    <3>4. CASE ~(m >= x)
      <4>1. \A y \in b : x >= y
        BY <2>5, <3>1, <3>2, <3>4
      <4> QED BY <3>2, <4>1
    <3> QED BY <3>3, <3>4
  <2> QED BY <2>4, <2>6, <2>7
<1>2. \E x \in S : \A y \in S : x >= y
  BY <1>1
<1> QED BY <1>2 DEF Max
=============================================================================
