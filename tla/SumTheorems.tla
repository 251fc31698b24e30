----------------------------- MODULE SumTheorems -----------------------------
(***************************************************************************)
(* Lemmas about the sum of a function over a finite set, as MapThenSumSet   *)
(* computes it: which element it takes next does not matter.                *)
(*                                                                         *)
(* Instead of an induction on the set each lemma looks at a smallest subset *)
(* for which it fails, and finds that it has none.                          *)
(***************************************************************************)
EXTENDS Integers, FiniteSets, FiniteSetsExt, FiniteSetTheorems, TLAPS

SumOver(f, S) == MapThenSumSet(LAMBDA x : f[x], S)

\* The element taken first, the recursion, and its fixpoint.
First(s) == CHOOSE x \in s : TRUE
Summing(f, S, g) ==
  [s \in SUBSET S |-> IF s = {} THEN 0 ELSE f[First(s)] + g[s \ {First(s)}]]
Sums(f, S) == CHOOSE g : g = Summing(f, S, g)

\* A nonempty set of subsets of a finite set has a smallest member.
LEMMA SmallestSubset ==
  ASSUME NEW S, IsFiniteSet(S), NEW B \in SUBSET SUBSET S, B # {}
  PROVE  \E s \in B : \A t \in B : t \subseteq s => t = s
  <1> DEFINE R == StrictSubsetOrdering(S)
  <1>1. IsWellFoundedOn(R, FiniteSubsetsOf(S))
    BY FS_StrictSubsetOrderingWellFounded
  <1>2. FiniteSubsetsOf(S) = SUBSET S
    BY FS_FiniteSubsetsOfFinite
  <1>3. IsWellFoundedOn(R, SUBSET S)
    BY <1>1, <1>2
  <1>4. PICK s \in B : \A t \in B : ~(<<t, s>> \in R)
    <2> HIDE DEF R
    <2> QED BY <1>3, WFMin
  <1>5. ASSUME NEW t \in B, t \subseteq s, t # s
        PROVE  FALSE
    BY <1>4, <1>5 DEF StrictSubsetOrdering
  <1> QED BY <1>5

LEMMA FirstIsIn ==
  ASSUME NEW s, s # {}
  PROVE  First(s) \in s
  BY DEF First

LEMMA SumsDef ==
  ASSUME NEW f, NEW S
  PROVE  SumOver(f, S) = Sums(f, S)[S]
  BY DEF SumOver, MapThenSumSet, MapThenFoldSet, Sums, Summing, First

\* Two fixpoints agree where both are defined.
LEMMA SumsAgree ==
  ASSUME NEW f, NEW S, IsFiniteSet(S), NEW T \in SUBSET S,
         NEW g, g = Summing(f, S, g), NEW h, h = Summing(f, T, h)
  PROVE  \A s \in SUBSET T : g[s] = h[s]
  <1> DEFINE B == {s \in SUBSET T : g[s] # h[s]}
  <1> SUFFICES ASSUME B # {} PROVE FALSE
    OBVIOUS
  <1>1. B \in SUBSET SUBSET S
    OBVIOUS
  <1>2. PICK s \in B : \A t \in B : t \subseteq s => t = s
    <2> HIDE DEF B
    <2> QED BY <1>1, SmallestSubset
  <1>3. s \in SUBSET T /\ s \in SUBSET S /\ g[s] # h[s]
    BY <1>2
  <1>4. /\ g[s] = IF s = {} THEN 0 ELSE f[First(s)] + g[s \ {First(s)}]
        /\ h[s] = IF s = {} THEN 0 ELSE f[First(s)] + h[s \ {First(s)}]
    BY <1>3 DEF Summing
  <1>5. s # {} /\ g[s \ {First(s)}] # h[s \ {First(s)}]
    BY <1>3, <1>4
  <1>6. s \ {First(s)} \in B
    BY <1>3, <1>5
  <1>7. s \ {First(s)} = s
    BY <1>2, <1>6
  <1> QED BY <1>5, <1>7, FirstIsIn

LEMMA SumsExist ==
  ASSUME NEW f, NEW S, IsFiniteSet(S)
  PROVE  Sums(f, S) = Summing(f, S, Sums(f, S))
  <1> DEFINE Has(s) == \E g : g = Summing(f, s, g)
             B == {s \in SUBSET S : ~Has(s)}
  <1>1. ASSUME NEW s, Has(s)
        PROVE  Sums(f, s) = Summing(f, s, Sums(f, s))
    BY <1>1 DEF Sums
  <1>2. ASSUME B # {} PROVE FALSE
    <2>1. B \in SUBSET SUBSET S
      OBVIOUS
    <2>2. PICK s \in B : \A t \in B : t \subseteq s => t = s
      <3> HIDE DEF B
      <3> QED BY <1>2, <2>1, SmallestSubset
    <2>3. s \in SUBSET S /\ ~Has(s)
      BY <2>2
    <2> DEFINE Rest(t) == t \ {First(t)}
               g == [t \in SUBSET s |->
                      IF t = {} THEN 0 ELSE f[First(t)] + Sums(f, Rest(t))[Rest(t)]]
    <2>4. ASSUME NEW t \in SUBSET s, t # s
          PROVE  Sums(f, t) = Summing(f, t, Sums(f, t))
      <3>1. t \notin B
        BY <2>2, <2>4
      <3>2. Has(t)
        BY <2>3, <3>1
      <3> HIDE DEF Has
      <3> QED BY <1>1, <3>2
    <2>5. ASSUME NEW t \in SUBSET s, t # {}
          PROVE  g[Rest(t)] = Sums(f, Rest(t))[Rest(t)]
      <3> DEFINE u == Rest(t)
      <3>1. u \in SUBSET s /\ u # s /\ First(t) \in t
        BY <2>5, FirstIsIn
      <3>2. Sums(f, u) = Summing(f, u, Sums(f, u))
        BY <2>4, <3>1
      <3>3. Sums(f, u)[u] = IF u = {} THEN 0 ELSE f[First(u)] + Sums(f, u)[Rest(u)]
        <4> HIDE DEF u
        <4> QED BY <3>2 DEF Summing
      <3>4. g[u] = IF u = {} THEN 0 ELSE f[First(u)] + Sums(f, Rest(u))[Rest(u)]
        <4> HIDE DEF u
        <4> QED BY <3>1
      <3> SUFFICES g[u] = Sums(f, u)[u]
        OBVIOUS
      <3>5. CASE u = {}
        <4> HIDE DEF u, g
        <4> QED BY <3>3, <3>4, <3>5
      <3>6. CASE u # {}
        <4>1. First(u) \in u /\ Rest(u) \in SUBSET u /\ Rest(u) \in SUBSET s /\ Rest(u) # s
          BY <3>1, <3>6, FirstIsIn
        <4>2. Sums(f, Rest(u)) = Summing(f, Rest(u), Sums(f, Rest(u)))
          BY <2>4, <4>1
        <4>3. IsFiniteSet(u)
          BY <2>3, <3>1, FS_Subset
        <4>4. \A v \in SUBSET Rest(u) : Sums(f, u)[v] = Sums(f, Rest(u))[v]
          <5> HIDE DEF u, Rest, g, B, Has
          <5> QED BY <3>2, <4>1, <4>2, <4>3, SumsAgree
        <4>5. Sums(f, u)[Rest(u)] = Sums(f, Rest(u))[Rest(u)]
          BY <4>4
        <4> HIDE DEF u, g, Rest
        <4> QED BY <3>3, <3>4, <3>6, <4>5
      <3> QED BY <3>5, <3>6
    <2>6. \A t \in SUBSET s : t # {} =>
             f[First(t)] + Sums(f, Rest(t))[Rest(t)] = f[First(t)] + g[Rest(t)]
      BY <2>5
    <2>7. g = Summing(f, s, g)
      BY <2>6 DEF Summing
    <2> QED BY <2>3, <2>7
  <1>3. Has(S)
    BY <1>2
  <1> HIDE DEF Has
  <1> QED BY <1>1, <1>3

-----------------------------------------------------------------------------
LEMMA SumOverEmpty ==
  ASSUME NEW f
  PROVE  SumOver(f, {}) = 0
  <1>1. Sums(f, {}) = Summing(f, {}, Sums(f, {}))
    BY SumsExist, FS_EmptySet
  <1> QED BY <1>1, SumsDef DEF Summing

LEMMA SumOverFirst ==
  ASSUME NEW f, NEW S, IsFiniteSet(S), S # {}
  PROVE  SumOver(f, S) = f[First(S)] + SumOver(f, S \ {First(S)})
  <1> DEFINE T == S \ {First(S)}
  <1>1. /\ Sums(f, S) = Summing(f, S, Sums(f, S))
        /\ IsFiniteSet(T) /\ T \in SUBSET S
    BY SumsExist, FS_Subset
  <1>2. Sums(f, T) = Summing(f, T, Sums(f, T))
    BY <1>1, SumsExist
  <1>3. \A t \in SUBSET T : Sums(f, S)[t] = Sums(f, T)[t]
    <2> HIDE DEF T
    <2> QED BY <1>1, <1>2, SumsAgree
  <1>4. Sums(f, S)[T] = Sums(f, T)[T]
    BY <1>3
  <1>5. Sums(f, S)[S] = f[First(S)] + Sums(f, S)[T]
    BY <1>1 DEF Summing
  <1> QED BY <1>4, <1>5, SumsDef

LEMMA SumOverType ==
  ASSUME NEW f, NEW S, IsFiniteSet(S), \A x \in S : f[x] \in Int
  PROVE  \A s \in SUBSET S : SumOver(f, s) \in Int
  <1> DEFINE B == {s \in SUBSET S : SumOver(f, s) \notin Int}
  <1> SUFFICES ASSUME B # {} PROVE FALSE
    OBVIOUS
  <1>1. B \in SUBSET SUBSET S
    OBVIOUS
  <1>2. PICK s \in B : \A t \in B : t \subseteq s => t = s
    <2> HIDE DEF B
    <2> QED BY <1>1, SmallestSubset
  <1>3. s \in SUBSET S /\ SumOver(f, s) \notin Int /\ IsFiniteSet(s)
    BY <1>2, FS_Subset
  <1>4. s # {}
    BY <1>3, SumOverEmpty
  <1>5. First(s) \in s /\ f[First(s)] \in Int
    BY <1>3, <1>4, FirstIsIn
  <1>6. s \ {First(s)} \notin B
    BY <1>2, <1>5
  <1>7. SumOver(f, s \ {First(s)}) \in Int
    BY <1>3, <1>6
  <1>8. SumOver(f, s) = f[First(s)] + SumOver(f, s \ {First(s)})
    BY <1>3, <1>4, SumOverFirst
  <1> QED BY <1>3, <1>5, <1>7, <1>8

\* Any element may be taken first.
LEMMA SumOverRemove ==
  ASSUME NEW f, NEW S, IsFiniteSet(S), \A x \in S : f[x] \in Int
  PROVE  \A s \in SUBSET S : \A x \in s : SumOver(f, s) = f[x] + SumOver(f, s \ {x})
  <1> DEFINE Good(s) == \A x \in s : SumOver(f, s) = f[x] + SumOver(f, s \ {x})
             B == {s \in SUBSET S : ~Good(s)}
  <1> SUFFICES ASSUME B # {} PROVE FALSE
    OBVIOUS
  <1>1. B \in SUBSET SUBSET S
    OBVIOUS
  <1>2. PICK s \in B : \A t \in B : t \subseteq s => t = s
    <2> HIDE DEF B
    <2> QED BY <1>1, SmallestSubset
  <1>3. s \in SUBSET S /\ ~Good(s) /\ IsFiniteSet(s)
    BY <1>2, FS_Subset
  <1>4. PICK x \in s : SumOver(f, s) # f[x] + SumOver(f, s \ {x})
    BY <1>3
  <1> DEFINE y == First(s)
             r == s \ {x, y}
  <1>5. y \in s /\ SumOver(f, s) = f[y] + SumOver(f, s \ {y})
    BY <1>3, <1>4, FirstIsIn, SumOverFirst
  <1> HIDE DEF y
  <1>6. x # y
    BY <1>4, <1>5
  <1>7. s \ {x} \notin B /\ s \ {y} \notin B
    BY <1>2, <1>4, <1>5
  <1>8. Good(s \ {x}) /\ Good(s \ {y})
    BY <1>3, <1>7
  <1>9. (s \ {x}) \ {y} = r /\ (s \ {y}) \ {x} = r /\ r \in SUBSET S
    BY <1>3
  <1>10. /\ SumOver(f, s \ {x}) = f[y] + SumOver(f, r)
         /\ SumOver(f, s \ {y}) = f[x] + SumOver(f, r)
    BY <1>4, <1>5, <1>6, <1>8, <1>9
  <1>11. f[x] \in Int /\ f[y] \in Int /\ SumOver(f, r) \in Int
    BY <1>3, <1>4, <1>5, <1>9, SumOverType
  <1> HIDE DEF r
  <1> QED BY <1>4, <1>5, <1>10, <1>11

\* The terms are all that counts.
LEMMA SumOverEqual ==
  ASSUME NEW f, NEW g, NEW S, IsFiniteSet(S), \A x \in S : f[x] = g[x]
  PROVE  SumOver(f, S) = SumOver(g, S)
  <1> DEFINE B == {s \in SUBSET S : SumOver(f, s) # SumOver(g, s)}
  <1> SUFFICES ASSUME B # {} PROVE FALSE
    OBVIOUS
  <1>1. B \in SUBSET SUBSET S
    OBVIOUS
  <1>2. PICK s \in B : \A t \in B : t \subseteq s => t = s
    <2> HIDE DEF B
    <2> QED BY <1>1, SmallestSubset
  <1>3. s \in SUBSET S /\ SumOver(f, s) # SumOver(g, s) /\ IsFiniteSet(s)
    BY <1>2, FS_Subset
  <1>4. s # {}
    BY <1>3, SumOverEmpty
  <1>5. First(s) \in s /\ f[First(s)] = g[First(s)]
    BY <1>3, <1>4, FirstIsIn
  <1>6. SumOver(f, s \ {First(s)}) = SumOver(g, s \ {First(s)})
    BY <1>2, <1>3, <1>5
  <1> QED BY <1>3, <1>4, <1>5, <1>6, SumOverFirst

\* One term changed.
LEMMA SumOverChange ==
  ASSUME NEW f, NEW g, NEW S, IsFiniteSet(S),
         \A x \in S : f[x] \in Int /\ g[x] \in Int,
         NEW y \in S, \A x \in S \ {y} : f[x] = g[x]
  PROVE  SumOver(g, S) = SumOver(f, S) + g[y] - f[y]
  <1> DEFINE T == S \ {y}
  <1>1. IsFiniteSet(T)
    BY FS_Subset
  <1>2. SumOver(f, T) = SumOver(g, T)
    BY <1>1, SumOverEqual
  <1>3. SumOver(f, S) = f[y] + SumOver(f, T) /\ SumOver(f, T) \in Int
    BY SumOverRemove, SumOverType
  <1>4. SumOver(g, S) = g[y] + SumOver(g, T)
    BY SumOverRemove
  <1> HIDE DEF T
  <1> QED BY <1>2, <1>3, <1>4

\* One element added.
LEMMA SumOverAdd ==
  ASSUME NEW f, NEW S, IsFiniteSet(S), NEW y, y \notin S,
         \A x \in S \cup {y} : f[x] \in Int
  PROVE  SumOver(f, S \cup {y}) = f[y] + SumOver(f, S)
  <1>1. IsFiniteSet(S \cup {y}) /\ (S \cup {y}) \ {y} = S
    BY FS_AddElement
  <1> QED BY <1>1, SumOverRemove

\* No term counts.
LEMMA SumOverZero ==
  ASSUME NEW f, NEW S, IsFiniteSet(S), \A x \in S : f[x] = 0
  PROVE  SumOver(f, S) = 0
  <1> DEFINE B == {s \in SUBSET S : SumOver(f, s) # 0}
  <1> SUFFICES ASSUME B # {} PROVE FALSE
    OBVIOUS
  <1>1. B \in SUBSET SUBSET S
    OBVIOUS
  <1>2. PICK s \in B : \A t \in B : t \subseteq s => t = s
    <2> HIDE DEF B
    <2> QED BY <1>1, SmallestSubset
  <1>3. s # {}
    BY <1>2, SumOverEmpty
  <1>4. SumOver(f, s) = f[First(s)] + SumOver(f, s \ {First(s)})
    BY <1>2, <1>3, FS_Subset, SumOverFirst
  <1>5. SumOver(f, s \ {First(s)}) = 0
    BY <1>2, <1>3, FirstIsIn
  <1> QED BY <1>2, <1>3, <1>4, <1>5, FirstIsIn
=============================================================================
