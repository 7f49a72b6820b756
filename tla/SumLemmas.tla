----------------------------- MODULE SumLemmas -----------------------------
(***************************************************************************)
(* What SumFunctionOnSet of the community module Functions returns on a     *)
(* finite set of integers: the facts that invariants about totals need.     *)
(*                                                                          *)
(* The fold takes the elements in an order of its own.  That the order does *)
(* not matter is shown by counting: a natural number n is the number of     *)
(* pairs <<x, 1>> ... <<x, n>>, and the total is the number of all pairs.   *)
(***************************************************************************)
EXTENDS Integers, FiniteSets, Functions, FiniteSetTheorems, FunctionTheorems,
        WellFoundedInduction, TLAPS

\* The pairs that stand for the positive values of f on S.
Pairs(f, S) == {p \in S \X Nat : 1 <= p[2] /\ p[2] <= f[p[1]]}

Negated(f) == [x \in DOMAIN f |-> -f[x]]

Counted(f, S) == Cardinality(Pairs(f, S)) - Cardinality(Pairs(Negated(f), S))

\* g is the table of all partial sums that the fold recurs to.
PartialSums(f, S, g) ==
    g = [s \in SUBSET S |->
           IF s = {} THEN 0
           ELSE f[CHOOSE x \in s : TRUE] + g[s \ {CHOOSE x \in s : TRUE}]]

LEMMA SumUnfolded ==
  ASSUME NEW f, NEW S
  PROVE  SumFunctionOnSet(f, S) = (CHOOSE g : PartialSums(f, S, g))[S]
BY DEF SumFunctionOnSet, FoldFunctionOnSet, MapThenFoldSet, PartialSums

\* The pairs of one element.
LEMMA PairsOfOne ==
  ASSUME NEW x, NEW n \in Int
  PROVE  /\ IsFiniteSet({x} \X (1 .. n))
         /\ Cardinality({x} \X (1 .. n)) = IF n > 0 THEN n ELSE 0
<1>1. IsFiniteSet({x}) /\ Cardinality({x}) = 1
  BY FS_Singleton
<1>2. IsFiniteSet(1 .. n) /\ Cardinality(1 .. n) = IF n > 0 THEN n ELSE 0
  BY FS_Interval
<1>3. Cardinality(1 .. n) \in Nat
  BY <1>2, FS_CardinalityType
<1> QED BY <1>1, <1>2, <1>3, FS_Product

LEMMA PairsFinite ==
  ASSUME NEW D, NEW f \in [D -> Int], NEW S \in SUBSET D, IsFiniteSet(S)
  PROVE  IsFiniteSet(Pairs(f, S))
<1> DEFINE column == [x \in S |-> {x} \X (1 .. f[x])]
           columns == {column[x] : x \in S}
<1>1. column \in Surjection(S, columns)
  <2>1. column \in [S -> columns] /\ \A t \in columns : \E x \in S : column[x] = t
    OBVIOUS
  <2> QED BY <2>1, Fun_IsSurj
<1>2. IsFiniteSet(columns)
  BY <1>1, FS_Surjection
<1>3. \A t \in columns : IsFiniteSet(t)
  <2> SUFFICES ASSUME NEW x \in S PROVE IsFiniteSet({x} \X (1 .. f[x]))
    OBVIOUS
  <2>1. f[x] \in Int
    OBVIOUS
  <2> QED BY <2>1, PairsOfOne
<1>4. IsFiniteSet(UNION columns)
  BY <1>2, <1>3, FS_UNION
<1>5. Pairs(f, S) \subseteq UNION columns
  <2> SUFFICES ASSUME NEW p \in Pairs(f, S) PROVE p \in UNION columns
    OBVIOUS
  <2>1. p[1] \in S /\ p = <<p[1], p[2]>> /\ p[2] \in 1 .. f[p[1]]
    BY DEF Pairs
  <2>2. p \in column[p[1]] /\ column[p[1]] \in columns
    BY <2>1
  <2> QED BY <2>2
<1> HIDE DEF columns
<1> QED BY <1>4, <1>5, FS_Subset

\* One element more adds its value, if that is positive.
LEMMA PairsAdded ==
  ASSUME NEW D, NEW f \in [D -> Int], NEW S \in SUBSET D, IsFiniteSet(S), NEW x \in S
  PROVE  Cardinality(Pairs(f, S)) =
           Cardinality(Pairs(f, S \ {x})) + (IF f[x] > 0 THEN f[x] ELSE 0)
<1> DEFINE rest == Pairs(f, S \ {x})
           new  == {x} \X (1 .. f[x])
<1>1. IsFiniteSet(rest)
  BY PairsFinite, FS_RemoveElement
<1>2. IsFiniteSet(new) /\ Cardinality(new) = IF f[x] > 0 THEN f[x] ELSE 0
  BY PairsOfOne
<1>3. rest \cap new = {}
  BY DEF Pairs
<1>4. Pairs(f, S) = rest \cup new
  <2>1. ASSUME NEW p \in Pairs(f, S) PROVE p \in rest \cup new
    <3>1. p \in S \X Nat /\ p[2] \in 1 .. f[p[1]]
      BY DEF Pairs
    <3>2. CASE p[1] = x
      <4>1. p = <<x, p[2]>> /\ p[2] \in 1 .. f[x]
        BY <3>1, <3>2
      <4> QED BY <4>1
    <3>3. CASE p[1] # x
      BY <3>1, <3>3 DEF Pairs
    <3> QED BY <3>2, <3>3
  <2>2. ASSUME NEW p \in new PROVE p \in Pairs(f, S)
    <3>1. p = <<x, p[2]>> /\ p[2] \in 1 .. f[x]
      OBVIOUS
    <3> QED BY <3>1 DEF Pairs
  <2>3. rest \subseteq Pairs(f, S)
    BY DEF Pairs
  <2> QED BY <2>1, <2>2, <2>3
<1>5. Cardinality(rest) \in Nat /\ Cardinality(new) \in Nat
  BY <1>1, <1>2, FS_CardinalityType
<1>6. Cardinality(rest \cap new) = 0
  BY <1>3, FS_EmptySet
<1> HIDE DEF rest, new
<1>7. Cardinality(rest \cup new) = Cardinality(rest) + Cardinality(new) - Cardinality(rest \cap new)
  BY <1>1, <1>2, FS_Union
<1>8. Cardinality(rest \cup new) = Cardinality(rest) + Cardinality(new)
  BY <1>5, <1>6, <1>7
<1>9. Cardinality(Pairs(f, S)) = Cardinality(rest) + (IF f[x] > 0 THEN f[x] ELSE 0)
  BY <1>2, <1>4, <1>8
<1> QED BY ONLY <1>9 DEF rest

LEMMA CountedAdded ==
  ASSUME NEW D, NEW f \in [D -> Int], NEW S \in SUBSET D, IsFiniteSet(S), NEW x \in S
  PROVE  Counted(f, S) = f[x] + Counted(f, S \ {x})
<1>1. Negated(f) \in [D -> Int] /\ Negated(f)[x] = -f[x] /\ f[x] \in Int
  BY DEF Negated
<1>2. IsFiniteSet(S \ {x}) /\ S \ {x} \in SUBSET D
  BY FS_RemoveElement
<1>3. IsFiniteSet(Pairs(f, S \ {x})) /\ IsFiniteSet(Pairs(Negated(f), S \ {x}))
  BY <1>1, <1>2, PairsFinite
<1>6. /\ Cardinality(Pairs(f, S \ {x})) \in Nat
      /\ Cardinality(Pairs(Negated(f), S \ {x})) \in Nat
  BY <1>3, FS_CardinalityType
<1>4. Cardinality(Pairs(f, S)) =
           Cardinality(Pairs(f, S \ {x})) + (IF f[x] > 0 THEN f[x] ELSE 0)
  BY PairsAdded
<1>5. Cardinality(Pairs(Negated(f), S)) =
           Cardinality(Pairs(Negated(f), S \ {x})) + (IF -f[x] > 0 THEN -f[x] ELSE 0)
  BY <1>1, PairsAdded
<1> QED BY <1>1, <1>6, <1>4, <1>5 DEF Counted

LEMMA CountedEmpty == ASSUME NEW f PROVE Counted(f, {}) = 0
<1>1. Pairs(f, {}) = {} /\ Pairs(Negated(f), {}) = {}
  BY DEF Pairs
<1> QED BY <1>1, FS_EmptySet DEF Counted

LEMMA CountedType ==
  ASSUME NEW D, NEW f \in [D -> Int], NEW S \in SUBSET D, IsFiniteSet(S)
  PROVE  Counted(f, S) \in Int
<1>1. Negated(f) \in [D -> Int]
  BY DEF Negated
<1> QED BY <1>1, PairsFinite, FS_CardinalityType DEF Counted

\* The fold counts.
LEMMA SumCounts ==
  ASSUME NEW D, NEW f \in [D -> Int], NEW S \in SUBSET D, IsFiniteSet(S)
  PROVE  SumFunctionOnSet(f, S) = Counted(f, S)
<1> DEFINE counts == [s \in SUBSET S |-> Counted(f, s)]
           some(s) == CHOOSE x \in s : TRUE
<1>1. ASSUME NEW s \in SUBSET S, s # {}
      PROVE  /\ some(s) \in s /\ s \ {some(s)} \in SUBSET S
             /\ Counted(f, s) = f[some(s)] + Counted(f, s \ {some(s)})
  <2>1. some(s) \in s
    BY <1>1
  <2>2. IsFiniteSet(s)
    BY FS_Subset
  <2> HIDE DEF some
  <2> QED BY <2>1, <2>2, CountedAdded
<1>2. PartialSums(f, S, counts)
  <2>1. ASSUME NEW s \in SUBSET S
        PROVE  Counted(f, s) = IF s = {} THEN 0 ELSE f[some(s)] + counts[s \ {some(s)}]
    <3>1. CASE s = {}
      BY <3>1, CountedEmpty
    <3>2. CASE s # {}
      <4> HIDE DEF some
      <4> QED BY <1>1, <3>2
    <3> QED BY <3>1, <3>2
  <2> QED BY <2>1 DEF PartialSums
<1> DEFINE g == CHOOSE h : PartialSums(f, S, h)
<1>3. PartialSums(f, S, g)
  <2> HIDE DEF counts
  <2> QED BY <1>2
<1> HIDE DEF g, counts
<1> DEFINE wrong == {s \in SUBSET S : g[s] # Counted(f, s)}
<1>4. wrong = {}
  <2> SUFFICES ASSUME wrong # {} PROVE FALSE
    OBVIOUS
  <2>1. IsWellFoundedOn(StrictSubsetOrdering(S), SUBSET S)
    BY FS_StrictSubsetOrderingWellFounded, FS_FiniteSubsetsOfFinite
  <2>2. \E s \in wrong : \A t \in wrong : <<t, s>> \notin StrictSubsetOrdering(S)
    <3> HIDE DEF wrong
    <3>1. wrong \subseteq SUBSET S
      BY DEF wrong
    <3> QED BY <2>1, <3>1, WFMin
  <2>3. PICK s \in wrong : \A t \in wrong : <<t, s>> \notin StrictSubsetOrdering(S)
    BY <2>2
  <2>4. g[s] = IF s = {} THEN 0 ELSE f[some(s)] + g[s \ {some(s)}]
    BY <1>3, <2>3 DEF PartialSums
  <2>5. CASE s = {}
    BY <2>3, <2>4, <2>5, CountedEmpty
  <2>6. CASE s # {}
    <3> HIDE DEF some
    <3> DEFINE t == s \ {some(s)}
    <3>1. some(s) \in s /\ t \in SUBSET S /\ Counted(f, s) = f[some(s)] + Counted(f, t)
      BY <1>1, <2>3, <2>6
    <3>2. <<t, s>> \in StrictSubsetOrdering(S)
      BY <2>3, <3>1 DEF StrictSubsetOrdering
    <3>3. g[t] = Counted(f, t)
      BY <2>3, <3>1, <3>2
    <3> QED BY <2>3, <2>4, <2>6, <3>1, <3>3
  <2> QED BY <2>5, <2>6
<1>5. g[S] = Counted(f, S)
  BY <1>4
<1> QED BY <1>5, SumUnfolded DEF g
(***************************************************************************)
(* The facts to cite.                                                      *)
(***************************************************************************)
LEMMA SumOfNone == ASSUME NEW D, NEW f \in [D -> Int] PROVE SumFunctionOnSet(f, {}) = 0
<1>1. IsFiniteSet({})
  BY FS_EmptySet
<1>2. SumFunctionOnSet(f, {}) = Counted(f, {})
  BY <1>1, SumCounts
<1> QED BY <1>2, CountedEmpty

LEMMA SumType ==
  ASSUME NEW D, NEW f \in [D -> Int], NEW S \in SUBSET D, IsFiniteSet(S)
  PROVE  SumFunctionOnSet(f, S) \in Int
BY SumCounts, CountedType

\* One element taken out of the total.
LEMMA SumSplit ==
  ASSUME NEW D, NEW f \in [D -> Int], NEW S \in SUBSET D, IsFiniteSet(S), NEW x \in S
  PROVE  SumFunctionOnSet(f, S) = f[x] + SumFunctionOnSet(f, S \ {x})
<1>1. IsFiniteSet(S \ {x}) /\ S \ {x} \in SUBSET D
  BY FS_RemoveElement
<1>2. /\ SumFunctionOnSet(f, S) = Counted(f, S)
      /\ SumFunctionOnSet(f, S \ {x}) = Counted(f, S \ {x})
  BY <1>1, SumCounts
<1> QED BY <1>2, CountedAdded

\* The total depends on the values on S only.
LEMMA SumCongruent ==
  ASSUME NEW D, NEW f \in [D -> Int], NEW E, NEW g \in [E -> Int],
         NEW S \in SUBSET D, S \subseteq E, IsFiniteSet(S),
         \A x \in S : f[x] = g[x]
  PROVE  SumFunctionOnSet(f, S) = SumFunctionOnSet(g, S)
<1>1. \A p \in S \X Nat : p[1] \in S
  OBVIOUS
<1>2. Pairs(f, S) = Pairs(g, S)
  BY <1>1 DEF Pairs
<1>3. \A x \in S : Negated(f)[x] = Negated(g)[x]
  BY DEF Negated
<1>4. Pairs(Negated(f), S) = Pairs(Negated(g), S)
  BY <1>1, <1>3 DEF Pairs
<1>5. SumFunctionOnSet(f, S) = Counted(f, S) /\ SumFunctionOnSet(g, S) = Counted(g, S)
  BY SumCounts
<1> QED BY <1>2, <1>4, <1>5 DEF Counted

\* One value changed changes the total by as much.
LEMMA SumUpdated ==
  ASSUME NEW D, NEW f \in [D -> Int], NEW E, NEW g \in [E -> Int],
         NEW S \in SUBSET D, S \subseteq E, IsFiniteSet(S), NEW x \in S,
         \A y \in S \ {x} : f[y] = g[y]
  PROVE  SumFunctionOnSet(g, S) = SumFunctionOnSet(f, S) - f[x] + g[x]
<1>1. IsFiniteSet(S \ {x}) /\ S \ {x} \in SUBSET D /\ S \ {x} \in SUBSET E
  BY FS_RemoveElement
<1>2. SumFunctionOnSet(f, S \ {x}) = SumFunctionOnSet(g, S \ {x})
  BY <1>1, SumCongruent
<1>3. SumFunctionOnSet(f, S \ {x}) \in Int
  BY <1>1, SumType
<1>4. SumFunctionOnSet(f, S) = f[x] + SumFunctionOnSet(f, S \ {x})
  BY SumSplit
<1>5. SumFunctionOnSet(g, S) = g[x] + SumFunctionOnSet(g, S \ {x})
  <2>1. S \in SUBSET E /\ x \in S
    OBVIOUS
  <2> QED BY <2>1, SumSplit
<1>6. f[x] \in Int /\ g[x] \in Int
  OBVIOUS
<1> QED BY ONLY <1>2, <1>3, <1>4, <1>5, <1>6

\* A total of values that are not negative is at least each of them.
LEMMA SumNotNegative ==
  ASSUME NEW D, NEW f \in [D -> Int], NEW S \in SUBSET D, IsFiniteSet(S),
         \A x \in S : f[x] >= 0
  PROVE  SumFunctionOnSet(f, S) >= 0
<1>1. Negated(f) \in [D -> Int] /\ \A x \in S : Negated(f)[x] = -f[x]
  BY DEF Negated
<1>2. Pairs(Negated(f), S) = {}
  <2> SUFFICES ASSUME NEW p \in Pairs(Negated(f), S) PROVE FALSE
    OBVIOUS
  <2>1. p[1] \in S /\ p[2] \in Nat /\ 1 <= p[2] /\ p[2] <= Negated(f)[p[1]]
    BY DEF Pairs
  <2>2. Negated(f)[p[1]] = -f[p[1]] /\ f[p[1]] \in Int /\ f[p[1]] >= 0
    BY <1>1, <2>1
  <2> QED BY ONLY <2>1, <2>2
<1>3. Cardinality(Pairs(Negated(f), S)) = 0
  BY <1>2, FS_EmptySet
<1>4. Cardinality(Pairs(f, S)) \in Nat
  BY PairsFinite, FS_CardinalityType
<1> QED BY <1>3, <1>4, SumCounts DEF Counted

LEMMA SumOfZeros ==
  ASSUME NEW D, NEW f \in [D -> Int], NEW S \in SUBSET D, IsFiniteSet(S),
         \A x \in S : f[x] = 0
  PROVE  SumFunctionOnSet(f, S) = 0
<1>1. Negated(f) \in [D -> Int] /\ \A x \in S : Negated(f)[x] = 0
  BY DEF Negated
<1>2. \A p \in S \X Nat : p[1] \in S /\ p[2] \in Nat
  OBVIOUS
<1>3. Pairs(f, S) = {} /\ Pairs(Negated(f), S) = {}
  BY <1>1, <1>2 DEF Pairs
<1> QED BY <1>3, SumCounts, FS_EmptySet DEF Counted

LEMMA SumAtLeast ==
  ASSUME NEW D, NEW f \in [D -> Int], NEW S \in SUBSET D, IsFiniteSet(S), NEW x \in S,
         \A y \in S : f[y] >= 0
  PROVE  f[x] <= SumFunctionOnSet(f, S)
<1>1. IsFiniteSet(S \ {x}) /\ S \ {x} \in SUBSET D
  BY FS_RemoveElement
<1>2. SumFunctionOnSet(f, S \ {x}) >= 0 /\ SumFunctionOnSet(f, S \ {x}) \in Int
  BY <1>1, SumNotNegative, SumType
<1> QED BY <1>2, SumSplit

\* The total of two functions.
LEMMA SumOfSums ==
  ASSUME NEW D, NEW f \in [D -> Int], NEW g \in [D -> Int], NEW h \in [D -> Int],
         NEW S \in SUBSET D, IsFiniteSet(S), \A x \in S : h[x] = f[x] + g[x]
  PROVE  SumFunctionOnSet(h, S) = SumFunctionOnSet(f, S) + SumFunctionOnSet(g, S)
<1> DEFINE sum(k, s) == SumFunctionOnSet(k, s)
           wrong == {s \in SUBSET S : sum(h, s) # sum(f, s) + sum(g, s)}
<1>1. wrong = {}
  <2> SUFFICES ASSUME wrong # {} PROVE FALSE
    OBVIOUS
  <2>1. IsWellFoundedOn(StrictSubsetOrdering(S), SUBSET S)
    BY FS_StrictSubsetOrderingWellFounded, FS_FiniteSubsetsOfFinite
  <2>2. \E s \in wrong : \A t \in wrong : <<t, s>> \notin StrictSubsetOrdering(S)
    <3>1. wrong \subseteq SUBSET S
      OBVIOUS
    <3> HIDE DEF wrong
    <3> QED BY <2>1, <3>1, WFMin
  <2>3. PICK s \in wrong : \A t \in wrong : <<t, s>> \notin StrictSubsetOrdering(S)
    BY <2>2
  <2>4. IsFiniteSet(s) /\ s \in SUBSET D
    BY <2>3, FS_Subset
  <2>5. CASE s = {}
    <3>1. sum(h, {}) = 0 /\ sum(f, {}) = 0 /\ sum(g, {}) = 0
      BY SumOfNone
    <3> QED BY <2>3, <2>5, <3>1
  <2>6. CASE s # {}
    <3>1. PICK x \in s : TRUE
      BY <2>6
    <3> DEFINE t == s \ {x}
    <3>2. t \in SUBSET S /\ t \in SUBSET D /\ IsFiniteSet(t)
      BY <2>4, <2>3, FS_RemoveElement
    <3>3. <<t, s>> \in StrictSubsetOrdering(S)
      BY <2>3, <3>1, <3>2 DEF StrictSubsetOrdering
    <3>4. sum(h, t) = sum(f, t) + sum(g, t)
      BY <2>3, <3>2, <3>3
    <3>5. sum(h, s) = h[x] + sum(h, t)
      BY <2>4, SumSplit
    <3>6. sum(f, s) = f[x] + sum(f, t)
      BY <2>4, SumSplit
    <3>7. sum(g, s) = g[x] + sum(g, t)
      BY <2>4, SumSplit
    <3>8. sum(f, t) \in Int /\ sum(g, t) \in Int
      BY <3>2, SumType
    <3>9. h[x] = f[x] + g[x] /\ f[x] \in Int /\ g[x] \in Int
      BY <2>3
    <3> HIDE DEF sum, t
    <3>10. sum(h, s) = sum(f, s) + sum(g, s)
      BY ONLY <3>4, <3>5, <3>6, <3>7, <3>8, <3>9
    <3> QED BY <2>3, <3>10
  <2> QED BY <2>5, <2>6
<1> QED BY <1>1

\* A total of smaller numbers is smaller.
LEMMA SumMonotone ==
  ASSUME NEW D, NEW f \in [D -> Int], NEW g \in [D -> Int], IsFiniteSet(D),
         \A x \in D : f[x] <= g[x]
  PROVE  /\ SumFunctionOnSet(f, D) \in Int /\ SumFunctionOnSet(g, D) \in Int
         /\ SumFunctionOnSet(f, D) <= SumFunctionOnSet(g, D)
<1>0. D \in SUBSET D
  OBVIOUS
<1>1. PICK d \in [D -> Int] : \A x \in D : d[x] = g[x] - f[x]
  <2> WITNESS [x \in D |-> g[x] - f[x]] \in [D -> Int]
  <2> QED OBVIOUS
<1>2. \A x \in D : g[x] = f[x] + d[x] /\ d[x] >= 0
  BY <1>1
<1>3. SumFunctionOnSet(g, D) = SumFunctionOnSet(f, D) + SumFunctionOnSet(d, D)
  BY <1>0, <1>2, SumOfSums
<1>4. SumFunctionOnSet(d, D) >= 0
  BY <1>0, <1>2, SumNotNegative
<1>5. /\ SumFunctionOnSet(f, D) \in Int /\ SumFunctionOnSet(g, D) \in Int
      /\ SumFunctionOnSet(d, D) \in Int
  BY <1>0, SumType
<1> QED BY <1>3, <1>4, <1>5
=============================================================================
