------------------------------ MODULE SumLemmas ------------------------------
(***************************************************************************)
(* Sums over finite sets, for the proofs about balances and paid time.     *)
(*                                                                         *)
(* The library's SumFunctionOnSet is a fold: a function CHOOSEn to satisfy *)
(* a recursion over the subsets of the set.  That it exists, and that the  *)
(* order of the fold does not matter, is shown on a smallest               *)
(* counterexample (WFMin on numbers and on subsets), since the provers     *)
(* cannot instantiate an induction theorem.                                *)
(***************************************************************************)
EXTENDS Functions, FiniteSetTheorems, TLAPS

\* The element of a set that the fold of the library takes first.
Pick(s) == CHOOSE x \in s : TRUE

\* g gives every set of D, a set of sets, the sum of f over it.
Sums(g, f, D) ==
    g = [s \in D |-> IF s = {} THEN 0 ELSE f[Pick(s)] + g[s \ {Pick(s)}]]

\* The sums of f over the subsets of S.
Table(f, S) == CHOOSE g : Sums(g, f, SUBSET S)

\* The subsets of S with at most n elements.
Level(S, n) == {s \in SUBSET S : Cardinality(s) <= n}

\* A nonempty set of numbers has a least one.
LEMMA LeastNat ==
    ASSUME NEW T \in SUBSET Nat, T # {}
    PROVE  \E n \in T : \A m \in T : n <= m
<1>1. PICK n \in T : \A m \in T : ~(<<m, n>> \in OpToRel(<, Nat))
  BY NatLessThanWellFounded, WFMin
<1>2. \A m \in T : ~(m < n)
  BY <1>1 DEF OpToRel
<1> QED
  BY <1>2

\* A nonempty set of subsets of a finite set has a minimal one: what follows
\* uses it as induction, on a smallest counterexample.
LEMMA LeastSet ==
    ASSUME NEW S, IsFiniteSet(S), NEW T \in SUBSET (SUBSET S), T # {}
    PROVE  \E X \in T : \A Y \in T : Y \subseteq X => Y = X
<1>1. IsWellFoundedOn(StrictSubsetOrdering(S), SUBSET S)
  BY FS_StrictSubsetOrderingWellFounded, FS_FiniteSubsetsOfFinite
<1>2. PICK X \in T : \A Y \in T : ~(<<Y, X>> \in StrictSubsetOrdering(S))
  BY <1>1, WFMin
<1>3. \A Y \in T : Y \subseteq X => Y = X
  BY <1>2 DEF StrictSubsetOrdering
<1> QED
  BY <1>3

\* The element picked is in the set.
LEMMA PickIsIn ==
    ASSUME NEW s, s # {}
    PROVE  Pick(s) \in s
BY DEF Pick

\* The library's sum is a look-up in the table.
LEMMA Unfold ==
    ASSUME NEW f, NEW S
    PROVE  SumFunctionOnSet(f, S) = Table(f, S)[S]
BY DEF SumFunctionOnSet, FoldFunctionOnSet, MapThenFoldSet, Table, Sums, Pick

\* The sums over the subsets of each size exist: a least size without them
\* would get them from the size before.
LEMMA SmallerTable ==
    ASSUME NEW f, NEW S, IsFiniteSet(S), NEW n \in Nat
    PROVE  \E g : Sums(g, f, Level(S, n))
<1> DEFINE Bad == {k \in Nat : ~(\E g : Sums(g, f, Level(S, k)))}
<1> SUFFICES ASSUME Bad # {} PROVE FALSE
  OBVIOUS
<1>1. PICK k \in Bad : \A m \in Bad : k <= m
  BY LeastNat
<1>2. CASE k = 0
  <2> DEFINE g == [s \in Level(S, 0) |-> 0]
  <2>1. \A s \in Level(S, 0) : s = {}
    BY FS_Subset, FS_EmptySet, FS_CardinalityType DEF Level
  <2>2. Sums(g, f, Level(S, 0))
    BY <2>1 DEF Sums
  <2> QED
    BY <1>1, <1>2, <2>2
<1>3. CASE k # 0
  <2>1. k - 1 \in Nat /\ k - 1 \notin Bad
    BY <1>1, <1>3
  <2>2. PICK g : Sums(g, f, Level(S, k - 1))
    BY <2>1
  <2> DEFINE h == [s \in Level(S, k) |->
                      IF s = {} THEN 0 ELSE f[Pick(s)] + g[s \ {Pick(s)}]]
  <2>3. \A s \in Level(S, k - 1) : h[s] = g[s]
    <3> SUFFICES ASSUME NEW s \in Level(S, k - 1) PROVE h[s] = g[s]
      OBVIOUS
    <3>1. s \in Level(S, k)
      BY <2>1, FS_Subset, FS_CardinalityType DEF Level
    <3>2. g[s] = IF s = {} THEN 0 ELSE f[Pick(s)] + g[s \ {Pick(s)}]
      BY <2>2 DEF Sums
    <3> QED
      BY <3>1, <3>2
  <2>4. \A s \in Level(S, k) : s # {} => s \ {Pick(s)} \in Level(S, k - 1)
    <3> SUFFICES ASSUME NEW s \in Level(S, k), s # {}
                 PROVE  s \ {Pick(s)} \in Level(S, k - 1)
      OBVIOUS
    <3>1. s \in SUBSET S /\ IsFiniteSet(s) /\ Cardinality(s) \in Nat /\ Cardinality(s) <= k
      BY FS_Subset, FS_CardinalityType DEF Level
    <3>2. Pick(s) \in s
      BY PickIsIn
    <3>3. Cardinality(s \ {Pick(s)}) = Cardinality(s) - 1
      BY <3>1, <3>2, FS_RemoveElement
    <3> QED
      BY <3>1, <3>3, <2>1 DEF Level
  <2>5. h = [s \in Level(S, k) |->
                      IF s = {} THEN 0 ELSE f[Pick(s)] + h[s \ {Pick(s)}]]
    <3> HIDE DEF h
    <3>1. h = [s \in Level(S, k) |->
                  IF s = {} THEN 0 ELSE f[Pick(s)] + g[s \ {Pick(s)}]]
      BY DEF h
    <3>2. \A s \in Level(S, k) :
             (IF s = {} THEN 0 ELSE f[Pick(s)] + g[s \ {Pick(s)}])
           = (IF s = {} THEN 0 ELSE f[Pick(s)] + h[s \ {Pick(s)}])
      BY <2>3, <2>4
    <3> QED
      BY <3>1, <3>2
  <2>6. Sums(h, f, Level(S, k))
    BY <2>5 DEF Sums
  <2> QED
    BY <1>1, <2>6
<1> QED
  BY <1>2, <1>3

\* A finite set has a table of sums.
LEMMA TableSums ==
    ASSUME NEW f, NEW S, IsFiniteSet(S)
    PROVE  Sums(Table(f, S), f, SUBSET S)
<1>1. Level(S, Cardinality(S)) = SUBSET S
  BY FS_Subset DEF Level
<1>2. \E g : Sums(g, f, Level(S, Cardinality(S)))
  <2>1. Cardinality(S) \in Nat
    BY FS_CardinalityType
  <2> QED
    BY <2>1, SmallerTable
<1>3. \E g : Sums(g, f, SUBSET S)
  BY <1>1, <1>2
<1> QED
  BY <1>3 DEF Table

\* One step of the recursion the table satisfies.
LEMMA TableStep ==
    ASSUME NEW f, NEW S, IsFiniteSet(S), NEW T \in SUBSET S
    PROVE  Table(f, S)[T] =
             IF T = {} THEN 0 ELSE f[Pick(T)] + Table(f, S)[T \ {Pick(T)}]
<1> DEFINE g == Table(f, S)
<1>1. Sums(g, f, SUBSET S)
  BY TableSums
<1> HIDE DEF g
<1>2. g = [s \in SUBSET S |-> IF s = {} THEN 0 ELSE f[Pick(s)] + g[s \ {Pick(s)}]]
  BY <1>1 DEF Sums
<1>3. g[T] = IF T = {} THEN 0 ELSE f[Pick(T)] + g[T \ {Pick(T)}]
  BY <1>2
<1> QED
  BY <1>3 DEF g

\* Two tables agree where the functions they sum do.
LEMMA TablesAgree ==
    ASSUME NEW f, NEW g, NEW S, IsFiniteSet(S), NEW U \in SUBSET S,
           \A x \in U : f[x] = g[x],
           NEW T \in SUBSET U
    PROVE  Table(f, S)[T] = Table(g, U)[T]
<1> DEFINE Bad == {X \in SUBSET U : Table(f, S)[X] # Table(g, U)[X]}
<1> SUFFICES ASSUME Bad # {} PROVE FALSE
  OBVIOUS
<1>0. IsFiniteSet(U)
  BY FS_Subset
<1>1. PICK X \in Bad : \A Y \in Bad : Y \subseteq X => Y = X
  <2>1. Bad \in SUBSET (SUBSET U)
    OBVIOUS
  <2> HIDE DEF Bad
  <2> QED
    BY <1>0, <2>1, LeastSet
<1>2. X \in SUBSET U /\ X \in SUBSET S
  OBVIOUS
<1>3. CASE X = {}
  BY <1>0, <1>1, <1>2, <1>3, TableStep
<1>4. CASE X # {}
  <2>1. Pick(X) \in X
    BY <1>4, PickIsIn
  <2>2. X \ {Pick(X)} \notin Bad
    BY <1>1, <2>1
  <2>3. Table(f, S)[X \ {Pick(X)}] = Table(g, U)[X \ {Pick(X)}]
    BY <1>2, <2>2
  <2>4. Table(f, S)[X] = f[Pick(X)] + Table(f, S)[X \ {Pick(X)}]
    BY <1>2, <1>4, TableStep
  <2>5. Table(g, U)[X] = g[Pick(X)] + Table(g, U)[X \ {Pick(X)}]
    BY <1>0, <1>2, <1>4, TableStep
  <2> QED
    BY <1>1, <1>2, <2>1, <2>3, <2>4, <2>5
<1> QED
  BY <1>3, <1>4

-----------------------------------------------------------------------------

\* The sum over the empty set.
LEMMA SumOfNothing ==
    ASSUME NEW f
    PROVE  SumFunctionOnSet(f, {}) = 0
BY Unfold, TableStep, FS_EmptySet

\* Functions that agree on a finite set have the same sum over it.
LEMMA SumOfSame ==
    ASSUME NEW f, NEW g, NEW S, IsFiniteSet(S), \A x \in S : f[x] = g[x]
    PROVE  SumFunctionOnSet(f, S) = SumFunctionOnSet(g, S)
BY Unfold, TablesAgree

\* The sum is the picked element's value and the sum of the rest.
LEMMA SumPicked ==
    ASSUME NEW f, NEW S, IsFiniteSet(S), S # {}
    PROVE  SumFunctionOnSet(f, S) =
             f[Pick(S)] + SumFunctionOnSet(f, S \ {Pick(S)})
<1> DEFINE R == S \ {Pick(S)}
<1>1. R \in SUBSET S
  OBVIOUS
<1>2. Table(f, S)[R] = Table(f, R)[R]
  BY <1>1, TablesAgree
<1>3. Table(f, S)[S] = f[Pick(S)] + Table(f, S)[R]
  BY TableStep
<1> QED
  BY <1>2, <1>3, Unfold

\* A sum of integers is an integer.
LEMMA SumType ==
    ASSUME NEW f, NEW S, IsFiniteSet(S), \A x \in S : f[x] \in Int
    PROVE  SumFunctionOnSet(f, S) \in Int
<1> DEFINE Bad == {X \in SUBSET S : SumFunctionOnSet(f, X) \notin Int}
<1> SUFFICES ASSUME Bad # {} PROVE FALSE
  OBVIOUS
<1>1. PICK X \in Bad : \A Y \in Bad : Y \subseteq X => Y = X
  <2>1. Bad \in SUBSET (SUBSET S)
    OBVIOUS
  <2> HIDE DEF Bad
  <2> QED
    BY <2>1, LeastSet
<1>2. X # {}
  BY SumOfNothing
<1>3. Pick(X) \in X
  BY <1>2, PickIsIn
<1>4. X \ {Pick(X)} \notin Bad
  BY <1>1, <1>3
<1>5. SumFunctionOnSet(f, X \ {Pick(X)}) \in Int
  BY <1>4
<1>6. SumFunctionOnSet(f, X) = f[Pick(X)] + SumFunctionOnSet(f, X \ {Pick(X)})
  BY <1>2, SumPicked, FS_Subset
<1> QED
  BY <1>3, <1>5, <1>6

\* A sum of natural numbers is a natural number.
LEMMA SumIsNat ==
    ASSUME NEW f, NEW S, IsFiniteSet(S), \A x \in S : f[x] \in Nat
    PROVE  SumFunctionOnSet(f, S) \in Nat
<1> DEFINE Bad == {X \in SUBSET S : SumFunctionOnSet(f, X) \notin Nat}
<1> SUFFICES ASSUME Bad # {} PROVE FALSE
  OBVIOUS
<1>1. PICK X \in Bad : \A Y \in Bad : Y \subseteq X => Y = X
  <2>1. Bad \in SUBSET (SUBSET S)
    OBVIOUS
  <2> HIDE DEF Bad
  <2> QED
    BY <2>1, LeastSet
<1>2. X # {}
  BY SumOfNothing
<1>3. Pick(X) \in X
  BY <1>2, PickIsIn
<1>4. X \ {Pick(X)} \notin Bad
  BY <1>1, <1>3
<1>5. SumFunctionOnSet(f, X \ {Pick(X)}) \in Nat
  BY <1>4
<1>6. SumFunctionOnSet(f, X) = f[Pick(X)] + SumFunctionOnSet(f, X \ {Pick(X)})
  BY <1>2, SumPicked, FS_Subset
<1> QED
  BY <1>3, <1>5, <1>6

\* Whichever element is taken out, the sum of the rest and its value is the
\* sum: the order of the fold does not matter.
LEMMA SumTakingOut ==
    ASSUME NEW f, NEW S, IsFiniteSet(S), \A x \in S : f[x] \in Int, NEW e \in S
    PROVE  SumFunctionOnSet(f, S) = f[e] + SumFunctionOnSet(f, S \ {e})
<1> DEFINE Wrong(X) == \E x \in X :
              SumFunctionOnSet(f, X) # f[x] + SumFunctionOnSet(f, X \ {x})
           Bad == {X \in SUBSET S : Wrong(X)}
<1> SUFFICES ASSUME Bad # {} PROVE FALSE
  OBVIOUS
<1>1. PICK X \in Bad : \A Y \in Bad : Y \subseteq X => Y = X
  <2>1. Bad \in SUBSET (SUBSET S)
    OBVIOUS
  <2> HIDE DEF Bad
  <2> QED
    BY <2>1, LeastSet
<1>2. PICK x \in X : SumFunctionOnSet(f, X) # f[x] + SumFunctionOnSet(f, X \ {x})
  BY <1>1
<1>3. X \in SUBSET S /\ IsFiniteSet(X)
  BY FS_Subset
<1> DEFINE y == Pick(X)
<1>4. y \in X /\ x # y
  BY <1>2, <1>3, PickIsIn, SumPicked
<1>5. SumFunctionOnSet(f, X) = f[y] + SumFunctionOnSet(f, X \ {y})
  BY <1>2, <1>3, SumPicked
<1> HIDE DEF y
<1>6. X \ {y} \notin Bad /\ X \ {x} \notin Bad
  BY <1>1, <1>2, <1>4
<1>7. SumFunctionOnSet(f, X \ {y}) = f[x] + SumFunctionOnSet(f, (X \ {y}) \ {x})
  BY <1>2, <1>3, <1>4, <1>6
<1>8. SumFunctionOnSet(f, X \ {x}) = f[y] + SumFunctionOnSet(f, (X \ {x}) \ {y})
  BY <1>2, <1>3, <1>4, <1>6
<1>9. (X \ {x}) \ {y} = (X \ {y}) \ {x}
  OBVIOUS
<1>10. SumFunctionOnSet(f, (X \ {y}) \ {x}) \in Int
  BY <1>3, SumType, FS_Subset
<1>11. f[x] \in Int /\ f[y] \in Int
  BY <1>3, <1>4
<1> DEFINE rest == SumFunctionOnSet(f, (X \ {y}) \ {x})
<1>12. SumFunctionOnSet(f, X) = f[y] + (f[x] + rest)
  BY <1>5, <1>7
<1>13. f[x] + SumFunctionOnSet(f, X \ {x}) = f[x] + (f[y] + rest)
  BY <1>8, <1>9
<1>14. rest \in Int
  BY <1>10
<1> HIDE DEF rest
<1>15. f[y] + (f[x] + rest) = f[x] + (f[y] + rest)
  BY <1>11, <1>14
<1> QED
  BY <1>2, <1>12, <1>13, <1>15, Zenon

\* An element put in adds its value.
LEMMA SumWithOneMore ==
    ASSUME NEW f, NEW S, IsFiniteSet(S), NEW e, e \notin S,
           \A x \in S \cup {e} : f[x] \in Int
    PROVE  SumFunctionOnSet(f, S \cup {e}) = f[e] + SumFunctionOnSet(f, S)
<1>1. (S \cup {e}) \ {e} = S
  OBVIOUS
<1>2. IsFiniteSet(S \cup {e})
  BY FS_AddElement
<1> QED
  BY <1>1, <1>2, SumTakingOut

\* A function extended to one more element sums to that much more.
LEMMA SumOfExtension ==
    ASSUME NEW S, IsFiniteSet(S), NEW e, e \notin S,
           NEW f \in [S -> Int], NEW g \in [S \cup {e} -> Int],
           \A x \in S : g[x] = f[x]
    PROVE  SumFunction(g) = g[e] + SumFunction(f)
<1>1. SumFunctionOnSet(g, S \cup {e}) = g[e] + SumFunctionOnSet(g, S)
  BY SumWithOneMore
<1>2. SumFunctionOnSet(g, S) = SumFunctionOnSet(f, S)
  BY SumOfSame
<1>3. DOMAIN g = S \cup {e} /\ DOMAIN f = S
  OBVIOUS
<1> QED
  BY <1>1, <1>2, <1>3 DEF SumFunction

\* The sum of an integer-valued function is an integer.
LEMMA SumOfFunctionType ==
    ASSUME NEW S, IsFiniteSet(S), NEW f \in [S -> Int]
    PROVE  SumFunction(f) \in Int
<1>1. DOMAIN f = S
  OBVIOUS
<1> QED
  BY <1>1, SumType DEF SumFunction

\* The sum of a function extended by natural numbers does not get smaller.
LEMMA SumOfMore ==
    ASSUME NEW T, IsFiniteSet(T), NEW S \in SUBSET T,
           NEW f \in [S -> Nat], NEW g \in [T -> Nat], \A x \in S : g[x] = f[x]
    PROVE  SumFunction(f) <= SumFunction(g)
<1> DEFINE Sum(X) == SumFunctionOnSet(g, X)
           Bad == {X \in SUBSET T : S \subseteq X /\ ~(Sum(S) <= Sum(X))}
<1>0. \A X \in SUBSET T : IsFiniteSet(X) /\ Sum(X) \in Nat
  BY SumIsNat, FS_Subset
<1>1. Bad = {}
  <2> SUFFICES ASSUME Bad # {} PROVE FALSE
    OBVIOUS
  <2>1. PICK X \in Bad : \A Y \in Bad : Y \subseteq X => Y = X
    <3>1. Bad \in SUBSET (SUBSET T)
      OBVIOUS
    <3> HIDE DEF Bad
    <3> QED
      BY <3>1, LeastSet
  <2>2. X \in SUBSET T /\ S \subseteq X /\ ~(Sum(S) <= Sum(X)) /\ X # S
    BY <1>0
  <2>3. PICK x \in X : x \notin S
    BY <2>2
  <2>4. X \ {x} \notin Bad /\ S \subseteq X \ {x} /\ X \ {x} \in SUBSET T
    BY <2>1, <2>2, <2>3
  <2>5. Sum(S) <= Sum(X \ {x})
    BY <2>4
  <2>6. Sum(X) = g[x] + Sum(X \ {x})
    BY <1>0, <2>2, <2>3, SumTakingOut
  <2>7. g[x] \in Nat /\ Sum(S) \in Nat /\ Sum(X \ {x}) \in Nat
    BY <1>0, <2>2, <2>3, <2>4
  <2> HIDE DEF Sum
  <2> QED
    BY <2>2, <2>5, <2>6, <2>7
<1>2. Sum(S) <= Sum(T)
  BY <1>1
<1>3. Sum(S) = SumFunctionOnSet(f, S)
  BY <1>0, SumOfSame
<1>4. DOMAIN f = S /\ DOMAIN g = T
  OBVIOUS
<1> QED
  BY <1>2, <1>3, <1>4 DEF SumFunction
=============================================================================
