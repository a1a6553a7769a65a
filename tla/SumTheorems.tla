----------------------------- MODULE SumTheorems ------------------------------
(***************************************************************************)
(* Sums of finitely many numbers by the folds of the library, the extremes *)
(* and the increasing list of a finite set of numbers: what the proofs of  *)
(* the components need of the operators they count and sort with.          *)
(***************************************************************************)
EXTENDS Integers, FiniteSets, Functions, FiniteSetsExt, FiniteSetTheorems, WellFoundedInduction, TLAPS

(* The sum of numbers f[x] is the number of their units.                     *)
Units(f, S) == UNION {{x} \X (1 .. f[x]) : x \in S}
Numbers(f, S) == IsFiniteSet(S) /\ \A x \in S : f[x] \in Nat

(* A finite set that is not as it should be has a smallest such subset.      *)
LEMMA SmallestSubset ==
  ASSUME NEW S, IsFiniteSet(S), NEW Bad \in SUBSET (SUBSET S), Bad # {}
  PROVE  \E s \in Bad : IsFiniteSet(s) /\ \A r \in SUBSET s : r # s => r \notin Bad
<1>1. Bad \subseteq FiniteSubsetsOf(S)
  BY FS_FiniteSubsetsOfFinite
<1>2. PICK s \in Bad : \A r \in Bad : ~(<<r, s>> \in StrictSubsetOrdering(S))
  BY <1>1, FS_StrictSubsetOrderingWellFounded, WFMin
<1>3. IsFiniteSet(s)
  BY FS_Subset
<1>4. ASSUME NEW r \in SUBSET s, r # s, r \in Bad PROVE FALSE
  BY <1>2, <1>4 DEF StrictSubsetOrdering
<1> QED
  BY <1>3, <1>4

(* A number has as many units.                                               *)
LEMMA OneUnits ==
  ASSUME NEW a, NEW n \in Nat
  PROVE  IsFiniteSet({a} \X (1 .. n)) /\ Cardinality({a} \X (1 .. n)) = n
<1>1. IsFiniteSet({a}) /\ Cardinality({a}) = 1
  BY FS_Singleton
<1>2. IsFiniteSet(1 .. n) /\ Cardinality(1 .. n) = n
  BY FS_Interval
<1>3. IsFiniteSet({a} \X (1 .. n)) /\ Cardinality({a} \X (1 .. n)) = Cardinality({a}) * Cardinality(1 .. n)
  <2> DEFINE A == {a}
             N == 1 .. n
  <2> HIDE DEF A, N
  <2>1. IsFiniteSet(A) /\ IsFiniteSet(N)
    BY <1>1, <1>2 DEF A, N
  <2>2. IsFiniteSet(A \X N) /\ Cardinality(A \X N) = Cardinality(A) * Cardinality(N)
    BY <2>1, FS_Product
  <2> QED
    BY <2>2 DEF A, N
<1> QED
  BY <1>1, <1>2, <1>3

(* The units of finitely many numbers are finitely many.                     *)
LEMMA UnitsCount ==
  ASSUME NEW f, NEW S, Numbers(f, S)
  PROVE  IsFiniteSet(Units(f, S)) /\ Cardinality(Units(f, S)) \in Nat
<1> DEFINE Bad == {s \in SUBSET S : ~IsFiniteSet(Units(f, s))}
<1>1. Bad = {}
  <2> SUFFICES ASSUME Bad # {} PROVE FALSE
    OBVIOUS
  <2>1. PICK s \in Bad : IsFiniteSet(s) /\ \A r \in SUBSET s : r # s => r \notin Bad
    <3> HIDE DEF Bad
    <3>1. Bad \in SUBSET (SUBSET S)
      BY DEF Bad
    <3> QED BY <3>1, SmallestSubset DEF Numbers
  <2>2. CASE s = {}
    <3>1. Units(f, s) = {}
      BY <2>2 DEF Units
    <3> QED
      BY <3>1, FS_EmptySet
  <2>3. ASSUME NEW a \in s PROVE FALSE
    <3>1. IsFiniteSet(Units(f, s \ {a}))
      <4>1. s \ {a} \in SUBSET s /\ s \ {a} # s /\ s \ {a} \in SUBSET S
        BY <2>3
      <4> QED
        BY <2>1, <4>1
    <3>2. Units(f, s) = ({a} \X (1 .. f[a])) \cup Units(f, s \ {a})
      BY <2>3 DEF Units
    <3>3. IsFiniteSet({a} \X (1 .. f[a]))
      BY <2>3, OneUnits DEF Numbers
    <3>4. IsFiniteSet(({a} \X (1 .. f[a])) \cup Units(f, s \ {a}))
      <4> DEFINE A == {a} \X (1 .. f[a])
                 B == Units(f, s \ {a})
      <4> HIDE DEF A, B
      <4>1. IsFiniteSet(A) /\ IsFiniteSet(B)
        BY <3>1, <3>3 DEF A, B
      <4>2. IsFiniteSet(A \cup B)
        BY <4>1, FS_Union
      <4> QED
        BY <4>2 DEF A, B
    <3> QED
      BY <3>2, <3>4
  <2> QED
    BY <2>2, <2>3
<1>2. S \in SUBSET S
  OBVIOUS
<1>3. IsFiniteSet(Units(f, S))
  BY <1>1, <1>2
<1> QED
  BY <1>3, FS_CardinalityType

(* One number's units and those of the others.                               *)
LEMMA UnitsSplit ==
  ASSUME NEW f, NEW S, Numbers(f, S), NEW a \in S
  PROVE  Cardinality(Units(f, S)) = f[a] + Cardinality(Units(f, S \ {a}))
<1> DEFINE A == {a} \X (1 .. f[a])
           B == Units(f, S \ {a})
<1>1. Units(f, S) = A \cup B
  BY DEF Units
<1>2. A \cap B = {}
  BY DEF Units
<1>3. IsFiniteSet(A) /\ Cardinality(A) = f[a]
  BY OneUnits DEF Numbers
<1>4. IsFiniteSet(B) /\ Cardinality(B) \in Nat
  <2>1. Numbers(f, S \ {a})
    BY FS_Difference DEF Numbers
  <2> QED
    BY <2>1, UnitsCount
<1>5. f[a] \in Nat
  BY DEF Numbers
<1> HIDE DEF A, B
<1>6. Cardinality(A \cap B) = 0
  BY <1>2, FS_EmptySet
<1>7. Cardinality(A \cup B) = Cardinality(A) + Cardinality(B) - Cardinality(A \cap B)
  BY <1>3, <1>4, FS_Union
<1>8. Cardinality(A \cup B) = f[a] + Cardinality(B)
  BY <1>3, <1>4, <1>5, <1>6, <1>7
<1> QED
  BY <1>1, <1>8 DEF B

(* The fold of the library counts the units: a sum.                          *)
LEMMA SumIsUnits ==
  ASSUME NEW f, NEW S, Numbers(f, S)
  PROVE  SumFunctionOnSet(f, S) = Cardinality(Units(f, S)) /\ SumFunctionOnSet(f, S) \in Nat
<1> DEFINE choose(s) == CHOOSE x \in s : TRUE
           body(g) == [s \in SUBSET S |-> IF s = {} THEN 0 ELSE f[choose(s)] + g[s \ {choose(s)}]]
           n == [s \in SUBSET S |-> Cardinality(Units(f, s))]
           it == CHOOSE g : g = body(g)
<1>1. n = body(n)
  <2> SUFFICES ASSUME NEW s \in SUBSET S
               PROVE  n[s] = IF s = {} THEN 0 ELSE f[choose(s)] + n[s \ {choose(s)}]
    OBVIOUS
  <2>1. CASE s = {}
    BY <2>1, FS_EmptySet DEF Units
  <2>2. CASE s # {}
    <3>1. choose(s) \in s /\ Numbers(f, s)
      BY <2>2, FS_Subset DEF Numbers
    <3> HIDE DEF choose
    <3>3. Cardinality(Units(f, s)) = f[choose(s)] + Cardinality(Units(f, s \ {choose(s)}))
      BY <3>1, UnitsSplit
    <3> QED
      BY <2>2, <3>1, <3>3
  <2> QED
    BY <2>1, <2>2
<1>2. it = body(it)
  <2> HIDE DEF n, body
  <2> QED BY <1>1
<1>3. SumFunctionOnSet(f, S) = it[S]
  BY DEF SumFunctionOnSet, FoldFunctionOnSet, MapThenFoldSet
<1>4. \A s \in SUBSET S : it[s] = n[s]
  <2> DEFINE Bad == {s \in SUBSET S : it[s] # n[s]}
  <2> SUFFICES ASSUME Bad # {} PROVE FALSE
    OBVIOUS
  <2> HIDE DEF it, n
  <2>1. PICK s \in Bad : \A r \in SUBSET s : r # s => r \notin Bad
    <3> HIDE DEF Bad
    <3>1. Bad \in SUBSET (SUBSET S)
      BY DEF Bad
    <3> QED BY <3>1, SmallestSubset DEF Numbers
  <2>2. \A r \in SUBSET s : r # s => it[r] = n[r]
    BY <2>1
  <2>3. it[s] = n[s]
    BY <1>1, <1>2, <2>2
  <2> QED BY <2>3
<1>5. S \in SUBSET S
  OBVIOUS
<1>6. SumFunctionOnSet(f, S) = Cardinality(Units(f, S))
  BY <1>3, <1>4, <1>5
<1> QED
  BY <1>6, UnitsCount

(* A sum over a larger set of larger numbers is larger.                      *)
LEMMA SumGrows ==
  ASSUME NEW f, NEW g, NEW D, NEW E, Numbers(f, D), Numbers(g, E), D \subseteq E,
         \A x \in D : f[x] <= g[x]
  PROVE  /\ SumFunctionOnSet(f, D) <= SumFunctionOnSet(g, E)
         /\ (\E a \in E : g[a] > 0 /\ (a \notin D \/ f[a] < g[a])) => SumFunctionOnSet(f, D) + 1 <= SumFunctionOnSet(g, E)
<1>1. /\ SumFunctionOnSet(f, D) = Cardinality(Units(f, D)) /\ SumFunctionOnSet(f, D) \in Nat
      /\ SumFunctionOnSet(g, E) = Cardinality(Units(g, E)) /\ SumFunctionOnSet(g, E) \in Nat
  BY SumIsUnits
<1>2. Units(f, D) \subseteq Units(g, E)
  <2> SUFFICES ASSUME NEW x \in D, NEW i \in 1 .. f[x] PROVE <<x, i>> \in Units(g, E)
    BY DEF Units
  <2>1. x \in E /\ i \in 1 .. g[x]
    BY DEF Numbers
  <2> QED
    BY <2>1 DEF Units
<1>3. IsFiniteSet(Units(g, E))
  BY UnitsCount
<1>4. /\ Cardinality(Units(f, D)) <= Cardinality(Units(g, E))
      /\ Cardinality(Units(f, D)) = Cardinality(Units(g, E)) => Units(f, D) = Units(g, E)
  BY <1>2, <1>3, FS_Subset
<1>5. ASSUME NEW a \in E, g[a] > 0, a \notin D \/ f[a] < g[a] PROVE Units(f, D) # Units(g, E)
  <2>1. g[a] \in 1 .. g[a]
    BY <1>5 DEF Numbers
  <2>2. <<a, g[a]>> \in Units(g, E)
    BY <2>1 DEF Units
  <2>3. <<a, g[a]>> \notin Units(f, D)
    <3>1. ASSUME a \in D, g[a] \in 1 .. f[a] PROVE FALSE
      BY <1>5, <3>1 DEF Numbers
    <3> QED BY <3>1 DEF Units
  <2> QED
    BY <2>2, <2>3
<1>6. SumFunctionOnSet(f, D) <= SumFunctionOnSet(g, E)
  BY <1>1, <1>4
<1>7. ASSUME NEW a \in E, g[a] > 0, a \notin D \/ f[a] < g[a]
      PROVE  SumFunctionOnSet(f, D) + 1 <= SumFunctionOnSet(g, E)
  BY <1>1, <1>4, <1>5, <1>7
<1> QED
  BY <1>6, <1>7

(* Sums of the same numbers are the same.                                    *)
LEMMA SumSame ==
  ASSUME NEW f, NEW g, NEW S, \A x \in S : f[x] = g[x], Numbers(f, S)
  PROVE  SumFunctionOnSet(f, S) = SumFunctionOnSet(g, S)
<1>1. Numbers(g, S) /\ Units(f, S) = Units(g, S)
  BY DEF Numbers, Units
<1> QED
  BY <1>1, SumIsUnits

(* Changing one number changes the sum by as much.                           *)
LEMMA SumChanges ==
  ASSUME NEW f, NEW g, NEW S, NEW a \in S, Numbers(f, S), g[a] \in Nat, \A x \in S : x # a => f[x] = g[x]
  PROVE  SumFunctionOnSet(g, S) = SumFunctionOnSet(f, S) - f[a] + g[a]
<1>1. Numbers(g, S) /\ Units(f, S \ {a}) = Units(g, S \ {a}) /\ Numbers(f, S \ {a})
  BY FS_Difference DEF Numbers, Units
<1>2. Cardinality(Units(f, S \ {a})) \in Nat
  BY <1>1, UnitsCount
<1>3. /\ SumFunctionOnSet(f, S) = f[a] + Cardinality(Units(f, S \ {a}))
      /\ SumFunctionOnSet(g, S) = g[a] + Cardinality(Units(f, S \ {a}))
  BY <1>1, SumIsUnits, UnitsSplit
<1> QED
  BY <1>2, <1>3 DEF Numbers

(* One number and the sum of the others.                                     *)
LEMMA SumSplit ==
  ASSUME NEW f, NEW S, Numbers(f, S)
  PROVE  \A a \in S : /\ SumFunctionOnSet(f, S) = f[a] + SumFunctionOnSet(f, S \ {a})
                      /\ SumFunctionOnSet(f, S \ {a}) \in Nat
<1> SUFFICES ASSUME NEW a \in S
             PROVE  /\ SumFunctionOnSet(f, S) = f[a] + SumFunctionOnSet(f, S \ {a})
                    /\ SumFunctionOnSet(f, S \ {a}) \in Nat
  OBVIOUS
<1>1. PICK T : T = S \ {a}
  OBVIOUS
<1>2. Numbers(f, T)
  BY <1>1, FS_Difference DEF Numbers
<1>3. /\ SumFunctionOnSet(f, S) = Cardinality(Units(f, S))
      /\ SumFunctionOnSet(f, T) = Cardinality(Units(f, T)) /\ SumFunctionOnSet(f, T) \in Nat
  BY <1>2, SumIsUnits
<1>4. Cardinality(Units(f, S)) = f[a] + Cardinality(Units(f, T))
  BY <1>1, UnitsSplit
<1> QED
  BY <1>1, <1>3, <1>4

(* The first or the last number of a list, and the others.                   *)
LEMMA SumOfList ==
  ASSUME NEW f, NEW n \in Nat, Numbers(f, 1 .. (n + 1))
  PROVE  /\ SumFunctionOnSet(f, 1 .. (n + 1)) = f[1] + SumFunctionOnSet(f, 2 .. (n + 1))
         /\ SumFunctionOnSet(f, 1 .. (n + 1)) = SumFunctionOnSet(f, 1 .. n) + f[n + 1]
<1>1. PICK S : S = 1 .. (n + 1)
  OBVIOUS
<1>2. 1 \in S /\ n + 1 \in S /\ Numbers(f, S) /\ f[1] \in Nat /\ f[n + 1] \in Nat
  BY <1>1 DEF Numbers
<1>3. 2 .. (n + 1) = S \ {1} /\ 1 .. n = S \ {n + 1}
  BY <1>1
<1>4. \A a \in S : /\ SumFunctionOnSet(f, S) = f[a] + SumFunctionOnSet(f, S \ {a})
                   /\ SumFunctionOnSet(f, S \ {a}) \in Nat
  BY <1>2, SumSplit
<1>5. SumFunctionOnSet(f, S) = f[1] + SumFunctionOnSet(f, 2 .. (n + 1))
  BY <1>2, <1>3, <1>4
<1>6. SumFunctionOnSet(f, S) = f[n + 1] + SumFunctionOnSet(f, 1 .. n) /\ SumFunctionOnSet(f, 1 .. n) \in Nat
  BY <1>2, <1>3, <1>4
<1> QED
  BY <1>1, <1>2, <1>5, <1>6

(* The sum of a list does not depend on where the list begins.               *)
LEMMA SumShift ==
  ASSUME NEW f, NEW g, NEW n \in Nat, \A i \in 2 .. (n + 1) : f[i] \in Nat, \A i \in 1 .. n : g[i] = f[i + 1]
  PROVE  SumFunctionOnSet(g, 1 .. n) = SumFunctionOnSet(f, 2 .. (n + 1))
<1>1. Numbers(g, 1 .. n) /\ Numbers(f, 2 .. (n + 1))
  <2>1. \A i \in 1 .. n : g[i] \in Nat
    <3> SUFFICES ASSUME NEW i \in 1 .. n PROVE g[i] \in Nat
      OBVIOUS
    <3>1. i + 1 \in 2 .. (n + 1)
      OBVIOUS
    <3> QED
      BY <3>1
  <2> QED
    BY <2>1, FS_Interval DEF Numbers
<1>2. PICK A : A = Units(g, 1 .. n)
  OBVIOUS
<1>3. PICK B : B = Units(f, 2 .. (n + 1))
  OBVIOUS
<1>4. PICK h : h = [p \in A |-> <<p[1] + 1, p[2]>>]
  OBVIOUS
<1>5. \A p : p \in A <=> \E i \in 1 .. n : \E k \in 1 .. f[i + 1] : p = <<i, k>>
  BY <1>2 DEF Units
<1>6. \A p : p \in B <=> \E i \in 2 .. (n + 1) : \E k \in 1 .. f[i] : p = <<i, k>>
  BY <1>3 DEF Units
<1>7. \A p \in A : h[p] \in B
  <2> SUFFICES ASSUME NEW i \in 1 .. n, NEW k, k \in 1 .. f[i + 1], <<i, k>> \in A PROVE h[<<i, k>>] \in B
    BY <1>5
  <2>1. h[<<i, k>>] = <<i + 1, k>> /\ i + 1 \in 2 .. (n + 1)
    BY <1>4
  <2> QED
    BY <1>6, <2>1
<1>8. ASSUME NEW p \in A, NEW q \in A, h[p] = h[q] PROVE p = q
  <2>1. PICK i \in 1 .. n : \E k : p = <<i, k>>
    BY <1>5
  <2>2. PICK j \in 1 .. n : \E k : q = <<j, k>>
    BY <1>5
  <2>3. PICK k : p = <<i, k>>
    BY <2>1
  <2>4. PICK l : q = <<j, l>>
    BY <2>2
  <2>5. h[p] = <<i + 1, k>> /\ h[q] = <<j + 1, l>>
    BY <1>4, <2>3, <2>4
  <2> QED
    BY <1>8, <2>3, <2>4, <2>5
<1>9. \A q \in B : \E p \in A : h[p] = q
  <2> SUFFICES ASSUME NEW q \in B PROVE \E p \in A : h[p] = q
    OBVIOUS
  <2>4. PICK i \in 2 .. (n + 1) : \E k \in 1 .. f[i] : q = <<i, k>>
    BY <1>6
  <2>5. PICK k \in 1 .. f[i] : q = <<i, k>>
    BY <2>4
  <2>1. i - 1 \in 1 .. n /\ (i - 1) + 1 = i
    OBVIOUS
  <2>2. <<i - 1, k>> \in A
    BY <1>5, <2>1
  <2>3. h[<<i - 1, k>>] = <<i, k>>
    BY <1>4, <2>1, <2>2
  <2> QED
    BY <2>2, <2>3, <2>5
<1>10. h \in Bijection(A, B)
  BY <1>4, <1>7, <1>8, <1>9 DEF Bijection, Injection, Surjection, IsInjective
<1>11. IsFiniteSet(A)
  BY <1>1, <1>2, UnitsCount
<1>12. Cardinality(A) = Cardinality(B)
  <2>1. ExistsBijection(A, B)
    BY <1>10 DEF ExistsBijection
  <2> QED
    BY <1>11, <2>1, FS_Bijection
<1> QED
  BY <1>1, <1>2, <1>3, <1>12, SumIsUnits

(* Nothing adds up to nothing.                                               *)
LEMMA SumNothing ==
  ASSUME NEW f, NEW S, IsFiniteSet(S), \A x \in S : f[x] = 0
  PROVE  SumFunctionOnSet(f, S) = 0
<1>1. Numbers(f, S) /\ Units(f, S) = {}
  BY DEF Numbers, Units
<1> QED
  BY <1>1, SumIsUnits, FS_EmptySet

(* A finite set of numbers that is not empty has a least and a greatest one. *)
LEMMA Extremes ==
  ASSUME NEW S \in SUBSET Int, IsFiniteSet(S), S # {}
  PROVE  /\ Min(S) \in S /\ \A x \in S : Min(S) <= x
         /\ Max(S) \in S /\ \A x \in S : Max(S) >= x
<1> DEFINE Least(s, m)    == m \in s /\ \A x \in s : m <= x
           Greatest(s, m) == m \in s /\ \A x \in s : m >= x
           Bad == {s \in SUBSET S : s # {} /\ ~((\E m \in s : Least(s, m)) /\ (\E m \in s : Greatest(s, m)))}
<1>1. Bad = {}
  <2> SUFFICES ASSUME Bad # {} PROVE FALSE
    OBVIOUS
  <2>1. Bad \in SUBSET (SUBSET S)
    OBVIOUS
  <2>2. PICK s \in Bad : \A r \in SUBSET s : r # s => r \notin Bad
    <3> HIDE DEF Bad
    <3> QED BY <2>1, SmallestSubset
  <2>3. PICK a : a \in s
    OBVIOUS
  <2>4. a \in Int /\ s \subseteq Int /\ s \ {a} \in SUBSET s /\ s \ {a} # s /\ s \ {a} \in SUBSET S
    BY <2>3
  <2>5. CASE s = {a}
    <3>1. Least(s, a) /\ Greatest(s, a)
      BY <2>4, <2>5
    <3> QED
      BY <2>3, <3>1
  <2>6. CASE s # {a}
    <3>1. s \ {a} # {} /\ s \ {a} \notin Bad
      <4>1. s \ {a} \notin Bad
        <5> HIDE DEF Bad
        <5> QED BY <2>2, <2>4
      <4> QED
        BY <2>3, <2>6, <4>1
    <3>2. PICK m \in s \ {a} : Least(s \ {a}, m)
      BY <2>4, <3>1
    <3>3. PICK n \in s \ {a} : Greatest(s \ {a}, n)
      BY <2>4, <3>1
    <3>4. Least(s, IF a <= m THEN a ELSE m) /\ Greatest(s, IF a >= n THEN a ELSE n)
      BY <2>3, <2>4, <3>2, <3>3
    <3> QED
      BY <3>4
  <2> QED
    BY <2>5, <2>6
<1>2. S \in SUBSET S /\ S \notin Bad
  BY <1>1
<1>3. (\E m \in S : Least(S, m)) /\ (\E m \in S : Greatest(S, m))
  BY <1>2
<1> QED
  BY <1>3 DEF Min, Max

Increasing(list) == \A i, j \in DOMAIN list : i < j => list[i] < list[j]

(* A greater number goes to the end of an increasing list.                   *)
LEMMA Longer ==
  ASSUME NEW n \in Nat \ {0}, NEW r \in SUBSET Int, NEW m \in Int, \A x \in r : x < m,
         NEW list \in [1 .. n - 1 -> r], Increasing(list)
  PROVE  \E longer \in [1 .. n -> r \cup {m}] : Increasing(longer)
<1> DEFINE longer == [i \in 1 .. n |-> IF i = n THEN m ELSE list[i]]
<1>1. \A i \in 1 .. n : i # n => i \in 1 .. n - 1 /\ list[i] \in r
  OBVIOUS
<1>2. longer \in [1 .. n -> r \cup {m}]
  BY <1>1
<1>3. ASSUME NEW i \in 1 .. n, NEW j \in 1 .. n, i < j PROVE longer[i] < longer[j]
  <2>1. i \in 1 .. n - 1 /\ longer[i] = list[i] /\ list[i] \in r
    BY <1>1, <1>3
  <2>2. CASE j = n
    BY <2>1, <2>2
  <2>3. CASE j # n
    BY <1>1, <1>3, <2>1, <2>3 DEF Increasing
  <2> QED
    BY <2>2, <2>3
<1> QED
  BY <1>2, <1>3 DEF Increasing

(* The numbers of a finite set have an increasing list.                      *)
LEMMA Sorted ==
  ASSUME NEW S \in SUBSET Int, IsFiniteSet(S)
  PROVE  \E list \in [1 .. Cardinality(S) -> S] : Increasing(list)
<1> DEFINE Bad == {s \in SUBSET S : ~\E list \in [1 .. Cardinality(s) -> s] : Increasing(list)}
<1>1. Bad = {}
  <2> SUFFICES ASSUME Bad # {} PROVE FALSE
    OBVIOUS
  <2>1. Bad \in SUBSET (SUBSET S)
    OBVIOUS
  <2>2. PICK s \in Bad : IsFiniteSet(s) /\ \A r \in SUBSET s : r # s => r \notin Bad
    <3> HIDE DEF Bad
    <3> QED BY <2>1, SmallestSubset
  <2>3. s \in SUBSET S /\ s \subseteq Int
    OBVIOUS
  <2>4. CASE s = {}
    <3>1. Cardinality(s) = 0
      BY <2>4, FS_EmptySet
    <3>2. [i \in {} |-> 0] \in [1 .. Cardinality(s) -> s] /\ Increasing([i \in {} |-> 0])
      BY <3>1 DEF Increasing
    <3> QED
      BY <3>2
  <2>5. CASE s # {}
    <3> DEFINE m == Max(s)
               r == s \ {m}
               n == Cardinality(s)
    <3>1. m \in s /\ \A x \in s : m >= x
      BY <2>2, <2>3, <2>5, Extremes
    <3>2. r \in SUBSET S /\ r \in SUBSET s /\ r # s
      BY <2>3, <3>1
    <3>3. IsFiniteSet(r) /\ Cardinality(r) = n - 1 /\ n \in Nat /\ n - 1 \in Nat
      <4>1. IsFiniteSet(r) /\ Cardinality(r) = n - 1
        BY <2>2, <3>1, FS_RemoveElement
      <4>2. n \in Nat
        BY <2>2, FS_CardinalityType
      <4>3. Cardinality(r) \in Nat
        BY <4>1, FS_CardinalityType
      <4> QED
        BY <4>1, <4>2, <4>3
    <3>4. PICK list \in [1 .. Cardinality(r) -> r] : Increasing(list)
      BY <2>2, <3>2
    <3> HIDE DEF m, n
    <3>5. m \in Int /\ r \in SUBSET Int /\ s = r \cup {m} /\ \A x \in r : x < m
      BY <2>3, <3>1
    <3> HIDE DEF r
    <3>6. list \in [1 .. n - 1 -> r] /\ n \in Nat \ {0}
      BY <3>3
    <3>7. \E longer \in [1 .. n -> r \cup {m}] : Increasing(longer)
      BY <3>4, <3>5, <3>6, Longer
    <3> QED
      BY <3>5, <3>7 DEF n
  <2> QED
    BY <2>4, <2>5
<1> QED
  BY <1>1

(* k lists the n numbers of S in their order.                                *)
Orders(k, n, S) == n \in Nat /\ k \in [1 .. n -> S] /\ Increasing(k) /\ \A x \in S : \E i \in 1 .. n : k[i] = x

(* A number of the one list that the other has elsewhere would be out of     *)
(* order there: the lists begin alike.                                       *)
LEMMA NotBefore ==
  ASSUME NEW S \in SUBSET Int, NEW k, NEW l, NEW n, NEW m, Orders(k, n, S), Orders(l, m, S),
         NEW i \in 1 .. n, i \in 1 .. m, \A j \in 1 .. n : j < i => k[j] = l[j]
  PROVE  ~(k[i] < l[i])
<1> SUFFICES ASSUME k[i] < l[i] PROVE FALSE
  OBVIOUS
<1>1. n \in Nat /\ m \in Nat /\ i \in Int
  BY DEF Orders
<1>2. k[i] \in S /\ l[i] \in S /\ DOMAIN k = 1 .. n /\ DOMAIN l = 1 .. m
  BY DEF Orders
<1>3. PICK j \in 1 .. m : l[j] = k[i]
  BY <1>2 DEF Orders
<1>4. k[i] \in Int /\ l[i] \in Int /\ j \in Int
  <2>1. S \subseteq Int
    OBVIOUS
  <2>2. k[i] \in Int /\ l[i] \in Int
    BY <1>2, <2>1
  <2>3. j \in Int
    BY <1>1
  <2> QED
    BY <2>2, <2>3
<1>5. CASE j < i
  <2>1. j \in 1 .. n /\ k[j] = l[j]
    BY <1>1, <1>4, <1>5
  <2>2. k[j] < k[i]
    BY <1>2, <1>5, <2>1 DEF Orders, Increasing
  <2> QED
    BY <1>3, <1>4, <2>1, <2>2
<1>6. CASE i < j
  <2>1. l[i] < l[j]
    BY <1>2, <1>3, <1>6 DEF Orders, Increasing
  <2> QED
    BY <1>3, <1>4, <2>1
<1>7. CASE i = j
  BY <1>3, <1>4, <1>7
<1> QED
  BY <1>1, <1>4, <1>5, <1>6, <1>7

LEMMA SameBeginning ==
  ASSUME NEW S \in SUBSET Int, NEW k, NEW l, NEW n, NEW m, Orders(k, n, S), Orders(l, m, S)
  PROVE  \A i \in 1 .. n : i \in 1 .. m => k[i] = l[i]
<1>1. n \in Nat /\ m \in Nat
  BY DEF Orders
<1>2. PICK bad : bad = {i \in 1 .. n : i \in 1 .. m /\ k[i] # l[i]}
  OBVIOUS
<1>3. bad \in SUBSET Int /\ bad \in SUBSET (1 .. n)
  BY <1>1, <1>2
<1>4. IsFiniteSet(bad)
  <2>1. IsFiniteSet(1 .. n)
    BY <1>1, FS_Interval
  <2> QED
    BY <1>3, <2>1, FS_Subset
<1>5. ASSUME bad # {} PROVE FALSE
  <2>1. PICK i \in bad : \A x \in bad : i <= x
    BY <1>3, <1>4, <1>5, Extremes
  <2>2. i \in 1 .. n /\ i \in 1 .. m /\ k[i] # l[i]
    BY <1>2
  <2>3. \A j \in 1 .. n : j < i => k[j] = l[j]
    <3> SUFFICES ASSUME NEW j \in 1 .. n, j < i PROVE k[j] = l[j]
      OBVIOUS
    <3>1. j \notin bad
      BY <1>1, <2>1, <2>2
    <3>2. j \in 1 .. m
      BY <1>1, <2>2
    <3> QED
      BY <1>2, <3>1, <3>2
  <2>4. \A j \in 1 .. m : j < i => l[j] = k[j]
    <3> SUFFICES ASSUME NEW j \in 1 .. m, j < i PROVE l[j] = k[j]
      OBVIOUS
    <3>1. j \in 1 .. n
      BY <1>1, <2>2
    <3> QED
      BY <2>3, <3>1
  <2>5. ~(k[i] < l[i])
    BY <2>2, <2>3, NotBefore
  <2>6. ~(l[i] < k[i])
    BY <2>2, <2>4, NotBefore
  <2>7. k[i] \in Int /\ l[i] \in Int
    BY <2>2 DEF Orders
  <2> QED
    BY <2>2, <2>5, <2>6, <2>7
<1> QED
  BY <1>2, <1>5

(* A list that ends earlier would lack the next number of the other.         *)
LEMMA NotLonger ==
  ASSUME NEW S \in SUBSET Int, NEW k, NEW l, NEW n, NEW m, Orders(k, n, S), Orders(l, m, S)
  PROVE  ~(n < m)
<1> SUFFICES ASSUME n < m PROVE FALSE
  OBVIOUS
<1>1. n \in Nat /\ m \in Nat /\ DOMAIN l = 1 .. m
  BY DEF Orders
<1>2. m \in 1 .. m /\ l[m] \in S
  BY <1>1 DEF Orders
<1>3. PICK i \in 1 .. n : k[i] = l[m]
  BY <1>2 DEF Orders
<1>4. i \in 1 .. m /\ i < m
  BY <1>1
<1>5. k[i] = l[i]
  BY <1>4, SameBeginning
<1>6. l[i] < l[m]
  BY <1>1, <1>2, <1>4 DEF Orders, Increasing
<1>7. l[m] \in Int
  BY <1>2
<1> QED
  BY <1>3, <1>5, <1>6, <1>7

(* The numbers of a set have one order.                                      *)
LEMMA OneOrder ==
  ASSUME NEW S \in SUBSET Int, NEW k, NEW l, NEW n, NEW m, Orders(k, n, S), Orders(l, m, S)
  PROVE  n = m /\ k = l
<1>1. n \in Nat /\ m \in Nat
  BY DEF Orders
<1>2. ~(n < m) /\ ~(m < n)
  BY NotLonger
<1>3. n = m
  BY <1>1, <1>2
<1>4. \A i \in 1 .. n : k[i] = l[i]
  BY <1>3, SameBeginning
<1>5. k \in [1 .. n -> S] /\ l \in [1 .. n -> S]
  BY <1>3 DEF Orders
<1>6. k = l
  <2>1. k = [i \in 1 .. n |-> k[i]]
    BY <1>5
  <2>2. l = [i \in 1 .. n |-> l[i]]
    BY <1>5
  <2>3. [i \in 1 .. n |-> k[i]] = [i \in 1 .. n |-> l[i]]
    BY <1>4
  <2> QED
    BY <2>1, <2>2, <2>3
<1> QED
  BY <1>3, <1>6

(* An increasing list that is as long as the set is such an order.           *)
LEMMA IncreasingOrders ==
  ASSUME NEW S \in SUBSET Int, IsFiniteSet(S), NEW k \in [1 .. Cardinality(S) -> S], Increasing(k)
  PROVE  Orders(k, Cardinality(S), S)
<1>1. PICK n \in Nat : n = Cardinality(S)
  BY FS_CardinalityType
<1>2. k \in [1 .. n -> S] /\ DOMAIN k = 1 .. n
  BY <1>1
<1>3. ASSUME NEW i \in 1 .. n, NEW j \in 1 .. n, k[i] = k[j] PROVE i = j
  <2>1. k[i] \in Int /\ k[j] \in Int
    BY <1>2
  <2>2. ~(k[i] < k[j]) /\ ~(k[j] < k[i])
    BY <1>3, <2>1
  <2>3. ~(i < j) /\ ~(j < i)
    BY <1>2, <2>2 DEF Increasing
  <2> QED
    BY <2>3
<1>4. k \in Surjection(1 .. n, S)
  <2>1. k \in Injection(1 .. n, S)
    BY <1>2, <1>3 DEF Injection, IsInjective
  <2>2. IsFiniteSet(1 .. n) /\ Cardinality(1 .. n) = n
    BY FS_Interval
  <2>3. Cardinality(1 .. n) = Cardinality(S)
    BY <1>1, <2>2
  <2> QED
    BY <2>1, <2>2, <2>3, FS_Injection
<1>5. \A x \in S : \E i \in 1 .. n : k[i] = x
  BY <1>4 DEF Surjection
<1> QED
  BY <1>1, <1>2, <1>5 DEF Orders

(* A list without repetition is as long as its set is large.                 *)
LEMMA OrderCounts ==
  ASSUME NEW S \in SUBSET Int, IsFiniteSet(S), NEW k, NEW n, Orders(k, n, S)
  PROVE  n = Cardinality(S)
<1>1. PICK l \in [1 .. Cardinality(S) -> S] : Increasing(l)
  BY Sorted
<1>2. Orders(l, Cardinality(S), S)
  BY <1>1, IncreasingOrders
<1> QED
  BY <1>2, OneOrder
===============================================================================
