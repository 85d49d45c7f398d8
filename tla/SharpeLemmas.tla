---------------------------- MODULE SharpeLemmas ----------------------------
(***************************************************************************)
(* Lemmas about the sums that Sharpe is built from, for any finite list of *)
(* integers: a sum over a set has an element taken out, whichever it is;   *)
(* the spread of a list never falls when a trade is added, and is positive *)
(* exactly when two trades differ.                                         *)
(*                                                                         *)
(* MapThenSumSet is defined by recursion over the subsets of a set.  That  *)
(* the recursion defines something is proved here too, by induction on the *)
(* number of elements; an induction is a set of numbers that contains 0,   *)
(* and with a number the next.                                             *)
(***************************************************************************)
EXTENDS Sharpe, FiniteSetTheorems, WellFoundedInduction, TLAPS

LEMMA LeastNumber ==
  ASSUME NEW F \in SUBSET Nat, F # {}
  PROVE  \E n \in F : \A m \in F : n <= m
<1>1. \E n \in F : \A m \in F : ~(<<m, n>> \in OpToRel(<, Nat))
  BY NatLessThanWellFounded, WFMin
<1>2. \A m, n \in Nat : m < n => <<m, n>> \in OpToRel(<, Nat)
  BY DEF OpToRel
<1>3. \A m, n \in Nat : ~(m < n) => n <= m
  OBVIOUS
<1> QED
  BY <1>1, <1>2, <1>3

LEMMA Induction ==
  ASSUME NEW F \in SUBSET Nat, 0 \in F, \A n \in F : n + 1 \in F
  PROVE  F = Nat
<1> SUFFICES ASSUME Nat \ F # {} PROVE FALSE
  OBVIOUS
<1>1. PICK n \in Nat \ F : \A m \in Nat \ F : n <= m
  BY LeastNumber
<1>2. n # 0 /\ n - 1 \in Nat /\ n - 1 \in F
  BY <1>1
<1> QED
  BY <1>1, <1>2

\* What holds of a finite set when it holds of the set without any one of its
\* elements, holds of every finite set.
LEMMA SetInduction ==
  ASSUME NEW S, IsFiniteSet(S), NEW F,
         \A T \in SUBSET S : (\A x \in T : T \ {x} \in F) => T \in F
  PROVE  SUBSET S \subseteq F
<1> DEFINE Reached == {n \in Nat : \A T \in SUBSET S : Cardinality(T) = n => T \in F}
<1>0. \A T \in SUBSET S : IsFiniteSet(T) /\ Cardinality(T) \in Nat
  BY FS_Subset, FS_CardinalityType
<1>1. 0 \in Reached
  <2>1. \A T \in SUBSET S : Cardinality(T) = 0 => T = {}
    BY <1>0, FS_EmptySet
  <2> QED
    BY <2>1
<1>2. ASSUME NEW n \in Reached PROVE n + 1 \in Reached
  <2>1. SUFFICES ASSUME NEW T \in SUBSET S, Cardinality(T) = n + 1, NEW x \in T
                 PROVE  T \ {x} \in F
    OBVIOUS
  <2>2. Cardinality(T \ {x}) = n
    BY <1>0, <2>1, FS_RemoveElement
  <2> QED
    BY <2>2
<1>3. Reached = Nat
  BY <1>1, <1>2, Induction
<1> QED
  BY <1>0, <1>3

\* The same from the empty set upwards, one element at a time.
LEMMA SetGrowth ==
  ASSUME NEW S, IsFiniteSet(S), NEW F, {} \in F,
         \A T \in SUBSET S : \A x \in S \ T : T \in F => T \cup {x} \in F
  PROVE  S \in F
<1>1. ASSUME NEW T \in SUBSET S, \A x \in T : T \ {x} \in F PROVE T \in F
  <2>1. CASE T = {}
    BY <2>1
  <2>2. CASE T # {}
    <3>1. PICK x \in T : T \ {x} \in F
      BY <1>1, <2>2
    <3>2. T = (T \ {x}) \cup {x} /\ x \in S \ (T \ {x})
      OBVIOUS
    <3> QED
      BY <3>1, <3>2
  <2> QED
    BY <2>1, <2>2
<1> QED
  BY <1>1, SetInduction

-----------------------------------------------------------------------------
(***************************************************************************)
(* The recursion behind MapThenSumSet.                                     *)
(***************************************************************************)
SumOf(v, D) == MapThenSumSet(LAMBDA i : v[i], D)

First(s) == CHOOSE x \in s : TRUE

\* f sums v over the sets of a family that is closed under taking First out.
Sums(f, v, Family) ==
  f = [s \in Family |-> IF s = {} THEN 0 ELSE v[First(s)] + f[s \ {First(s)}]]

SumTable(v, D) == CHOOSE f : Sums(f, v, SUBSET D)

LEMMA SumOfIsInTable ==
  ASSUME NEW v, NEW D
  PROVE  SumOf(v, D) = SumTable(v, D)[D]
BY DEF SumOf, MapThenSumSet, MapThenFoldSet, SumTable, Sums, First

LEMMA FirstIsIn ==
  ASSUME NEW s, s # {}
  PROVE  First(s) \in s
BY DEF First

AtMost(n, D) == {s \in SUBSET D : Cardinality(s) <= n}

LEMMA AtMostStep ==
  ASSUME NEW D, IsFiniteSet(D), NEW n \in Nat, NEW s \in AtMost(n + 1, D), s # {}
  PROVE  s \ {First(s)} \in AtMost(n, D)
<1>1. IsFiniteSet(s) /\ Cardinality(s) \in Nat
  BY FS_Subset, FS_CardinalityType DEF AtMost
<1>2. Cardinality(s \ {First(s)}) = Cardinality(s) - 1
  BY <1>1, FirstIsIn, FS_RemoveElement
<1> QED
  BY <1>1, <1>2 DEF AtMost

LEMMA TableExists ==
  ASSUME NEW v, NEW D, IsFiniteSet(D)
  PROVE  \E f : Sums(f, v, SUBSET D)
<1> DEFINE Reached == {n \in Nat : \E f : Sums(f, v, AtMost(n, D))}
<1>0. \A s \in SUBSET D : IsFiniteSet(s) /\ Cardinality(s) \in Nat
  BY FS_Subset, FS_CardinalityType
<1>1. 0 \in Reached
  <2>1. \A s \in AtMost(0, D) : s = {}
    BY <1>0, FS_EmptySet DEF AtMost
  <2>2. Sums([s \in AtMost(0, D) |-> 0], v, AtMost(0, D))
    BY <2>1 DEF Sums
  <2> QED
    BY <2>2
<1>2. ASSUME NEW n \in Reached PROVE n + 1 \in Reached
  <2>1. PICK f : Sums(f, v, AtMost(n, D))
    OBVIOUS
  <2> DEFINE next(s) == IF s = {} THEN 0 ELSE v[First(s)] + f[s \ {First(s)}]
             g == [s \in AtMost(n + 1, D) |-> next(s)]
  <2>2. AtMost(n, D) \subseteq AtMost(n + 1, D)
    BY <1>0 DEF AtMost
  <2>3. ASSUME NEW s \in AtMost(n, D) PROVE g[s] = f[s]
    BY <2>1, <2>2 DEF Sums
  <2>4. ASSUME NEW s \in AtMost(n + 1, D)
        PROVE  next(s) = IF s = {} THEN 0 ELSE v[First(s)] + g[s \ {First(s)}]
    <3>1. CASE s = {}
      BY <3>1
    <3>2. CASE s # {}
      <4>1. s \ {First(s)} \in AtMost(n, D)
        BY <3>2, AtMostStep
      <4>2. g[s \ {First(s)}] = f[s \ {First(s)}]
        BY <2>3, <4>1
      <4> QED
        BY <3>2, <4>2
    <3> QED
      BY <3>1, <3>2
  <2> HIDE DEF next
  <2>5. Sums(g, v, AtMost(n + 1, D))
    BY <2>4 DEF Sums
  <2> QED
    BY <2>5
<1>3. Reached = Nat
  BY <1>1, <1>2, Induction
<1>4. AtMost(Cardinality(D), D) = SUBSET D
  BY FS_Subset, <1>0 DEF AtMost
<1>5. Cardinality(D) \in Reached
  BY <1>0, <1>3
<1> QED
  BY <1>4, <1>5

LEMMA TableSums ==
  ASSUME NEW v, NEW D, IsFiniteSet(D)
  PROVE  /\ SumTable(v, D)[{}] = 0
         /\ \A s \in SUBSET D : s # {} =>
              SumTable(v, D)[s] = v[First(s)] + SumTable(v, D)[s \ {First(s)}]
<1>1. Sums(SumTable(v, D), v, SUBSET D)
  BY TableExists DEF SumTable
<1> DEFINE f == SumTable(v, D)
<1>2. f = [s \in SUBSET D |-> IF s = {} THEN 0 ELSE v[First(s)] + f[s \ {First(s)}]]
  BY <1>1 DEF Sums
<1> HIDE DEF f
<1>3. \A s \in SUBSET D : f[s] = IF s = {} THEN 0 ELSE v[First(s)] + f[s \ {First(s)}]
  BY <1>2
<1>4. f[{}] = 0
  BY <1>3
<1> QED
  BY <1>3, <1>4 DEF f

\* A table says the same of a set as the table of that set.
LEMMA TablesAgree ==
  ASSUME NEW v, NEW D, IsFiniteSet(D), NEW T \in SUBSET D
  PROVE  \A s \in SUBSET T : SumTable(v, D)[s] = SumTable(v, T)[s]
<1> DEFINE F == {s \in SUBSET T : SumTable(v, D)[s] = SumTable(v, T)[s]}
<1>0. IsFiniteSet(T)
  BY FS_Subset
<1>1. ASSUME NEW s \in SUBSET T, \A x \in s : s \ {x} \in F PROVE s \in F
  <2>1. CASE s = {}
    BY <1>0, <2>1, TableSums
  <2>2. CASE s # {}
    <3>1. SumTable(v, D)[s \ {First(s)}] = SumTable(v, T)[s \ {First(s)}]
      BY <1>1, <2>2, FirstIsIn
    <3>2. SumTable(v, D)[s] = v[First(s)] + SumTable(v, D)[s \ {First(s)}]
      BY <2>2, TableSums
    <3>3. SumTable(v, T)[s] = v[First(s)] + SumTable(v, T)[s \ {First(s)}]
      BY <1>0, <2>2, TableSums
    <3> QED
      BY <3>1, <3>2, <3>3
  <2> QED
    BY <2>1, <2>2
<1> HIDE DEF F
<1>2. SUBSET T \subseteq F
  BY <1>0, <1>1, SetInduction
<1> QED
  BY <1>2 DEF F

LEMMA SumOfEmpty ==
  ASSUME NEW v
  PROVE  SumOf(v, {}) = 0
BY SumOfIsInTable, TableSums, FS_EmptySet

LEMMA SumOfFirst ==
  ASSUME NEW v, NEW D, IsFiniteSet(D), D # {}
  PROVE  SumOf(v, D) = v[First(D)] + SumOf(v, D \ {First(D)})
<1> DEFINE rest == D \ {First(D)}
<1>1. SumTable(v, D)[D] = v[First(D)] + SumTable(v, D)[rest]
  BY TableSums
<1>2. SumTable(v, D)[rest] = SumTable(v, rest)[rest]
  BY TablesAgree
<1> QED
  BY <1>1, <1>2, SumOfIsInTable

-----------------------------------------------------------------------------
(***************************************************************************)
(* Sums of integers, element by element.                                   *)
(***************************************************************************)
IntegersOn(v, D) == \A i \in D : v[i] \in Int

LEMMA SumOfType ==
  ASSUME NEW D, IsFiniteSet(D), NEW v, IntegersOn(v, D)
  PROVE  SumOf(v, D) \in Int
<1> DEFINE F == {s \in SUBSET D : SumOf(v, s) \in Int}
<1>1. ASSUME NEW s \in SUBSET D, \A x \in s : s \ {x} \in F PROVE s \in F
  <2>1. CASE s = {}
    BY <2>1, SumOfEmpty
  <2>2. CASE s # {}
    <3>1. IsFiniteSet(s) /\ First(s) \in s
      BY <2>2, FS_Subset, FirstIsIn
    <3>2. SumOf(v, s \ {First(s)}) \in Int /\ v[First(s)] \in Int
      BY <1>1, <3>1 DEF IntegersOn
    <3> QED
      BY <2>2, <3>1, <3>2, SumOfFirst
  <2> QED
    BY <2>1, <2>2
<1> HIDE DEF F
<1>2. D \in F
  BY <1>1, SetInduction
<1> QED
  BY <1>2 DEF F

\* Whichever element is taken out, the rest sums to the rest.
LEMMA SumOfRemove ==
  ASSUME NEW D, IsFiniteSet(D), NEW v, IntegersOn(v, D), NEW x \in D
  PROVE  SumOf(v, D) = v[x] + SumOf(v, D \ {x})
<1> DEFINE F == {s \in SUBSET D : \A y \in s : SumOf(v, s) = v[y] + SumOf(v, s \ {y})}
<1>1. ASSUME NEW s \in SUBSET D, \A y \in s : s \ {y} \in F, NEW y \in s
      PROVE  SumOf(v, s) = v[y] + SumOf(v, s \ {y})
  <2> DEFINE c    == First(s)
             rest == SumOf(v, (s \ {c}) \ {y})
  <2>1. IsFiniteSet(s) /\ c \in s
    BY FS_Subset, FirstIsIn
  <2>2. SumOf(v, s) = v[c] + SumOf(v, s \ {c})
    BY <2>1, SumOfFirst
  <2>3. CASE y = c
    BY <2>2, <2>3
  <2>4. CASE y # c
    <3>1. SumOf(v, s \ {c}) = v[y] + rest
      BY <1>1, <2>1, <2>4
    <3>2. SumOf(v, s \ {y}) = v[c] + SumOf(v, (s \ {y}) \ {c})
      BY <1>1, <2>1, <2>4
    <3>3. (s \ {y}) \ {c} = (s \ {c}) \ {y}
      OBVIOUS
    <3>4. rest \in Int
      <4>1. IsFiniteSet((s \ {c}) \ {y}) /\ IntegersOn(v, (s \ {c}) \ {y})
        BY FS_Subset DEF IntegersOn
      <4> QED
        BY <4>1, SumOfType
    <3>5. v[c] \in Int /\ v[y] \in Int
      BY <2>1 DEF IntegersOn
    <3> HIDE DEF c, rest
    <3>6. SumOf(v, s \ {y}) = v[c] + rest
      BY <3>2, <3>3 DEF rest
    <3> QED
      BY <2>2, <3>1, <3>4, <3>5, <3>6
  <2> QED
    BY <2>3, <2>4
<1>2. \A s \in SUBSET D : (\A y \in s : s \ {y} \in F) => s \in F
  BY <1>1
<1> HIDE DEF F
<1>3. D \in F
  BY <1>2, SetInduction
<1> QED
  BY <1>3 DEF F

LEMMA SumOfAdd ==
  ASSUME NEW D, IsFiniteSet(D), NEW x, x \notin D, NEW v, IntegersOn(v, D \cup {x})
  PROVE  SumOf(v, D \cup {x}) = SumOf(v, D) + v[x]
<1>1. IsFiniteSet(D \cup {x}) /\ (D \cup {x}) \ {x} = D
  BY FS_AddElement
<1>2. SumOf(v, D \cup {x}) = v[x] + SumOf(v, D)
  BY <1>1, SumOfRemove
<1>3. SumOf(v, D) \in Int /\ v[x] \in Int
  BY SumOfType DEF IntegersOn
<1> QED
  BY <1>2, <1>3

\* A sum looks at the values of its elements only.
LEMMA SumOfSame ==
  ASSUME NEW D, IsFiniteSet(D), NEW v, NEW w, IntegersOn(v, D), \A i \in D : v[i] = w[i]
  PROVE  SumOf(v, D) = SumOf(w, D)
<1> DEFINE F == {s \in SUBSET D : SumOf(v, s) = SumOf(w, s)}
<1>1. {} \in F
  BY SumOfEmpty
<1>2. ASSUME NEW s \in SUBSET D, s \in F, NEW x \in D \ s PROVE s \cup {x} \in F
  <2>1. IsFiniteSet(s) /\ IntegersOn(v, s \cup {x}) /\ IntegersOn(w, s \cup {x})
    BY FS_Subset DEF IntegersOn
  <2> QED
    BY <1>2, <2>1, SumOfAdd
<1> HIDE DEF F
<1>3. D \in F
  BY <1>1, <1>2, SetGrowth
<1> QED
  BY <1>3 DEF F

\* A sum of natural numbers is at least each of them.
LEMMA SumOfNaturals ==
  ASSUME NEW D, IsFiniteSet(D), NEW v, \A i \in D : v[i] \in Nat
  PROVE  SumOf(v, D) \in Nat /\ \A i \in D : v[i] <= SumOf(v, D)
<1> DEFINE F == {s \in SUBSET D : SumOf(v, s) \in Nat}
<1>0. \A s \in SUBSET D : IsFiniteSet(s) /\ IntegersOn(v, s)
  BY FS_Subset DEF IntegersOn
<1>1. ASSUME NEW s \in SUBSET D, \A x \in s : s \ {x} \in F PROVE s \in F
  <2>1. CASE s = {}
    BY <2>1, SumOfEmpty
  <2>2. CASE s # {}
    <3>1. PICK x \in s : SumOf(v, s \ {x}) \in Nat
      BY <1>1, <2>2
    <3>2. SumOf(v, s) = v[x] + SumOf(v, s \ {x}) /\ v[x] \in Nat
      BY <1>0, SumOfRemove
    <3> QED
      BY <3>1, <3>2
  <2> QED
    BY <2>1, <2>2
<1> HIDE DEF F
<1>2. SUBSET D \subseteq F
  BY <1>1, SetInduction
<1>3. \A s \in SUBSET D : SumOf(v, s) \in Nat
  BY <1>2 DEF F
<1>4. ASSUME NEW i \in D PROVE v[i] <= SumOf(v, D)
  <2>1. SumOf(v, D) = v[i] + SumOf(v, D \ {i})
    BY <1>0, SumOfRemove
  <2>2. SumOf(v, D \ {i}) \in Nat
    BY <1>3
  <2> QED
    BY <2>1, <2>2
<1> QED
  BY <1>3, <1>4

-----------------------------------------------------------------------------
(***************************************************************************)
(* The spread of a list: n times the sum of the squares less the square of *)
(* the sum.                                                                *)
(***************************************************************************)
SquaresOn(v, D)      == [i \in D |-> v[i] * v[i]]
DistancesOn(v, D, a) == [i \in D |-> (v[i] - a) * (v[i] - a)]

SpreadOn(v, D) ==
  Cardinality(D) * SumOf(SquaresOn(v, D), D) - SumOf(v, D) * SumOf(v, D)

LEMMA SquareIsNat == \A m \in Int : m * m \in Nat
<1>1. \A m \in Nat : m * m \in Nat
  OBVIOUS
<1>2. \A m \in Int : m \in Nat \/ (-m \in Nat /\ (-m) * (-m) = m * m)
  OBVIOUS
<1> QED
  BY <1>1, <1>2

LEMMA SquareOfOther == \A m, n \in Int : m # n => (m - n) * (m - n) > 0
<1>1. \A k \in Int : k # 0 => k * k # 0
  OBVIOUS
<1> QED
  BY <1>1, SquareIsNat

LEMMA SquaresType ==
  ASSUME NEW D, IsFiniteSet(D), NEW v, IntegersOn(v, D)
  PROVE  /\ SumOf(SquaresOn(v, D), D) \in Nat
         /\ \A a \in Int : SumOf(DistancesOn(v, D, a), D) \in Nat
<1>1. \A i \in D : SquaresOn(v, D)[i] \in Nat
  BY SquareIsNat DEF SquaresOn, IntegersOn
<1>2. ASSUME NEW a \in Int, NEW i \in D PROVE DistancesOn(v, D, a)[i] \in Nat
  <2>1. v[i] - a \in Int
    BY DEF IntegersOn
  <2> QED
    BY <2>1, SquareIsNat DEF DistancesOn
<1> QED
  BY <1>1, <1>2, SumOfNaturals

LEMMA DistanceStep ==
  \A n, q, t, a, x \in Int :
    q - 2 * a * t + n * a * a + (x - a) * (x - a)
      = (q + x * x) - 2 * a * (t + x) + (n + 1) * a * a
OBVIOUS

\* The squares of the distances to a point, summed, from the sums of the list.
LEMMA SumOfDistances ==
  ASSUME NEW D, IsFiniteSet(D), NEW v, IntegersOn(v, D), NEW a \in Int
  PROVE  SumOf(DistancesOn(v, D, a), D)
           = SumOf(SquaresOn(v, D), D) - 2 * a * SumOf(v, D) + Cardinality(D) * a * a
<1> DEFINE d == DistancesOn(v, D, a)
           q == SquaresOn(v, D)
           F == {s \in SUBSET D :
                   SumOf(d, s) = SumOf(q, s) - 2 * a * SumOf(v, s) + Cardinality(s) * a * a}
<1>0. \A s \in SUBSET D : IsFiniteSet(s) /\ Cardinality(s) \in Nat
  BY FS_Subset, FS_CardinalityType
<1>1. \A i \in D : /\ v[i] \in Int /\ q[i] = v[i] * v[i] /\ q[i] \in Int
                   /\ d[i] = (v[i] - a) * (v[i] - a) /\ d[i] \in Int
  <2>1. \A i \in D : v[i] \in Int /\ v[i] - a \in Int
    BY DEF IntegersOn
  <2> QED
    BY <2>1, SquareIsNat DEF SquaresOn, DistancesOn
<1> HIDE DEF d, q
<1>2. {} \in F
  BY SumOfEmpty, FS_EmptySet
<1>3. ASSUME NEW s \in SUBSET D, NEW x \in D \ s, s \in F PROVE s \cup {x} \in F
  <2>1. IntegersOn(v, s \cup {x}) /\ IntegersOn(q, s \cup {x}) /\ IntegersOn(d, s \cup {x})
    BY <1>1 DEF IntegersOn
  <2>2. /\ SumOf(v, s \cup {x}) = SumOf(v, s) + v[x]
        /\ SumOf(q, s \cup {x}) = SumOf(q, s) + v[x] * v[x]
        /\ SumOf(d, s \cup {x}) = SumOf(d, s) + (v[x] - a) * (v[x] - a)
    <3>1. SumOf(v, s \cup {x}) = SumOf(v, s) + v[x]
      BY <1>0, <2>1, SumOfAdd
    <3>2. SumOf(q, s \cup {x}) = SumOf(q, s) + q[x]
      BY <1>0, <2>1, SumOfAdd
    <3>3. SumOf(d, s \cup {x}) = SumOf(d, s) + d[x]
      BY <1>0, <2>1, SumOfAdd
    <3> QED
      BY <1>1, <3>1, <3>2, <3>3
  <2>3. Cardinality(s \cup {x}) = Cardinality(s) + 1
    BY <1>0, FS_AddElement
  <2>4. SumOf(v, s) \in Int /\ SumOf(q, s) \in Int
    BY <1>0, <1>1, SumOfType DEF IntegersOn
  <2>5. SumOf(d, s) = SumOf(q, s) - 2 * a * SumOf(v, s) + Cardinality(s) * a * a
    BY <1>3
  <2>6. SumOf(d, s \cup {x})
          = SumOf(q, s \cup {x}) - 2 * a * SumOf(v, s \cup {x}) + Cardinality(s \cup {x}) * a * a
    BY <1>0, <1>1, <2>2, <2>3, <2>4, <2>5, DistanceStep
  <2> QED
    BY <2>6
<1> HIDE DEF F
<1>4. D \in F
  BY <1>2, <1>3, SetGrowth
<1> QED
  BY <1>4 DEF F, d, q

LEMMA SpreadStep ==
  \A n, q, t, y \in Int :
    (n + 1) * (q + y * y) - (t + y) * (t + y)
      = (n * q - t * t) + (q - 2 * y * t + n * y * y)
OBVIOUS

\* One more trade widens the spread by the squares of its distances to the others.
LEMMA SpreadOfOneMore ==
  ASSUME NEW D, IsFiniteSet(D), NEW x, x \notin D, NEW v, IntegersOn(v, D \cup {x})
  PROVE  /\ SpreadOn(v, D) \in Int
         /\ SumOf(DistancesOn(v, D, v[x]), D) \in Nat
         /\ SpreadOn(v, D \cup {x}) = SpreadOn(v, D) + SumOf(DistancesOn(v, D, v[x]), D)
<1> DEFINE E == D \cup {x}
           n == Cardinality(D)
           q == SumOf(SquaresOn(v, D), D)
           t == SumOf(v, D)
<1>1. IntegersOn(v, D) /\ v[x] \in Int
  BY DEF IntegersOn
<1>2. n \in Nat /\ Cardinality(E) = n + 1 /\ IsFiniteSet(E)
  BY FS_CardinalityType, FS_AddElement
<1>3. q \in Nat /\ t \in Int /\ SumOf(DistancesOn(v, D, v[x]), D) \in Nat
  BY <1>1, SquaresType, SumOfType
<1>4. SumOf(v, E) = t + v[x]
  BY SumOfAdd
<1>5. SumOf(SquaresOn(v, E), E) = q + v[x] * v[x]
  <2>1. IntegersOn(SquaresOn(v, E), E)
    BY SquareIsNat DEF SquaresOn, IntegersOn
  <2>2. SumOf(SquaresOn(v, E), E) = SumOf(SquaresOn(v, E), D) + SquaresOn(v, E)[x]
    BY <2>1, SumOfAdd
  <2>3. \A i \in D : SquaresOn(v, E)[i] = SquaresOn(v, D)[i]
    BY DEF SquaresOn
  <2>4. SumOf(SquaresOn(v, E), D) = q
    BY <2>1, <2>3, SumOfSame DEF IntegersOn
  <2>5. SquaresOn(v, E)[x] = v[x] * v[x]
    BY DEF SquaresOn
  <2> QED
    BY <2>2, <2>4, <2>5
<1>6. SumOf(DistancesOn(v, D, v[x]), D) = q - 2 * v[x] * t + n * v[x] * v[x]
  BY <1>1, SumOfDistances
<1>7. SpreadOn(v, D) = n * q - t * t
  BY DEF SpreadOn
<1>8. SpreadOn(v, E) = (n + 1) * (q + v[x] * v[x]) - (t + v[x]) * (t + v[x])
  BY <1>2, <1>4, <1>5 DEF SpreadOn
<1> HIDE DEF n, q, t
<1>9. PICK y \in Int : y = v[x]
  BY <1>1
<1>10. (n + 1) * (q + y * y) - (t + y) * (t + y)
         = (n * q - t * t) + (q - 2 * y * t + n * y * y)
  BY <1>2, <1>3, SpreadStep
<1>11. SpreadOn(v, E) = SpreadOn(v, D) + SumOf(DistancesOn(v, D, v[x]), D)
  BY <1>6, <1>7, <1>8, <1>9, <1>10
<1> QED
  BY <1>2, <1>3, <1>7, <1>11

\* No list has a negative spread.
LEMMA SpreadType ==
  ASSUME NEW D, IsFiniteSet(D), NEW v, IntegersOn(v, D)
  PROVE  SpreadOn(v, D) \in Nat
<1> DEFINE F == {s \in SUBSET D : SpreadOn(v, s) \in Nat}
<1>1. {} \in F
  BY SumOfEmpty, FS_EmptySet DEF SpreadOn
<1>2. ASSUME NEW s \in SUBSET D, NEW x \in D \ s, s \in F PROVE s \cup {x} \in F
  <2>1. IsFiniteSet(s) /\ IntegersOn(v, s \cup {x})
    BY FS_Subset DEF IntegersOn
  <2>2. /\ SumOf(DistancesOn(v, s, v[x]), s) \in Nat
        /\ SpreadOn(v, s \cup {x}) = SpreadOn(v, s) + SumOf(DistancesOn(v, s, v[x]), s)
    BY <2>1, SpreadOfOneMore
  <2> QED
    BY <1>2, <2>2
<1> HIDE DEF F
<1>3. D \in F
  BY <1>1, <1>2, SetGrowth
<1> QED
  BY <1>3 DEF F

\* One more trade never narrows the spread, and one unlike another makes it positive.
LEMMA SpreadNeverNarrows ==
  ASSUME NEW D, IsFiniteSet(D), NEW x, x \notin D, NEW v, IntegersOn(v, D \cup {x})
  PROVE  /\ SpreadOn(v, D) <= SpreadOn(v, D \cup {x})
         /\ (\E i \in D : v[i] # v[x]) => SpreadOn(v, D \cup {x}) > 0
<1> DEFINE d == SumOf(DistancesOn(v, D, v[x]), D)
<1>1. /\ SpreadOn(v, D) \in Nat /\ d \in Nat
      /\ SpreadOn(v, D \cup {x}) = SpreadOn(v, D) + d
  BY SpreadOfOneMore, SpreadType DEF IntegersOn
<1>2. ASSUME NEW i \in D, v[i] # v[x] PROVE d > 0
  <2>1. \A j \in D : v[j] \in Int /\ v[j] - v[x] \in Int /\ v[x] \in Int
    BY DEF IntegersOn
  <2>2. \A j \in D : DistancesOn(v, D, v[x])[j] \in Nat
    BY <2>1, SquareIsNat DEF DistancesOn
  <2>3. DistancesOn(v, D, v[x])[i] > 0
    BY <1>2, <2>1, SquareOfOther DEF DistancesOn
  <2>4. DistancesOn(v, D, v[x])[i] <= d
    BY <2>2, SumOfNaturals
  <2> QED
    BY <1>1, <2>2, <2>3, <2>4
<1> HIDE DEF d
<1> QED
  BY <1>1, <1>2

\* The spread is positive exactly when two trades differ: stdev is then positive.
LEMMA SpreadIsVariety ==
  ASSUME NEW D, IsFiniteSet(D), NEW v, IntegersOn(v, D)
  PROVE  SpreadOn(v, D) > 0 <=> \E i, j \in D : v[i] # v[j]
<1>1. ASSUME NEW i \in D, NEW j \in D, v[i] # v[j] PROVE SpreadOn(v, D) > 0
  <2> DEFINE E == D \ {j}
  <2>1. IsFiniteSet(E) /\ j \notin E /\ E \cup {j} = D /\ i \in E
    BY <1>1, FS_Subset
  <2> QED
    BY <1>1, <2>1, SpreadNeverNarrows
<1>2. ASSUME \A i, j \in D : v[i] = v[j] PROVE SpreadOn(v, D) = 0
  <2> DEFINE F == {s \in SUBSET D : SpreadOn(v, s) = 0}
  <2>1. {} \in F
    BY SumOfEmpty, FS_EmptySet DEF SpreadOn
  <2>2. ASSUME NEW s \in SUBSET D, NEW x \in D \ s, s \in F PROVE s \cup {x} \in F
    <3> DEFINE d == DistancesOn(v, s, v[x])
               z == [i \in s |-> 0]
    <3>1. IsFiniteSet(s) /\ IntegersOn(v, s \cup {x})
      BY FS_Subset DEF IntegersOn
    <3>2. \A i \in s : v[i] \in Int /\ v[i] = v[x]
      BY <1>2, <3>1 DEF IntegersOn
    <3>3. \A i \in s : d[i] = 0
      BY <3>2 DEF DistancesOn
    <3>4. SumOf(d, s) = 0
      <4> DEFINE G == {r \in SUBSET s : SumOf(d, r) = 0}
      <4>1. {} \in G
        BY SumOfEmpty
      <4> HIDE DEF d
      <4>2. ASSUME NEW r \in SUBSET s, NEW y \in s \ r, r \in G PROVE r \cup {y} \in G
        <5>1. IsFiniteSet(r) /\ IntegersOn(d, r \cup {y})
          BY <3>1, <3>3, FS_Subset DEF IntegersOn
        <5> QED
          BY <3>3, <4>2, <5>1, SumOfAdd
      <4> HIDE DEF G
      <4>3. s \in G
        BY <3>1, <4>1, <4>2, SetGrowth
      <4> QED
        BY <4>3 DEF G
    <3> QED
      BY <2>2, <3>1, <3>4, SpreadOfOneMore
  <2> HIDE DEF F
  <2>3. D \in F
    BY <2>1, <2>2, SetGrowth
  <2> QED
    BY <2>3 DEF F
<1> QED
  BY <1>1, <1>2

-----------------------------------------------------------------------------
(***************************************************************************)
(* The Sharpe proxy of a list of integers.                                 *)
(***************************************************************************)
IsList(pnls) == IsFiniteSet(DOMAIN pnls) /\ IntegersOn(pnls, DOMAIN pnls)

LEMMA ProxyParts ==
  ASSUME NEW pnls, IsList(pnls)
  PROVE  /\ Size(pnls) \in Nat /\ Total(pnls) \in Int
         /\ Total(pnls) = SumOf(pnls, DOMAIN pnls)
         /\ Spread(pnls) = SpreadOn(pnls, DOMAIN pnls)
         /\ Spread(pnls) \in Nat
<1> DEFINE D == DOMAIN pnls
           q == [i \in D |-> pnls[i] * pnls[i]]
<1>1. Total(pnls) = SumOf(pnls, D)
  BY DEF Total, SumOf
<1>2. Squares(pnls) = SumOf(SquaresOn(pnls, D), D)
  BY DEF Squares, SumOf, SquaresOn, MapThenSumSet, MapThenFoldSet
<1>3. Spread(pnls) = SpreadOn(pnls, D)
  BY <1>1, <1>2 DEF Spread, SpreadOn, Size
<1> QED
  BY <1>1, <1>3, SumOfType, SpreadType, FS_CardinalityType DEF IsList, Size

LEMMA VarietyNeedsTwo ==
  ASSUME NEW D, IsFiniteSet(D), NEW i \in D, NEW j \in D, i # j
  PROVE  Cardinality(D) >= 2
<1>1. Cardinality({i}) = 1 /\ IsFiniteSet({i})
  BY FS_Singleton
<1>2. Cardinality({i} \cup {j}) = 2
  BY <1>1, FS_AddElement
<1>3. Cardinality({i} \cup {j}) <= Cardinality(D) /\ Cardinality(D) \in Nat
  BY FS_Subset, FS_CardinalityType
<1> QED
  BY <1>2, <1>3

\* A list has a Sharpe exactly when two of its trades differ.
LEMMA ProxyIsDefined ==
  ASSUME NEW pnls, IsList(pnls)
  PROVE  /\ sharpe_proxy(pnls) # None <=> \E i, j \in DOMAIN pnls : pnls[i] # pnls[j]
         /\ sharpe_proxy(pnls) # None =>
              /\ Size(pnls) >= 2 /\ Spread(pnls) > 0
              /\ sharpe_proxy(pnls)
                   = [num |-> Total(pnls) * Magnitude(Total(pnls)) * (Size(pnls) - 1),
                      den |-> Size(pnls) * Spread(pnls)]
              /\ sharpe_proxy(pnls).num \in Int
              /\ sharpe_proxy(pnls).den \in Nat \ {0}
<1>1. Size(pnls) \in Nat /\ Total(pnls) \in Int /\ Spread(pnls) \in Nat
  BY ProxyParts
<1>2. Spread(pnls) > 0 <=> \E i, j \in DOMAIN pnls : pnls[i] # pnls[j]
  BY ProxyParts, SpreadIsVariety DEF IsList
<1>3. Spread(pnls) > 0 => Size(pnls) >= 2
  BY <1>2, VarietyNeedsTwo DEF IsList, Size
<1> DEFINE fraction == [num |-> Total(pnls) * Magnitude(Total(pnls)) * (Size(pnls) - 1),
                        den |-> Size(pnls) * Spread(pnls)]
<1>4. fraction.num \in Int
  <2>1. Magnitude(Total(pnls)) \in Int /\ Size(pnls) - 1 \in Int
    BY <1>1 DEF Magnitude
  <2>2. \A a, b, c \in Int : a * b * c \in Int
    OBVIOUS
  <2> QED
    BY <1>1, <2>1, <2>2
<1>5. fraction.den \in Int /\ (Spread(pnls) > 0 => fraction.den \in Nat \ {0})
  <2>1. \A m, n \in Nat : m * n \in Nat
    OBVIOUS
  <2>2. \A m, n \in Nat \ {0} : m * n # 0
    OBVIOUS
  <2> QED
    BY <1>1, <1>3, <2>1, <2>2
<1>6. sharpe_proxy(pnls) = IF Spread(pnls) > 0 THEN fraction ELSE None
  BY <1>1, <1>3 DEF sharpe_proxy, Fraction
<1>7. fraction \in [num : Int, den : Int]
  BY <1>4, <1>5
<1> HIDE DEF fraction
<1>8. sharpe_proxy(pnls) # None <=> Spread(pnls) > 0
  BY <1>6, <1>7, SharpeAssumption
<1> QED
  BY <1>2, <1>3, <1>4, <1>5, <1>6, <1>8 DEF fraction

LEMMA SignOfProduct ==
  ASSUME NEW t \in Int, NEW n \in Nat, n >= 1
  PROVE  t * Magnitude(t) * n < 0 <=> t < 0
<1>1. CASE t < 0
  <2>1. Magnitude(t) = -t /\ -t \in Nat \ {0}
    BY <1>1 DEF Magnitude
  <2>2. \A m, k \in Nat \ {0} : (-m) * m * k < 0
    OBVIOUS
  <2>3. (-(-t)) * (-t) * n < 0
    BY <2>1, <2>2
  <2> QED
    BY <1>1, <2>1, <2>3
<1>2. CASE t >= 0
  <2>1. Magnitude(t) = t /\ t \in Nat
    BY <1>2 DEF Magnitude
  <2>2. \A m, k \in Nat : m * m * k \in Nat
    OBVIOUS
  <2> QED
    BY <1>2, <2>1, <2>2
<1> QED
  BY <1>1, <1>2

\* A Sharpe is negative exactly when the list has one and its total is negative.
THEOREM SharpeSign ==
  ASSUME NEW pnls, IsList(pnls)
  PROVE  (sharpe_proxy(pnls) # None /\ Less(sharpe_proxy(pnls), Fraction(0, 1)))
           <=> (Total(pnls) < 0 /\ \E i, j \in DOMAIN pnls : pnls[i] # pnls[j])
<1>1. SUFFICES ASSUME sharpe_proxy(pnls) # None
               PROVE  Less(sharpe_proxy(pnls), Fraction(0, 1)) <=> Total(pnls) < 0
  BY ProxyIsDefined
<1>2. Less(sharpe_proxy(pnls), Fraction(0, 1)) <=> sharpe_proxy(pnls).num < 0
  BY <1>1, ProxyIsDefined DEF Less, Fraction
<1>3. /\ sharpe_proxy(pnls).num = Total(pnls) * Magnitude(Total(pnls)) * (Size(pnls) - 1)
      /\ Size(pnls) >= 2
  BY <1>1, ProxyIsDefined
<1>4. Total(pnls) \in Int /\ Size(pnls) - 1 \in Nat /\ Size(pnls) - 1 >= 1
  BY <1>3, ProxyParts
<1> QED
  BY <1>2, <1>3, <1>4, SignOfProduct

\* A sum does not depend on the order of its elements: m takes D one to one
\* onto the set of its values, and w has there what v has on D.
LEMMA SumOfMoved ==
  ASSUME NEW D, IsFiniteSet(D), NEW v, NEW w, NEW m, IntegersOn(v, D),
         \A i, j \in D : m[i] = m[j] => i = j,
         \A i \in D : w[m[i]] = v[i]
  PROVE  SumOf(w, {m[i] : i \in D}) = SumOf(v, D)
<1> DEFINE image(s) == {m[i] : i \in s}
           F == {s \in SUBSET D : IsFiniteSet(image(s)) /\ SumOf(w, image(s)) = SumOf(v, s)}
<1>1. {} \in F
  <2>1. image({}) = {}
    OBVIOUS
  <2> QED
    BY <2>1, SumOfEmpty, FS_EmptySet
<1>2. ASSUME NEW s \in SUBSET D, s \in F, NEW x \in D \ s PROVE s \cup {x} \in F
  <2>1. image(s \cup {x}) = image(s) \cup {m[x]} /\ m[x] \notin image(s)
    OBVIOUS
  <2>2. IsFiniteSet(s) /\ IntegersOn(v, s \cup {x}) /\ IntegersOn(w, image(s) \cup {m[x]})
    BY FS_Subset DEF IntegersOn
  <2>3. IsFiniteSet(image(s)) /\ SumOf(w, image(s)) = SumOf(v, s)
    BY <1>2
  <2> HIDE DEF image
  <2>4. IsFiniteSet(image(s) \cup {m[x]})
    BY <2>3, FS_AddElement
  <2>5. SumOf(w, image(s) \cup {m[x]}) = SumOf(w, image(s)) + w[m[x]]
    BY <2>1, <2>2, <2>3, SumOfAdd
  <2>6. SumOf(v, s \cup {x}) = SumOf(v, s) + v[x]
    BY <2>2, SumOfAdd
  <2> QED
    BY <2>1, <2>3, <2>4, <2>5, <2>6
<1> HIDE DEF F
<1>3. D \in F
  BY <1>1, <1>2, SetGrowth
<1> QED
  BY <1>3 DEF F

\* sharpe_proxy sees the trades of a list, not their order.
THEOREM SharpeIgnoresOrder ==
  ASSUME NEW p, IsList(p), NEW q, NEW m,
         DOMAIN q = {m[i] : i \in DOMAIN p},
         \A i, j \in DOMAIN p : m[i] = m[j] => i = j,
         \A i \in DOMAIN p : q[m[i]] = p[i]
  PROVE  sharpe_proxy(q) = sharpe_proxy(p)
<1> DEFINE D == DOMAIN p  E == DOMAIN q
<1>1. IsFiniteSet(E) /\ Cardinality(E) = Cardinality(D)
  <2>1. [i \in D |-> m[i]] \in Bijection(D, E)
    BY DEF Bijection, Injection, Surjection, IsInjective
  <2> QED
    BY <2>1, FS_Bijection DEF ExistsBijection, IsList
<1>2. IsList(q)
  BY <1>1 DEF IsList, IntegersOn
<1>3. SumOf(q, E) = SumOf(p, D)
  BY SumOfMoved DEF IsList
<1>4. SumOf(SquaresOn(q, E), E) = SumOf(SquaresOn(p, D), D)
  <2>1. \A i \in D : SquaresOn(q, E)[m[i]] = SquaresOn(p, D)[i]
    BY DEF SquaresOn
  <2>2. IntegersOn(SquaresOn(p, D), D)
    BY DEF IsList, IntegersOn, SquaresOn
  <2> QED
    BY <2>1, <2>2, SumOfMoved DEF IsList
<1>5. Size(q) = Size(p) /\ Total(q) = Total(p) /\ Spread(q) = Spread(p)
  BY <1>1, <1>2, <1>3, <1>4, ProxyParts DEF Size, SpreadOn
<1> QED
  BY <1>5 DEF sharpe_proxy

-----------------------------------------------------------------------------
\* The early returns of sharpe.should_halt amount to the documented criteria,
\* whatever the statistics and the thresholds.
THEOREM ShouldHaltIsTheCriteria ==
  ASSUME NEW stats, NEW rules
  PROVE  should_halt(stats, rules) \in HaltingReasons <=> MeetsHaltCriteria(stats, rules)
BY DEF should_halt, HaltingReasons, MeetsHaltCriteria
=============================================================================
