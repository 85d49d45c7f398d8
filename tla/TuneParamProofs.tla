--------------------------- MODULE TuneParamProofs ---------------------------
(***************************************************************************)
(* Proofs about the decision of TuneParam.  For any bounds and any closed  *)
(* trades the bins are ordered by Sharpe and newest trade, and the best is *)
(* unique, like max over a dict.  With the bounds of MCTuneParam, for histories of *)
(* any length and any values, tune_param moves towards the evidence, and   *)
(* the order of the trades only breaks ties.                               *)
(***************************************************************************)
EXTENDS MCTuneParam, SharpeLemmas

\* What tune_param is given: a value at emit, or none, and a realised PnL.
Outcome == [at : Int \cup {None}, pnl : Int]
Closed  == Seq(Outcome)

-----------------------------------------------------------------------------
(***************************************************************************)
(* Fractions with a positive denominator are ordered.                      *)
(***************************************************************************)
Fractions == [num : Int, den : Nat \ {0}]

LEMMA Scaling ==
  ASSUME NEW m \in Int, NEW n \in Int, NEW k \in Nat \ {0}
  PROVE  (m <= n <=> m * k <= n * k) /\ (m < n <=> m * k < n * k)
<1>1. \A i \in Nat, j \in Nat \ {0} : i * j >= 0 /\ (i # 0 => i * j > 0)
  OBVIOUS
<1>2. ASSUME NEW a \in Int, NEW b \in Int, a <= b
      PROVE  a * k <= b * k /\ (a # b => a * k < b * k)
  <2>1. b - a \in Nat
    BY <1>2
  <2>2. (b - a) * k >= 0 /\ (b - a # 0 => (b - a) * k > 0)
    BY <1>1, <2>1
  <2>3. (b - a) * k = b * k - a * k
    OBVIOUS
  <2>4. a * k \in Int /\ b * k \in Int
    OBVIOUS
  <2> QED
    BY <2>2, <2>3, <2>4
<1> QED
  BY <1>2

LEMMA LessIsAnOrder ==
  ASSUME NEW x \in Fractions, NEW y \in Fractions, NEW z \in Fractions
  PROVE  /\ ~Less(x, x)
         /\ Less(x, y) => ~Less(y, x)
         /\ ~Less(y, x) /\ ~Less(z, y) => ~Less(z, x)
         /\ Less(x, y) /\ ~Less(z, y) => Less(x, z)
         /\ ~Less(y, x) /\ Less(y, z) => Less(x, z)
<1> DEFINE a == x.num  b == x.den  c == y.num  d == y.den  e == z.num  f == z.den
<1>1. /\ a \in Int /\ c \in Int /\ e \in Int
      /\ b \in Nat \ {0} /\ d \in Nat \ {0} /\ f \in Nat \ {0}
  BY DEF Fractions
<1>2. /\ Less(x, x) <=> a * b < a * b
      /\ Less(x, y) <=> a * d < c * b /\ TRUE
      /\ Less(y, x) <=> c * b < a * d
      /\ Less(y, z) <=> c * f < e * d
      /\ Less(z, y) <=> e * d < c * f
      /\ Less(x, z) <=> a * f < e * b
      /\ Less(z, x) <=> e * b < a * f
  BY DEF Less
<1> HIDE DEF a, b, c, d, e, f
<1>3. /\ a * b \in Int /\ a * d \in Int /\ c * b \in Int /\ c * f \in Int
      /\ e * d \in Int /\ a * f \in Int /\ e * b \in Int
  BY <1>1
<1>4. /\ (a * d) * f = (a * f) * d
      /\ (c * b) * f = (c * f) * b
      /\ (e * d) * b = (e * b) * d
  BY <1>1
<1>5. /\ (a * d <= c * b <=> (a * d) * f <= (c * b) * f)
      /\ (a * d < c * b <=> (a * d) * f < (c * b) * f)
      /\ (c * f <= e * d <=> (c * f) * b <= (e * d) * b)
      /\ (c * f < e * d <=> (c * f) * b < (e * d) * b)
      /\ (a * f <= e * b <=> (a * f) * d <= (e * b) * d)
      /\ (a * f < e * b <=> (a * f) * d < (e * b) * d)
  BY <1>1, <1>3, Scaling
<1>6. /\ (a * d) * f \in Int /\ (c * b) * f \in Int /\ (e * d) * b \in Int
  BY <1>1, <1>3
<1> QED
  BY <1>2, <1>3, <1>4, <1>5, <1>6

-----------------------------------------------------------------------------
(***************************************************************************)
(* The bins that can be scored.                                            *)
(***************************************************************************)
BinPnls(b, bounds, trades) == [i \in InBin(b, bounds, trades) |-> trades[i].pnl]

LEMMA InBinShape ==
  ASSUME NEW trades \in Closed, NEW bounds, NEW b
  PROVE  /\ InBin(b, bounds, trades) \subseteq 1..Len(trades)
         /\ InBin(b, bounds, trades) \subseteq Nat
         /\ IsFiniteSet(InBin(b, bounds, trades))
         /\ IsList(BinPnls(b, bounds, trades))
<1>1. DOMAIN trades = 1..Len(trades) /\ Len(trades) \in Nat
  BY DEF Closed
<1>2. InBin(b, bounds, trades) \subseteq 1..Len(trades)
  BY <1>1 DEF InBin
<1>3. IsFiniteSet(InBin(b, bounds, trades))
  <2>1. IsFiniteSet(1..Len(trades))
    BY <1>1, FS_Interval
  <2> QED
    BY <1>2, <2>1, FS_Subset
<1>4. \A i \in 1..Len(trades) : trades[i] \in Outcome
  BY DEF Closed
<1>5. \A i \in InBin(b, bounds, trades) : trades[i].pnl \in Int
  BY <1>2, <1>4 DEF Outcome
<1> QED
  BY <1>1, <1>2, <1>3, <1>5 DEF BinPnls, IsList, IntegersOn

\* A bin that is scored has a trade in it, and a Sharpe to compare.
LEMMA ScoredBin ==
  ASSUME NEW trades \in Closed, NEW bounds, NEW b \in ScoredBins(bounds, trades)
  PROVE  /\ InBin(b, bounds, trades) # {}
         /\ BinSharpe(b, bounds, trades) \in Fractions
<1> DEFINE p == BinPnls(b, bounds, trades)
<1>1. sharpe_proxy(p) # None /\ BinSharpe(b, bounds, trades) = sharpe_proxy(p)
  BY DEF ScoredBins, BinSharpe, BinPnls
<1>2. IsList(p)
  BY InBinShape
<1>3. \E i, j \in DOMAIN p : p[i] # p[j]
  BY <1>1, <1>2, ProxyIsDefined
<1>4. DOMAIN p = InBin(b, bounds, trades)
  BY DEF BinPnls
<1> HIDE DEF p
<1>5. sharpe_proxy(p) \in Fractions
  BY <1>1, <1>2, ProxyIsDefined DEF Fractions
<1> QED
  BY <1>1, <1>3, <1>4, <1>5

\* The place of the newest trade of a bin, a number no other bin has.
FirstIn(b, bounds, trades) == Min(InBin(b, bounds, trades))

LEMMA FirstInBin ==
  ASSUME NEW trades \in Closed, NEW bounds, NEW b \in ScoredBins(bounds, trades)
  PROVE  FirstIn(b, bounds, trades) \in InBin(b, bounds, trades) /\ FirstIn(b, bounds, trades) \in Nat
<1> DEFINE S == InBin(b, bounds, trades)
<1>1. S \subseteq Nat /\ S # {}
  BY InBinShape, ScoredBin
<1>2. \E n \in S : \A m \in S : n <= m
  BY <1>1, LeastNumber
<1>3. Min(S) \in S
  BY <1>2 DEF Min
<1> QED
  BY <1>1, <1>3 DEF FirstIn

LEMMA FirstsDiffer ==
  ASSUME NEW trades \in Closed, NEW bounds,
         NEW b \in ScoredBins(bounds, trades), NEW c \in ScoredBins(bounds, trades), b # c
  PROVE  FirstIn(b, bounds, trades) # FirstIn(c, bounds, trades)
<1>1. InBin(b, bounds, trades) \cap InBin(c, bounds, trades) = {}
  BY DEF InBin
<1> QED
  BY <1>1, FirstInBin

-----------------------------------------------------------------------------
(***************************************************************************)
(* Exactly one of them is the best.                                        *)
(***************************************************************************)
Beats(c, b, bounds, trades) ==
  \/ Less(BinSharpe(b, bounds, trades), BinSharpe(c, bounds, trades))
  \/ /\ ~Less(BinSharpe(c, bounds, trades), BinSharpe(b, bounds, trades))
     /\ FirstIn(c, bounds, trades) < FirstIn(b, bounds, trades)

LEMMA BestBinsAreUnbeaten ==
  ASSUME NEW trades, NEW bounds
  PROVE  BestBins(bounds, trades)
           = {b \in ScoredBins(bounds, trades) :
                \A c \in ScoredBins(bounds, trades) : ~Beats(c, b, bounds, trades)}
BY DEF BestBins, Beats, FirstIn

LEMMA BeatsIsAnOrder ==
  ASSUME NEW trades \in Closed, NEW bounds,
         NEW a \in ScoredBins(bounds, trades), NEW b \in ScoredBins(bounds, trades),
         NEW c \in ScoredBins(bounds, trades)
  PROVE  /\ ~Beats(a, a, bounds, trades)
         /\ a # b => Beats(a, b, bounds, trades) \/ Beats(b, a, bounds, trades)
         /\ Beats(a, b, bounds, trades) /\ Beats(b, c, bounds, trades)
              => Beats(a, c, bounds, trades)
<1> DEFINE score(d) == BinSharpe(d, bounds, trades)
           first(d) == FirstIn(d, bounds, trades)
<1>1. \A d \in {a, b, c} : score(d) \in Fractions /\ first(d) \in Nat
  BY ScoredBin, FirstInBin
<1>2. a # b => first(a) # first(b)
  BY FirstsDiffer
<1>3. \A d, g : Beats(d, g, bounds, trades) <=>
        Less(score(g), score(d)) \/ (~Less(score(d), score(g)) /\ first(d) < first(g))
  BY DEF Beats
<1> HIDE DEF score, first
<1>4. \A x, y, z \in {score(a), score(b), score(c)} :
         /\ ~Less(x, x)
         /\ Less(x, y) => ~Less(y, x)
         /\ ~Less(y, x) /\ ~Less(z, y) => ~Less(z, x)
         /\ Less(x, y) /\ ~Less(z, y) => Less(x, z)
         /\ ~Less(y, x) /\ Less(y, z) => Less(x, z)
  BY <1>1, LessIsAnOrder
<1>5. ~Beats(a, a, bounds, trades)
  BY <1>1, <1>3, <1>4
<1>6. a # b => Beats(a, b, bounds, trades) \/ Beats(b, a, bounds, trades)
  BY <1>1, <1>2, <1>3
<1>7. ASSUME Beats(a, b, bounds, trades), Beats(b, c, bounds, trades)
      PROVE  Beats(a, c, bounds, trades)
  <2>1. \/ Less(score(b), score(a))
        \/ ~Less(score(a), score(b)) /\ first(a) < first(b)
    BY <1>3, <1>7
  <2>2. \/ Less(score(c), score(b))
        \/ ~Less(score(b), score(c)) /\ first(b) < first(c)
    BY <1>3, <1>7
  <2>3. \/ Less(score(c), score(a))
        \/ ~Less(score(a), score(c)) /\ first(a) < first(c)
    BY <1>1, <1>4, <2>1, <2>2
  <2> QED
    BY <1>3, <2>3
<1> QED
  BY <1>5, <1>6, <1>7

LEMMA SomeBinIsBest ==
  ASSUME NEW trades \in Closed, NEW bounds, bounds.n_bins \in Nat,
         ScoredBins(bounds, trades) # {}
  PROVE  BestBins(bounds, trades) # {}
<1> DEFINE S == ScoredBins(bounds, trades)
           unbeaten(b, T) == \A c \in T : ~Beats(c, b, bounds, trades)
           F == {T \in SUBSET S : T = {} \/ \E b \in T : unbeaten(b, T)}
<1>1. IsFiniteSet(S)
  <2>1. IsFiniteSet(0..(bounds.n_bins - 1))
    BY FS_Interval
  <2> QED
    BY <2>1, FS_Subset DEF ScoredBins, Bins
<1>2. {} \in F
  OBVIOUS
<1>3. ASSUME NEW T \in SUBSET S, NEW x \in S \ T, T \in F PROVE T \cup {x} \in F
  <2>1. ~Beats(x, x, bounds, trades)
    BY BeatsIsAnOrder
  <2>2. CASE T = {}
    BY <2>1, <2>2
  <2>3. CASE \E b \in T : unbeaten(b, T)
    <3>1. PICK b \in T : unbeaten(b, T)
      BY <2>3
    <3>2. CASE Beats(x, b, bounds, trades)
      <4>1. \A c \in T : ~Beats(c, x, bounds, trades)
        BY <3>1, <3>2, BeatsIsAnOrder
      <4>2. unbeaten(x, T \cup {x})
        BY <2>1, <4>1
      <4> QED
        BY <4>2
    <3>3. CASE ~Beats(x, b, bounds, trades)
      <4>1. unbeaten(b, T \cup {x})
        BY <3>1, <3>3
      <4> QED
        BY <4>1
    <3> QED
      BY <3>2, <3>3
  <2> QED
    BY <1>3, <2>2, <2>3
<1> HIDE DEF F
<1>4. S \in F
  BY <1>1, <1>2, <1>3, SetGrowth
<1>5. \E b \in S : unbeaten(b, S)
  BY <1>4 DEF F
<1> QED
  BY <1>5, BestBinsAreUnbeaten

LEMMA OnlyOneIsBest ==
  ASSUME NEW trades \in Closed, NEW bounds,
         NEW b \in BestBins(bounds, trades), NEW c \in BestBins(bounds, trades)
  PROVE  b = c
BY BestBinsAreUnbeaten, BeatsIsAnOrder

\* tune_param has one answer, for any bounds and any trades.
THEOREM OneDecision ==
  ASSUME NEW trades \in Closed, NEW bounds, bounds.n_bins \in Nat, NEW value, NEW n
  PROVE  \E new : tune_param(bounds, value, trades, n) = {new}
<1>1. CASE Len(trades) < n \/ BestBins(bounds, trades) = {}
  BY <1>1 DEF tune_param
<1>2. CASE ~(Len(trades) < n) /\ BestBins(bounds, trades) # {}
  <2>1. PICK b : BestBins(bounds, trades) = {b}
    BY <1>2, OnlyOneIsBest
  <2> QED
    BY <1>2, <2>1 DEF tune_param
<1> QED
  BY <1>1, <1>2

-----------------------------------------------------------------------------
(***************************************************************************)
(* The histories of MCTuneParam.                                           *)
(***************************************************************************)
TypeOK == closed \in Closed /\ current \in Int

LEMMA TypeInvariant == Spec => []TypeOK
<1>1. Init => TypeOK
  BY MCTuneParamAssumption DEF Init, TypeOK, Closed
<1>2. TypeOK /\ [Next]_vars => TypeOK'
  <2> SUFFICES ASSUME TypeOK, [Next]_vars PROVE TypeOK'
    OBVIOUS
  <2>1. ASSUME NEW at \in Ats, NEW pnl \in Pnls, Close(at, pnl) PROVE TypeOK'
    <3>1. [at |-> at, pnl |-> pnl] \in Outcome
      BY MCTuneParamAssumption DEF Outcome
    <3>2. <<[at |-> at, pnl |-> pnl]>> \o closed \in Seq(Outcome)
      BY <3>1 DEF TypeOK, Closed
    <3> QED
      BY <2>1, <3>2 DEF Close, TypeOK, Closed
  <2>2. CASE UNCHANGED vars
    BY <2>2 DEF vars, TypeOK
  <2> QED
    BY <2>1, <2>2 DEF Next
<1> QED
  BY <1>1, <1>2, PTL DEF Spec

\* The edges of the bins of MCTuneParam; the last bin takes the upper bound too.
LEMMA EdgesOfTenths ==
  ASSUME NEW at \in Int \cup {None}, NEW b \in 0..4
  PROVE  _value_to_bin(at, Tenths) = b <=> at \in (2 * b)..(IF b = 4 THEN 10 ELSE 2 * b + 1)
<1> DEFINE k == (at * 5) \div 10
<1>1. /\ Tenths.bound_min = 0 /\ Tenths.bound_max = 10 /\ Tenths.n_bins = 5
      /\ Width(Tenths) = 10
  BY DEF Tenths, Width
<1>2. CASE at \notin 0..10
  <2>1. _value_to_bin(at, Tenths) = None
    BY <1>1, <1>2 DEF _value_to_bin, InBounds
  <2>2. None # b
    BY SharpeAssumption
  <2> QED
    BY <1>2, <2>1, <2>2
<1>3. CASE at \in 0..10
  <2>1. _value_to_bin(at, Tenths) = Min({((at - 0) * 5) \div 10, 4})
    BY <1>1, <1>3, SharpeAssumption DEF _value_to_bin, InBounds
  <2>2. ((at - 0) * 5) \div 10 = k /\ k \in 0..5 /\ 2 * k <= at /\ at <= 2 * k + 1
    <3>1. at = 0 \/ at = 1 \/ at = 2 \/ at = 3 \/ at = 4 \/ at = 5 \/ at = 6 \/ at = 7
          \/ at = 8 \/ at = 9 \/ at = 10
      BY <1>3
    <3> QED
      BY <3>1
  <2>3. _value_to_bin(at, Tenths) = IF k < 4 THEN k ELSE 4
    <3>1. \A n \in Int : Min({n, 4}) = IF n < 4 THEN n ELSE 4
      BY DEF Min
    <3> QED
      BY <2>1, <2>2, <3>1
  <2> HIDE DEF k
  <2> QED
    BY <1>3, <2>2, <2>3
<1> QED
  BY <1>2, <1>3

LEMMA CenterOfTenths ==
  ASSUME NEW b \in 0..4
  PROVE  Center(b, Tenths) = 2 * b + 1
<1>1. Center(b, Tenths) = 0 + ((2 * b + 1) * 10) \div 10
  BY DEF Center, Tenths, Width
<1> QED
  BY <1>1

\* The bin of a value within the bounds of MCTuneParam is the one whose centre is
\* at most half a bin away.
LEMMA BinOfTenths ==
  ASSUME NEW at \in Int \cup {None}, NEW b \in Bins(Tenths), _value_to_bin(at, Tenths) = b
  PROVE  /\ at # None /\ at \in Int /\ InBounds(at, Tenths)
         /\ Center(b, Tenths) \in {1, 3, 5, 7, 9}
         /\ Magnitude(at - Center(b, Tenths)) <= 1
<1>1. b \in 0..4
  BY DEF Bins, Tenths
<1>2. at \in (2 * b)..(IF b = 4 THEN 10 ELSE 2 * b + 1)
  BY <1>1, EdgesOfTenths
<1>3. at \in Int /\ at # None /\ InBounds(at, Tenths)
  BY <1>1, <1>2, SharpeAssumption DEF InBounds, Tenths
<1>4. Center(b, Tenths) = 2 * b + 1
  BY <1>1, CenterOfTenths
<1>5. Magnitude(at - (2 * b + 1)) <= 1
  BY <1>1, <1>2 DEF Magnitude
<1> QED
  BY <1>1, <1>3, <1>4, <1>5

\* Whenever tune_param moves a value, it moves it into the bounds and towards
\* the centre of a bin with a trade in it, never past it, by MaxStep at most.
THEOREM TowardsEvidence == Spec => []MovesTowardsEvidence
<1>1. TypeOK => MovesTowardsEvidence
  <2> SUFFICES ASSUME TypeOK, NEW new \in Proposals \ {current}
               PROVE  /\ InBounds(new, Tenths)
                      /\ InBounds(current, Tenths) => Magnitude(new - current) <= MaxStep(Tenths)
                      /\ \E i \in DOMAIN closed :
                           LET at == closed[i].at
                           IN /\ at # None /\ InBounds(at, Tenths)
                              /\ \E c \in {1, 3, 5, 7, 9} :
                                   /\ Magnitude(at - c) <= 1
                                   /\ InBounds(current, Tenths) =>
                                        \/ current < new /\ new <= c
                                        \/ c <= new /\ new < current
    BY DEF MovesTowardsEvidence
  <2>1. PICK b \in BestBins(Tenths, closed) : new = Nudged(current, Center(b, Tenths), Tenths)
    BY DEF Proposals, tune_param
  <2>2. b \in ScoredBins(Tenths, closed) /\ b \in Bins(Tenths)
    BY <2>1 DEF BestBins, ScoredBins
  <2>3. PICK i \in InBin(b, Tenths, closed) : TRUE
    BY <2>2, ScoredBin DEF TypeOK
  <2>4. /\ i \in DOMAIN closed /\ _value_to_bin(closed[i].at, Tenths) = b
        /\ closed[i].at \in Int \cup {None}
    <3>1. i \in 1..Len(closed) /\ DOMAIN closed = 1..Len(closed)
      BY InBinShape DEF TypeOK, Closed
    <3>2. closed[i] \in Outcome
      BY <3>1 DEF TypeOK, Closed
    <3> QED
      BY <3>1, <3>2 DEF InBin, Outcome
  <2> DEFINE c == Center(b, Tenths)
  <2>5. /\ closed[i].at # None /\ InBounds(closed[i].at, Tenths)
        /\ c \in {1, 3, 5, 7, 9} /\ Magnitude(closed[i].at - c) <= 1
    BY <2>2, <2>4, BinOfTenths
  <2>6. new = Nudged(current, c, Tenths) /\ current \in Int /\ c \in 1..9
    BY <2>1, <2>5 DEF TypeOK
  <2> HIDE DEF c
  <2>7. MaxStep(Tenths) = 1 /\ Tenths.bound_min = 0 /\ Tenths.bound_max = 10
    BY DEF MaxStep, Width, Tenths
  <2>8. Capped(current, c, Tenths) = IF Magnitude(c - current) <= 1 THEN c - current
                                     ELSE IF c > current THEN 1 ELSE -1
    BY <2>7 DEF Capped
  <2>9. InBounds(new, Tenths)
    BY <2>6, <2>7, <2>8 DEF Nudged, Clamp, InBounds, Magnitude
  <2>10. InBounds(current, Tenths) =>
           /\ Magnitude(new - current) <= 1
           /\ \/ current < new /\ new <= c
              \/ c <= new /\ new < current
    BY <2>6, <2>7, <2>8 DEF Nudged, Clamp, InBounds, Magnitude
  <2> QED
    BY <2>4, <2>5, <2>7, <2>9, <2>10
<1> QED
  BY <1>1, TypeInvariant, PTL

-----------------------------------------------------------------------------
(***************************************************************************)
(* The order of the trades.                                                *)
(***************************************************************************)
\* The place a trade moves to when those at i and i + 1 are swapped.
Moved(i, j) == IF j = i THEN i + 1 ELSE IF j = i + 1 THEN i ELSE j

LEMMA SwapMoves ==
  ASSUME TypeOK, NEW i \in 1..(Len(closed) - 1)
  PROVE  /\ Swapped(i) \in Closed
         /\ Len(Swapped(i)) = Len(closed) /\ DOMAIN Swapped(i) = DOMAIN closed
         /\ \A j \in DOMAIN closed :
              /\ Moved(i, j) \in DOMAIN closed
              /\ Moved(i, Moved(i, j)) = j
              /\ Swapped(i)[Moved(i, j)] = closed[j]
<1>1. /\ Len(closed) \in Nat /\ DOMAIN closed = 1..Len(closed)
      /\ closed \in Seq(Outcome) /\ closed \in [1..Len(closed) -> Outcome]
  BY DEF TypeOK, Closed
<1>2. i \in 1..Len(closed) /\ i + 1 \in 1..Len(closed)
  BY <1>1
<1>3. Swapped(i) \in Seq(Outcome) /\ Len(Swapped(i)) = Len(closed)
  BY <1>1, <1>2 DEF Swapped
<1>4. DOMAIN Swapped(i) = DOMAIN closed
  BY DEF Swapped
<1>5. ASSUME NEW j \in DOMAIN closed
      PROVE  /\ Moved(i, j) \in DOMAIN closed
             /\ Moved(i, Moved(i, j)) = j
             /\ Swapped(i)[Moved(i, j)] = closed[j]
  BY <1>1, <1>2 DEF Swapped, Moved
<1> QED
  BY <1>3, <1>4, <1>5 DEF Closed

\* A bin has the same trades before and after, and so the same Sharpe.
LEMMA SwapKeepsSharpe ==
  ASSUME TypeOK, NEW i \in 1..(Len(closed) - 1), NEW b
  PROVE  BinSharpe(b, Tenths, Swapped(i)) = BinSharpe(b, Tenths, closed)
<1> DEFINE D == InBin(b, Tenths, closed)  E == InBin(b, Tenths, Swapped(i))
           p == BinPnls(b, Tenths, closed)  q == BinPnls(b, Tenths, Swapped(i))
           m == [j \in DOMAIN closed |-> Moved(i, j)]
<1>1. D \subseteq DOMAIN closed /\ E \subseteq DOMAIN closed
  BY SwapMoves DEF InBin
<1>2. \A j \in DOMAIN closed : j \in D <=> m[j] \in E
  BY SwapMoves DEF InBin
<1>3. \A j \in DOMAIN closed : m[j] \in DOMAIN closed /\ m[m[j]] = j
  BY SwapMoves
<1>4. E = {m[j] : j \in D}
  <2> HIDE DEF D, E, m
  <2>1. ASSUME NEW e \in E PROVE \E j \in D : e = m[j]
    <3>1. m[e] \in DOMAIN closed /\ m[m[e]] = e
      BY <1>1, <1>3
    <3>2. m[e] \in D
      BY <1>2, <3>1
    <3> QED
      BY <3>1, <3>2
  <2> QED
    BY <1>1, <1>2, <2>1
<1>5. DOMAIN p = D /\ DOMAIN q = E
  BY DEF BinPnls
<1>6. \A j \in D : q[m[j]] = p[j]
  BY <1>1, <1>2, SwapMoves DEF BinPnls
<1>7. \A j, k \in D : m[j] = m[k] => j = k
  BY <1>1, <1>3
<1>8. IsList(p)
  BY InBinShape DEF TypeOK
<1> HIDE DEF D, E, p, q, m
<1>9. sharpe_proxy(q) = sharpe_proxy(p)
  BY <1>4, <1>5, <1>6, <1>7, <1>8, SharpeIgnoresOrder
<1> QED
  BY <1>9 DEF BinSharpe, BinPnls, p, q

LEMMA ScoreOfBin ==
  ASSUME TypeOK, NEW b \in 0..4
  PROVE  Score(b) = BinSharpe(b, Tenths, closed)
<1>1. \A j \in DOMAIN closed : closed[j].at \in Int \cup {None}
  <2>1. \A j \in DOMAIN closed : closed[j] \in Outcome
    BY DEF TypeOK, Closed
  <2> QED
    BY <2>1 DEF Outcome
<1>2. {j \in DOMAIN closed : closed[j].at \in (2 * b)..(IF b = 4 THEN 10 ELSE 2 * b + 1)}
        = InBin(b, Tenths, closed)
  BY <1>1, EdgesOfTenths DEF InBin
<1> QED
  BY <1>2 DEF Score, BinSharpe

\* With no more than one leader, the leaders are the best bins, of any trades
\* that have the same Sharpes.
LEMMA LeaderIsBest ==
  ASSUME TypeOK, Cardinality(Leaders) <= 1, NEW trades \in Closed,
         \A b \in 0..4 : BinSharpe(b, Tenths, trades) = BinSharpe(b, Tenths, closed)
  PROVE  BestBins(Tenths, trades) = Leaders
<1> DEFINE S == ScoredBins(Tenths, trades)
<1>0. Bins(Tenths) = 0..4 /\ Tenths.n_bins \in Nat
  BY DEF Bins, Tenths
<1>1. S = {b \in 0..4 : Score(b) # None}
  BY <1>0, ScoreOfBin DEF ScoredBins
<1>2. Leaders = {b \in S : \A c \in S : ~Less(Score(b), Score(c))}
  BY <1>1 DEF Leaders
<1>3. \A b \in S : Score(b) = BinSharpe(b, Tenths, trades)
  BY <1>1, ScoreOfBin
<1>4. BestBins(Tenths, trades) \subseteq Leaders
  BY <1>2, <1>3, BestBinsAreUnbeaten DEF Beats
<1>5. \A b, c \in Leaders : b = c
  <2>1. IsFiniteSet(Leaders)
    <3>1. IsFiniteSet(0..4)
      <4>1. 0 \in Int /\ 4 \in Int
        OBVIOUS
      <4> QED
        BY <4>1, FS_Interval, Zenon
    <3>2. Leaders \subseteq 0..4
      BY DEF Leaders
    <3> QED
      BY <3>1, <3>2, FS_Subset
  <2>2. \A b, c \in Leaders : b # c => Cardinality(Leaders) >= 2
    BY <2>1, VarietyNeedsTwo
  <2>3. Cardinality(Leaders) \in Nat
    BY <2>1, FS_CardinalityType
  <2> QED
    BY <2>2, <2>3
<1>6. Leaders # {} => BestBins(Tenths, trades) # {}
  BY <1>0, <1>2, SomeBinIsBest
<1> QED
  BY <1>4, <1>5, <1>6

\* The order in which trades are fetched decides between bins with the same
\* Sharpe and nothing else.
THEOREM OrderIsNoEvidence == Spec => []OrderOnlyBreaksTies
<1>1. TypeOK => OrderOnlyBreaksTies
  <2> SUFFICES ASSUME TypeOK, Cardinality(Leaders) <= 1, NEW i \in 1..(Len(closed) - 1)
               PROVE  tune_param(Tenths, current, Swapped(i), MinSamples) = Proposals
    BY DEF OrderOnlyBreaksTies
  <2>1. BestBins(Tenths, Swapped(i)) = Leaders
    BY SwapMoves, SwapKeepsSharpe, LeaderIsBest
  <2>2. BestBins(Tenths, closed) = Leaders
    BY LeaderIsBest DEF TypeOK
  <2>3. Len(Swapped(i)) = Len(closed)
    BY SwapMoves
  <2> QED
    BY <2>1, <2>2, <2>3 DEF tune_param, Proposals
<1> QED
  BY <1>1, TypeInvariant, PTL
=============================================================================
