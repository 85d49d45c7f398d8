---------------------------- MODULE SharpeProofs ----------------------------
(***************************************************************************)
(* Proofs about the rules of Sharpe on the records of MCSharpe, of any     *)
(* length, with any integer PnLs and any thresholds but that of the Sharpe,*)
(* which is 0 as in settings.py.                                           *)
(***************************************************************************)
EXTENDS MCSharpe, SharpeLemmas

PnL    == Int \cup {None}
TypeOK == pnls \in Seq(PnL) /\ days \in 0..MaxDays

LEMMA TypeInvariant == Spec => []TypeOK
<1>1. Init => TypeOK
  BY MCSharpeAssumption DEF Init, TypeOK, PnL
<1>2. TypeOK /\ [Next]_vars => TypeOK'
  BY MCSharpeAssumption DEF TypeOK, PnL, Next, vars, CloseTrade, DayPasses
<1> QED
  BY <1>1, <1>2, PTL DEF Spec

-----------------------------------------------------------------------------
(***************************************************************************)
(* The statistics of a record.                                             *)
(***************************************************************************)
KnownIn(p) == {i \in DOMAIN p : p[i] # None}
Scored(p)  == [i \in KnownIn(p) |-> p[i]]

LEMMA StatsOf ==
  ASSUME NEW p, NEW d
  PROVE  /\ strategy_stats(p, d).n_closed = Size(p)
         /\ strategy_stats(p, d).total_pnl_usd = Total(Scored(p))
         /\ strategy_stats(p, d).sharpe = sharpe_proxy(Scored(p))
         /\ strategy_stats(p, d).days_observed = d
BY DEF strategy_stats, Scored, KnownIn

LEMMA ScoredIsList ==
  ASSUME NEW p \in Seq(PnL)
  PROVE  /\ IsList(Scored(p)) /\ DOMAIN Scored(p) = KnownIn(p)
         /\ KnownIn(p) \subseteq 1..Len(p) /\ IsFiniteSet(KnownIn(p))
         /\ \A i \in KnownIn(p) : Scored(p)[i] = p[i] /\ p[i] \in Int
         /\ Size(p) = Len(p)
<1>1. DOMAIN p = 1..Len(p) /\ Len(p) \in Nat
  OBVIOUS
<1>2. IsFiniteSet(1..Len(p)) /\ Cardinality(1..Len(p)) = Len(p)
  BY <1>1, FS_Interval
<1>3. IsFiniteSet(KnownIn(p)) /\ KnownIn(p) \subseteq 1..Len(p)
  BY <1>1, <1>2, FS_Subset DEF KnownIn
<1>4. \A i \in KnownIn(p) : p[i] \in Int
  BY DEF KnownIn, PnL
<1> QED
  BY <1>1, <1>2, <1>3, <1>4 DEF IsList, IntegersOn, Scored, Size

Loses(p) == Total(Scored(p)) < 0 /\ \E i, j \in KnownIn(p) : p[i] # p[j]

\* When should_halt halts a record, in terms of its trades.
Verdict(p, d) == should_halt(strategy_stats(p, d), Rules) \in HaltingReasons

LEMMA VerdictMeans ==
  ASSUME NEW p \in Seq(PnL), NEW d \in Nat
  PROVE  Verdict(p, d) <=> \/ Total(Scored(p)) <= CatastrophicFloor
                           \/ /\ MinNClosed <= Len(p) /\ MinDays <= d
                              /\ Loses(p)
<1> DEFINE stats == strategy_stats(p, d)
<1>1. /\ stats.n_closed = Len(p) /\ stats.total_pnl_usd = Total(Scored(p))
      /\ stats.sharpe = sharpe_proxy(Scored(p)) /\ stats.days_observed = d
  BY StatsOf, ScoredIsList
<1>2. Verdict(p, d) <=> MeetsHaltCriteria(stats, Rules)
  BY ShouldHaltIsTheCriteria DEF Verdict
<1>3. /\ Rules.min_n_closed = MinNClosed /\ Rules.min_days_observed = MinDays
      /\ Rules.sharpe_threshold = Fraction(0, 1)
      /\ Rules.catastrophic_pnl_floor_usd = CatastrophicFloor
  BY DEF Rules
<1>4. (sharpe_proxy(Scored(p)) # None /\ Less(sharpe_proxy(Scored(p)), Fraction(0, 1)))
        <=> Loses(p)
  <2>1. (\E i, j \in KnownIn(p) : p[i] # p[j])
          <=> (\E i, j \in DOMAIN Scored(p) : Scored(p)[i] # Scored(p)[j])
    BY ScoredIsList
  <2> QED
    BY <2>1, ScoredIsList, SharpeSign DEF Loses
<1>5. /\ ~(Len(p) < MinNClosed) <=> MinNClosed <= Len(p)
      /\ ~(d < MinDays) <=> MinDays <= d
  BY MCSharpeAssumption
<1> HIDE DEF stats
<1> QED
  BY <1>1, <1>2, <1>3, <1>4, <1>5 DEF MeetsHaltCriteria

LEMMA HaltedIsVerdict == (Halted <=> Verdict(pnls, days)) /\ (Halted' <=> Verdict(pnls', days'))
BY DEF Halted, Stats, Verdict

LEMMA HaltedMeans ==
  ASSUME TypeOK
  PROVE  Halted <=> \/ Total(Scored(pnls)) <= CatastrophicFloor
                    \/ /\ MinNClosed <= Len(pnls) /\ MinDays <= days
                       /\ Loses(pnls)
<1>1. pnls \in Seq(PnL) /\ days \in Nat
  BY MCSharpeAssumption DEF TypeOK
<1> QED
  BY <1>1, HaltedIsVerdict, VerdictMeans

-----------------------------------------------------------------------------
\* The chain of early returns of should_halt halts exactly by the criteria.
THEOREM HaltsByCriteria == Spec => []HaltsExactlyByCriteria
<1>1. HaltsExactlyByCriteria
  BY ShouldHaltIsTheCriteria DEF HaltsExactlyByCriteria, Halted
<1> QED
  BY <1>1, PTL

\* With enough trades and days, halted are the records below the floor and those
\* that lose on average without losing the same on every trade, and no others.
THEOREM LosersAreHalted == Spec => []HaltsTheLosers
<1>1. TypeOK => HaltsTheLosers
  <2> SUFFICES ASSUME TypeOK, Len(pnls) >= MinNClosed, days >= MinDays
               PROVE  Halted <=> \/ Total(Scored(pnls)) <= CatastrophicFloor
                                 \/ Total(Scored(pnls)) < 0 /\ Varied
    BY StatsOf DEF HaltsTheLosers, Stats
  <2>1. MinNClosed <= Len(pnls) /\ MinDays <= days
    BY MCSharpeAssumption DEF TypeOK
  <2>2. Loses(pnls) <=> Total(Scored(pnls)) < 0 /\ Varied
    BY DEF Loses, Varied, Known, KnownIn
  <2> QED
    BY <2>1, <2>2, HaltedMeans
<1> QED
  BY <1>1, TypeInvariant, PTL

\* With a floor that is a loss, no halted strategy is shown as healthy or mixed.
THEOREM BadgeAgrees ==
  ASSUME CatastrophicFloor < 0
  PROVE  Spec => []BadgeAgreesWithVerdict
<1>1. TypeOK => BadgeAgreesWithVerdict
  <2> SUFFICES ASSUME TypeOK, Halted PROVE health_badge(Stats) \in {"small-N", "bleed"}
    BY DEF BadgeAgreesWithVerdict
  <2>1. Total(Scored(pnls)) \in Int
    BY ScoredIsList, ProxyParts DEF TypeOK
  <2>2. Stats.total_pnl_usd = Total(Scored(pnls))
    BY StatsOf DEF Stats
  <2>3. Stats.total_pnl_usd < 0 /\ Stats.total_pnl_usd \in Int
    BY <2>1, <2>2, HaltedMeans, MCSharpeAssumption DEF Loses
  <2> QED
    BY <2>3 DEF health_badge
<1> QED
  BY <1>1, TypeInvariant, PTL

-----------------------------------------------------------------------------
(***************************************************************************)
(* One more loss.                                                          *)
(***************************************************************************)
LEMMA OneMoreLoss ==
  ASSUME NEW p \in Seq(PnL), NEW loss \in Int, loss < 0
  PROVE  LET q == Append(p, loss)
         IN  /\ Total(Scored(q)) = Total(Scored(p)) + loss
             /\ Total(Scored(p)) \in Int
             /\ Loses(p) => Loses(q)
<1> DEFINE q == Append(p, loss)
           n == Len(p) + 1
           D == KnownIn(p)
<1>1. /\ q \in Seq(PnL) /\ Len(p) \in Nat
      /\ DOMAIN q = 1..n /\ DOMAIN p = 1..Len(p) /\ n \notin DOMAIN p
      /\ q[n] = loss /\ \A i \in 1..Len(p) : q[i] = p[i]
  BY DEF PnL
<1>2. n \notin D /\ IsFiniteSet(D) /\ KnownIn(q) = D \cup {n}
  <2>1. IsFiniteSet(D) /\ D \subseteq 1..Len(p)
    BY ScoredIsList
  <2>2. 1..n = (1..Len(p)) \cup {n} /\ n \notin 1..Len(p)
    BY <1>1
  <2>3. loss # None
    BY SharpeAssumption
  <2> HIDE DEF q, n
  <2> QED
    BY <1>1, <2>1, <2>2, <2>3 DEF KnownIn
<1>3. /\ \A i \in D : Scored(q)[i] = Scored(p)[i] /\ Scored(p)[i] \in Int
      /\ Scored(q)[n] = loss
  BY <1>1, <1>2, ScoredIsList DEF Scored, KnownIn
<1>4. IntegersOn(Scored(q), D \cup {n}) /\ IntegersOn(Scored(p), D)
  BY <1>3 DEF IntegersOn
<1>5. Total(Scored(q)) = SumOf(Scored(q), D \cup {n}) /\ Total(Scored(p)) = SumOf(Scored(p), D)
  BY <1>1, <1>2, ScoredIsList, ProxyParts
<1> HIDE DEF q, n, D
<1>6. SumOf(Scored(q), D \cup {n}) = SumOf(Scored(q), D) + loss
  BY <1>2, <1>3, <1>4, SumOfAdd
<1>7. SumOf(Scored(q), D) = SumOf(Scored(p), D)
  BY <1>2, <1>3, <1>4, SumOfSame
<1>8. Total(Scored(p)) \in Int
  BY <1>2, <1>4, <1>5, SumOfType
<1>9. Total(Scored(q)) = Total(Scored(p)) + loss
  BY <1>5, <1>6, <1>7
<1>10. ASSUME Loses(p) PROVE Loses(q)
  <2>1. PICK i \in D, j \in D : p[i] # p[j]
    BY <1>10 DEF Loses, D
  <2>2. i \in KnownIn(q) /\ j \in KnownIn(q) /\ q[i] # q[j]
    BY <1>1, <1>2, <2>1, ScoredIsList DEF D
  <2>3. Total(Scored(p)) < 0
    BY <1>10 DEF Loses
  <2> QED
    BY <1>8, <1>9, <2>2, <2>3 DEF Loses
<1> QED
  BY <1>8, <1>9, <1>10 DEF q

\* One more losing trade, or one more day, never talks should_halt out of a halt.
THEOREM LossesNeverRescue == Spec => LossNeverRescues
<1> DEFINE Worse == pnls' = pnls \/ \E loss \in Pnls \ {None} :
                      loss < 0 /\ pnls' = Append(pnls, loss)
<1>1. TypeOK /\ TypeOK' /\ [Next]_vars => [Halted /\ Worse => Halted']_vars
  <2> SUFFICES ASSUME TypeOK, TypeOK', [Next]_vars, Halted, Worse PROVE Halted'
    OBVIOUS
  <2>1. /\ pnls \in Seq(PnL) /\ Len(pnls) \in Nat /\ pnls' \in Seq(PnL) /\ Len(pnls') \in Nat
        /\ days \in Nat /\ days' \in Nat
    BY MCSharpeAssumption DEF TypeOK
  <2>2. days' >= days
    BY <2>1 DEF Next, vars, CloseTrade, DayPasses
  <2>3. Halted' <=> \/ Total(Scored(pnls')) <= CatastrophicFloor
                    \/ /\ MinNClosed <= Len(pnls') /\ MinDays <= days'
                       /\ Loses(pnls')
    BY <2>1, HaltedIsVerdict, VerdictMeans
  <2>4. MinDays <= days => MinDays <= days'
    BY <2>1, <2>2, MCSharpeAssumption
  <2>5. CASE pnls' = pnls
    BY <2>3, <2>4, <2>5, HaltedMeans
  <2>6. ASSUME NEW loss \in Pnls \ {None}, loss < 0, pnls' = Append(pnls, loss)
        PROVE  Halted'
    <3>1. loss \in Int
      BY MCSharpeAssumption
    <3>2. /\ Total(Scored(pnls')) = Total(Scored(pnls)) + loss
          /\ Total(Scored(pnls)) \in Int /\ (Loses(pnls) => Loses(pnls'))
      BY <2>1, <2>6, <3>1, OneMoreLoss
    <3>3. Len(pnls') = Len(pnls) + 1
      BY <2>1, <2>6
    <3>4. Total(Scored(pnls)) <= CatastrophicFloor => Total(Scored(pnls')) <= CatastrophicFloor
      BY <2>6, <3>1, <3>2, MCSharpeAssumption
    <3>5. MinNClosed <= Len(pnls) => MinNClosed <= Len(pnls')
      BY <2>1, <3>3, MCSharpeAssumption
    <3> QED
      BY <2>3, <2>4, <3>2, <3>4, <3>5, HaltedMeans
  <2> QED
    BY <2>5, <2>6
<1> QED
  BY <1>1, TypeInvariant, PTL DEF Spec, LossNeverRescues
=============================================================================
