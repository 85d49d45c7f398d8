--------------------------- MODULE LearningProofs ----------------------------
(***************************************************************************)
(* Proofs about LearningLoop, for any alphas, positions and PnLs, any      *)
(* window of the join and any outage that does not outlast it: type        *)
(* correctness, that the table keeps the promise of OutcomeLedger, and     *)
(* that no row is left awaiting an outcome which the joins passed over.    *)
(***************************************************************************)
EXTENDS LearningLoop, TLAPS

-----------------------------------------------------------------------------
(***************************************************************************)
(* Types.                                                                  *)
(***************************************************************************)
\* The days the join looks back, in ticks, are a number no outage exceeds.
LEMMA Window ==
  JoinDays * Day \in Nat /\ MaxOutage \in Nat /\ MaxOutage <= JoinDays * Day
<1>1. \A m, n \in Nat : m * n \in Nat
  OBVIOUS
<1>2. JoinDays * Day \in Nat
  BY <1>1, LearningAssumption
<1> QED
  BY <1>2, LearningAssumption

LEMMA OutcomeIsKind == \A pnl : Outcome(pnl) \in OutcomeKinds
BY DEF Outcome, OutcomeKinds

LEMMA InsertedIsRow ==
  ASSUME LearningTypeOK, NEW a \in Alpha, emitted[a] # None
  PROVE  Inserted(a) \in Row
<1>1. emitted[a] \in EmitRecord /\ now \in Nat
  BY DEF LearningTypeOK
<1>2. NewRow(emitted[a]) \in Row
  BY <1>1 DEF NewRow, EmitRecord, Row
<1>3. outcomes[a] \in Row \cup {None}
  BY DEF LearningTypeOK
<1> QED
  BY <1>2, <1>3 DEF Inserted

\* What a join makes of a row: its alpha's outcome, PnL and closing time, the
\* rest as it was.
LEMMA JoinedRow ==
  ASSUME LearningTypeOK, NEW a \in Alpha, NEW t \in Matching(a)
  PROVE  /\ Joined(a, t) \in Row
         /\ Joined(a, t).position = t /\ Joined(a, t).outcome \in OutcomeKinds
         /\ Joined(a, t).created_at = outcomes[a].created_at
         /\ Joined(a, t).updated_at = now
         /\ Joined(a, t).pnl = trades[t].pnl
         /\ Joined(a, t).closed_at = trades[t].closed_at
<1>1. outcomes[a] \in Row
  BY DEF Matching, Open, LearningTypeOK
<1>2. t \in Trade /\ trades[t] \in Close /\ now \in Nat
  BY DEF Matching, Joinable, LearningTypeOK
<1>3. trades[t].pnl \in Pnl /\ trades[t].closed_at \in Nat
  BY <1>2 DEF Close
<1> QED
  BY <1>1, <1>2, <1>3, OutcomeIsKind DEF Joined, Row

\* What a join does to the table: each alpha that has a match takes one.
LEMMA JoinStep ==
  ASSUME run_outcome_join, NEW a \in Alpha, LearningTypeOK
  PROVE  \/ Matching(a) = {} /\ outcomes'[a] = outcomes[a]
         \/ \E t \in Matching(a) : outcomes'[a] = Joined(a, t)
<1> DEFINE due == {b \in Alpha : Matching(b) # {}}
<1>1. PICK position \in [due -> Joinable] :
        /\ \A b \in due : position[b] \in Matching(b)
        /\ outcomes' = [b \in Alpha |-> IF b \in due THEN Joined(b, position[b])
                                        ELSE outcomes[b]]
  BY DEF run_outcome_join
<1> QED
  BY <1>1

LEMMA JoinShape ==
  ASSUME run_outcome_join
  PROVE  /\ outcomes' = [a \in Alpha |-> outcomes'[a]]
         /\ last_join' = now /\ UNCHANGED <<now, emitted, trades>>
<1> DEFINE due == {b \in Alpha : Matching(b) # {}}
<1>1. PICK position \in [due -> Joinable] :
        outcomes' = [b \in Alpha |-> IF b \in due THEN Joined(b, position[b])
                                     ELSE outcomes[b]]
  BY DEF run_outcome_join
<1>2. outcomes' = [b \in Alpha |-> outcomes'[b]]
  BY <1>1
<1> QED
  BY <1>2 DEF run_outcome_join

LEMMA TypeStep == LearningTypeOK /\ [LearningNext]_learningVars => LearningTypeOK'
<1> SUFFICES ASSUME LearningTypeOK, [LearningNext]_learningVars PROVE LearningTypeOK'
  OBVIOUS
<1> USE DEF LearningTypeOK
<1>1. ASSUME NEW a \in Alpha, NEW params \in Snapshot, Emit(a, params)
      PROVE  LearningTypeOK'
  <2>1. [emitted_at |-> now, params |-> params] \in EmitRecord
    BY DEF EmitRecord
  <2> QED
    BY <1>1, <2>1 DEF Emit
<1>2. ASSUME NEW t \in Trade, NEW pnl \in Pnl, CloseTrade(t, pnl)
      PROVE  LearningTypeOK'
  <2>1. [pnl |-> pnl, closed_at |-> now] \in Close
    BY DEF Close
  <2> QED
    BY <1>2, <2>1 DEF CloseTrade
<1>3. CASE TimePasses
  BY <1>3 DEF TimePasses
<1>4. ASSUME NEW a \in Alpha, capture_emit(a) PROVE LearningTypeOK'
  <2>1. Inserted(a) \in Row
    BY <1>4, InsertedIsRow DEF capture_emit
  <2> QED
    BY <1>4, <2>1 DEF capture_emit
<1>5. CASE run_outcome_join
  <2>1. \A a \in Alpha : outcomes'[a] \in Row \cup {None}
    BY <1>5, JoinStep, JoinedRow
  <2>2. outcomes' \in [Alpha -> Row \cup {None}]
    BY <1>5, <2>1, JoinShape
  <2> QED
    BY <1>5, <2>2, JoinShape
<1>6. CASE UNCHANGED learningVars
  BY <1>6 DEF learningVars
<1> QED
  BY <1>1, <1>2, <1>3, <1>4, <1>5, <1>6 DEF LearningNext

\* Whatever is emitted, closes or is joined, in any order and any number of times,
\* every row of feature_outcomes is well-formed (capture_emit, run_outcome_join).
THEOREM LearningTypeCorrect == LearningSpec => []LearningTypeOK
<1>1. LearningInit => LearningTypeOK
  BY DEF LearningInit, LearningTypeOK
<1> QED
  BY <1>1, TypeStep, PTL DEF LearningSpec

-----------------------------------------------------------------------------
(***************************************************************************)
(* The inductive invariant.                                                *)
(***************************************************************************)
\* A row has an outcome just when it has the position that was taken for it.
SettledRows ==
  \A a \in Alpha : outcomes[a] # None =>
    (outcomes[a].outcome = None <=> outcomes[a].position = None)

\* Nothing is dated later than now, and the join is never away for too long.
Dated ==
  /\ now <= last_join + MaxOutage
  /\ \A t \in Trade : trades[t] # None => trades[t].closed_at <= now
  /\ \A a \in Alpha : outcomes[a] # None => outcomes[a].created_at <= now

LearningInv == LearningTypeOK /\ SettledRows /\ Dated /\ NothingLeftOpen

LEMMA InitInv == LearningInit => LearningInv
<1>1. LearningInit => LearningTypeOK /\ SettledRows /\ NothingLeftOpen
  BY DEF LearningInit, LearningTypeOK, SettledRows, NothingLeftOpen
<1>2. LearningInit => Dated
  BY Window DEF LearningInit, Dated
<1> QED
  BY <1>1, <1>2 DEF LearningInv

LEMMA EmitInv ==
  ASSUME LearningInv, LearningTypeOK', NEW a \in Alpha, NEW params \in Snapshot,
         Emit(a, params)
  PROVE  LearningInv'
BY DEF LearningInv, Emit, SettledRows, Dated, NothingLeftOpen

\* A position closes now, so no join has met it.
LEMMA CloseTradeInv ==
  ASSUME LearningInv, LearningTypeOK', NEW t \in Trade, NEW pnl \in Pnl,
         CloseTrade(t, pnl)
  PROVE  LearningInv'
<1> USE DEF LearningInv, CloseTrade
<1>1. SettledRows'
  BY DEF SettledRows
<1>2. trades'[t].closed_at = now /\ \A u \in Trade \ {t} : trades'[u] = trades[u]
  BY DEF LearningTypeOK
<1>3. Dated'
  BY <1>2 DEF Dated, LearningTypeOK
<1>4. NothingLeftOpen'
  <2> SUFFICES ASSUME NEW u \in Trade, trades'[u] # None, outcomes[AlphaOf[u]] # None,
                      outcomes[AlphaOf[u]].outcome = None
               PROVE  \/ last_join <= trades'[u].closed_at
                      \/ last_join <= outcomes[AlphaOf[u]].created_at
                      \/ outcomes[AlphaOf[u]].created_at
                           > trades'[u].closed_at + JoinDays * Day - MaxOutage
    BY DEF NothingLeftOpen
  <2>1. CASE u = t
    BY <1>2, <2>1 DEF LearningTypeOK
  <2>2. CASE u # t
    BY <1>2, <2>2 DEF NothingLeftOpen
  <2> QED
    BY <2>1, <2>2
<1> QED
  BY <1>1, <1>3, <1>4

LEMMA TimePassesInv ==
  ASSUME LearningInv, LearningTypeOK', TimePasses
  PROVE  LearningInv'
<1> USE DEF LearningInv, TimePasses
<1>1. SettledRows' /\ NothingLeftOpen'
  BY DEF SettledRows, NothingLeftOpen
<1>2. Dated'
  <2>1. now \in Nat /\ last_join \in Nat
    BY DEF LearningTypeOK
  <2>2. now' <= last_join + MaxOutage
    BY <2>1, Window
  <2>3. \A t \in Trade : trades[t] # None => trades[t].closed_at <= now'
    <3>1. \A t \in Trade : trades[t] # None => trades[t].closed_at \in Nat
      BY DEF LearningTypeOK, Close
    <3> QED
      BY <2>1, <3>1 DEF Dated
  <2>4. \A a \in Alpha : outcomes[a] # None => outcomes[a].created_at <= now'
    <3>1. \A a \in Alpha : outcomes[a] # None => outcomes[a].created_at \in Nat
      BY DEF LearningTypeOK, Row
    <3> QED
      BY <2>1, <3>1 DEF Dated
  <2> QED
    BY <2>2, <2>3, <2>4 DEF Dated
<1> QED
  BY <1>1, <1>2

\* A row that is inserted is inserted now, so no join has met it.
LEMMA CaptureInv ==
  ASSUME LearningInv, LearningTypeOK', NEW a \in Alpha, capture_emit(a)
  PROVE  LearningInv'
<1> USE DEF LearningInv, capture_emit
<1>1. /\ outcomes'[a] = IF outcomes[a] = None THEN NewRow(emitted[a]) ELSE outcomes[a]
      /\ \A b \in Alpha \ {a} : outcomes'[b] = outcomes[b]
  BY DEF LearningTypeOK, Inserted
<1>2. /\ NewRow(emitted[a]).outcome = None /\ NewRow(emitted[a]).position = None
      /\ NewRow(emitted[a]).created_at = now
  BY DEF NewRow
<1>3. SettledRows'
  BY <1>1, <1>2 DEF SettledRows
<1>4. Dated'
  BY <1>1, <1>2 DEF Dated, LearningTypeOK
<1>5. NothingLeftOpen'
  <2> SUFFICES ASSUME NEW t \in Trade, trades[t] # None, outcomes'[AlphaOf[t]] # None,
                      outcomes'[AlphaOf[t]].outcome = None
               PROVE  \/ last_join <= trades[t].closed_at
                      \/ last_join <= outcomes'[AlphaOf[t]].created_at
                      \/ outcomes'[AlphaOf[t]].created_at
                           > trades[t].closed_at + JoinDays * Day - MaxOutage
    BY DEF NothingLeftOpen
  <2>1. CASE AlphaOf[t] = a /\ outcomes[a] = None
    BY <1>1, <1>2, <2>1 DEF LearningTypeOK
  <2>2. CASE ~(AlphaOf[t] = a /\ outcomes[a] = None)
    <3>1. AlphaOf[t] \in Alpha
      BY LearningAssumption
    <3>2. outcomes'[AlphaOf[t]] = outcomes[AlphaOf[t]]
      BY <1>1, <2>2, <3>1
    <3> QED
      BY <3>2 DEF NothingLeftOpen
  <2> QED
    BY <2>1, <2>2
<1> QED
  BY <1>3, <1>4, <1>5

\* A row that a join leaves open has no match: it closed before the days the join
\* looks back, which the previous join was not late enough to miss.
LEMMA JoinInv ==
  ASSUME LearningInv, LearningTypeOK', run_outcome_join
  PROVE  LearningInv'
<1> USE DEF LearningInv
<1>1. last_join' = now /\ now' = now /\ trades' = trades
  BY JoinShape
<1>2. None \notin OutcomeKinds /\ None \notin Row /\ None \notin Trade
  BY RowAssumption, LearningAssumption
<1>3. SettledRows'
  <2> SUFFICES ASSUME NEW a \in Alpha, outcomes'[a] # None
               PROVE  outcomes'[a].outcome = None <=> outcomes'[a].position = None
    BY DEF SettledRows
  <2>1. CASE outcomes'[a] = outcomes[a]
    BY <2>1 DEF SettledRows
  <2>2. ASSUME NEW t \in Matching(a), outcomes'[a] = Joined(a, t)
        PROVE  outcomes'[a].outcome = None <=> outcomes'[a].position = None
    <3>1. t \in Trade
      BY DEF Matching, Joinable
    <3> QED
      BY <1>2, <2>2, <3>1, JoinedRow
  <2> QED
    BY <2>1, <2>2, JoinStep
<1>4. Dated'
  <2>1. now <= now + MaxOutage
    BY Window DEF LearningTypeOK
  <2>2. \A a \in Alpha : outcomes'[a] # None => outcomes'[a].created_at <= now
    <3> SUFFICES ASSUME NEW a \in Alpha, outcomes'[a] # None
                 PROVE  outcomes'[a].created_at <= now
      OBVIOUS
    <3>1. CASE outcomes'[a] = outcomes[a]
      BY <3>1 DEF Dated
    <3>2. ASSUME NEW t \in Matching(a), outcomes'[a] = Joined(a, t)
          PROVE  outcomes'[a].created_at <= now
      <4>1. outcomes[a] # None
        BY <3>2 DEF Matching, Open
      <4> QED
        BY <3>2, <4>1, JoinedRow DEF Dated
    <3> QED
      BY <3>1, <3>2, JoinStep
  <2> QED
    BY <1>1, <2>1, <2>2 DEF Dated
<1>5. NothingLeftOpen'
  <2> SUFFICES ASSUME NEW t \in Trade, trades[t] # None, outcomes'[AlphaOf[t]] # None,
                      outcomes'[AlphaOf[t]].outcome = None
               PROVE  \/ now <= trades[t].closed_at
                      \/ now <= outcomes'[AlphaOf[t]].created_at
                      \/ outcomes'[AlphaOf[t]].created_at
                           > trades[t].closed_at + JoinDays * Day - MaxOutage
    BY <1>1 DEF NothingLeftOpen
  <2> DEFINE a == AlphaOf[t]
  <2>1. a \in Alpha
    BY LearningAssumption
  <2>2. Matching(a) = {} /\ outcomes'[a] = outcomes[a]
    BY <1>2, <2>1, JoinStep, JoinedRow
  <2>3. trades[t].closed_at < now - JoinDays * Day
    <3>1. t \notin Joinable
      BY <2>1, <2>2 DEF Matching, Open
    <3>2. trades[t].closed_at \in Nat /\ now \in Nat
      BY DEF LearningTypeOK, Close
    <3> QED
      BY <3>1, <3>2, Window DEF Joinable
  <2>4. /\ now \in Nat /\ last_join \in Nat /\ trades[t].closed_at \in Nat
        /\ outcomes[a].created_at \in Nat
    <3>1. outcomes[a] \in Row
      BY <2>1, <2>2 DEF LearningTypeOK
    <3> QED
      BY <3>1 DEF LearningTypeOK, Close, Row
  <2>5. \/ last_join <= trades[t].closed_at
        \/ last_join <= outcomes[a].created_at
        \/ outcomes[a].created_at > trades[t].closed_at + JoinDays * Day - MaxOutage
    BY <2>1, <2>2 DEF NothingLeftOpen
  <2>6. now <= last_join + MaxOutage
    BY DEF Dated
  <2> QED
    BY <2>2, <2>3, <2>4, <2>5, <2>6, Window
<1> QED
  BY <1>3, <1>4, <1>5

LEMMA NextInv == LearningInv /\ [LearningNext]_learningVars => LearningInv'
<1> SUFFICES ASSUME LearningInv, [LearningNext]_learningVars PROVE LearningInv'
  OBVIOUS
<1>1. LearningTypeOK'
  BY TypeStep DEF LearningInv
<1>2. CASE UNCHANGED learningVars
  BY <1>1, <1>2 DEF learningVars, LearningInv, SettledRows, Dated, NothingLeftOpen
<1>3. CASE LearningNext
  BY <1>1, <1>3, EmitInv, CloseTradeInv, TimePassesInv, CaptureInv, JoinInv
  DEF LearningNext
<1> QED
  BY <1>2, <1>3

LEMMA InvHolds == LearningSpec => []LearningInv
BY InitInv, NextInv, PTL DEF LearningSpec

\* With an outage no longer than the join looks back, only a row captured late for
\* its position is ever passed over for good (OUTCOME_JOIN_SQL).
THEOREM OnlyLateRowsStayOpen == LearningSpec => []NothingLeftOpen
<1>1. LearningInv => NothingLeftOpen
  BY DEF LearningInv
<1> QED
  BY <1>1, InvHolds, PTL

-----------------------------------------------------------------------------
(***************************************************************************)
(* LearningLoop implements OutcomeLedger: capture_emit records or does     *)
(* nothing, the join settles what is awaiting.                             *)
(***************************************************************************)
LEMMA StepKeepsLedger ==
  LearningInv /\ LearningInv' /\ [LearningNext]_learningVars => [Ledger!Next]_(Ledger!vars)
<1> SUFFICES ASSUME LearningInv, LearningInv', [LearningNext]_learningVars
             PROVE  [Ledger!Next]_(Ledger!vars)
  OBVIOUS
<1> USE DEF LearningInv
<1>1. UNCHANGED <<outcomes, trades>> => [Ledger!Next]_(Ledger!vars)
  BY DEF Ledger!vars, Entry
<1>2. ASSUME NEW t \in Trade, NEW pnl \in Pnl, CloseTrade(t, pnl) PROVE Ledger!Close(t)
  <2>1. [pnl |-> pnl, closed_at |-> now] # None
    <3>1. [pnl |-> pnl, closed_at |-> now] \in Close
      BY DEF LearningTypeOK, Close
    <3> QED
      BY <3>1, RowAssumption
  <2>2. {u \in Trade : trades'[u] # None} = {u \in Trade : trades[u] # None} \cup {t}
    BY <1>2, <2>1 DEF CloseTrade, LearningTypeOK
  <2>3. UNCHANGED outcomes
    BY <1>2 DEF CloseTrade
  <2> QED
    BY <2>2, <2>3 DEF Ledger!Close, Entry
<1>3. ASSUME NEW a \in Alpha, capture_emit(a), outcomes[a] = None PROVE Ledger!Record(a)
  <2>1. outcomes' = [outcomes EXCEPT ![a] = NewRow(emitted[a])] /\ trades' = trades
    BY <1>3 DEF capture_emit, Inserted
  <2>2. NewRow(emitted[a]) # None
    BY <1>3, InsertedIsRow, RowAssumption DEF capture_emit, Inserted
  <2>3. Entry(a) = "absent" /\ Entry(a)' = "awaiting"
    BY <1>3, <2>1, <2>2 DEF Entry, NewRow, LearningTypeOK
  <2>4. \A b \in Alpha \ {a} : Entry(b)' = Entry(b)
    BY <2>1 DEF Entry, LearningTypeOK
  <2> QED
    BY <2>1, <2>3, <2>4 DEF Ledger!Record
<1>4. ASSUME NEW a \in Alpha, capture_emit(a), outcomes[a] # None
      PROVE  UNCHANGED <<outcomes, trades>>
  BY <1>4 DEF capture_emit, Inserted, LearningTypeOK
<1>5. CASE run_outcome_join
  <2>1. trades' = trades
    BY <1>5, JoinShape
  <2>2. \A a \in Alpha : Entry(a)' \in {"absent", "awaiting"} \cup Trade
    BY DEF Entry, LearningTypeOK, Row
  <2>3. ASSUME NEW a \in Alpha
        PROVE  \/ Entry(a)' = Entry(a)
               \/ /\ Entry(a) = "awaiting"
                  /\ Entry(a)' \in {t \in {u \in Trade : trades[u] # None} : AlphaOf[t] = a}
    <3>1. CASE outcomes'[a] = outcomes[a]
      BY <3>1 DEF Entry
    <3>2. ASSUME NEW t \in Matching(a), outcomes'[a] = Joined(a, t)
          PROVE  /\ Entry(a) = "awaiting"
                 /\ Entry(a)' \in {v \in {u \in Trade : trades[u] # None} : AlphaOf[v] = a}
      <4>1. outcomes[a] # None /\ outcomes[a].position = None
        BY <3>2 DEF Matching, Open, SettledRows
      <4>2. t \in Trade /\ trades[t] # None /\ AlphaOf[t] = a
        BY DEF Matching, Joinable
      <4>3. Joined(a, t) # None /\ Joined(a, t).position = t /\ t # None
        BY <4>2, JoinedRow, RowAssumption, LearningAssumption
      <4> QED
        BY <3>2, <4>1, <4>2, <4>3 DEF Entry
    <3> QED
      BY <1>5, <3>1, <3>2, JoinStep
  <2> QED
    BY <2>1, <2>2, <2>3 DEF Ledger!Next, Ledger!Settle
<1>6. CASE UNCHANGED learningVars
  BY <1>1, <1>6 DEF learningVars
<1>7. ASSUME NEW a \in Alpha, NEW params \in Snapshot, Emit(a, params)
      PROVE  UNCHANGED <<outcomes, trades>>
  BY <1>7 DEF Emit
<1>8. CASE TimePasses
  BY <1>1, <1>8 DEF TimePasses
<1> QED
  BY <1>1, <1>2, <1>3, <1>4, <1>5, <1>6, <1>7, <1>8 DEF LearningNext, Ledger!Next

\* Whatever is captured again, however joins and closes interleave and whichever
\* position a join takes, an alpha is recorded once and its outcome taken once,
\* from a closed position of its own (INSERT_EMIT_SQL, OUTCOME_JOIN_SQL).
THEOREM ImplementsTheLedger == LearningSpec => LedgerIsKept
<1>1. LearningInit => Ledger!Init
  BY DEF LearningInit, Ledger!Init, Entry
<1> QED
  BY <1>1, InvHolds, StepKeepsLedger, PTL DEF LearningSpec, LedgerIsKept, Ledger!Spec
=============================================================================
