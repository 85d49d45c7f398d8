---------------------------- MODULE ExportProofs -----------------------------
(***************************************************************************)
(* Proofs about TrainingExport, for any alphas, positions and windows and  *)
(* exports cut short anywhere: that the files agree with the table and the *)
(* table with the positions, and which outcomes can miss the files.        *)
(***************************************************************************)
EXTENDS TrainingExport, LearningProofs

-----------------------------------------------------------------------------
(***************************************************************************)
(* What the loops may do to the table while the export looks away.         *)
(***************************************************************************)
Settled(a) == outcomes[a] # None /\ outcomes[a].outcome # None

LEMMA ExportWindow ==
  ExportDays * Day \in Nat /\ MaxGap \in Nat /\ MaxGap <= ExportDays * Day
<1>1. \A m, n \in Nat : m * n \in Nat
  OBVIOUS
<1>2. ExportDays * Day \in Nat
  BY <1>1, ExportAssumption, LearningAssumption
<1> QED
  BY <1>2, ExportAssumption

\* A position that is closed stays as it is.
LEMMA ClosedStays ==
  ASSUME LearningTypeOK, [LearningNext]_learningVars, NEW t \in Trade, trades[t] # None
  PROVE  trades'[t] = trades[t]
BY JoinShape
DEF LearningTypeOK, LearningNext, learningVars, Emit, CloseTrade, TimePasses, capture_emit

\* A row changes only when it is inserted, and then it is open, or joined.
LEMMA RowStep ==
  ASSUME LearningTypeOK, [LearningNext]_learningVars, NEW a \in Alpha
  PROVE  \/ outcomes'[a] = outcomes[a]
         \/ outcomes[a] = None /\ outcomes'[a].outcome = None
         \/ \E t \in Matching(a) : outcomes'[a] = Joined(a, t) /\ UNCHANGED <<trades, now>>
<1>1. CASE UNCHANGED outcomes
  BY <1>1
<1>2. ASSUME NEW b \in Alpha, capture_emit(b)
      PROVE  \/ outcomes'[a] = outcomes[a]
             \/ outcomes[a] = None /\ outcomes'[a].outcome = None
  <2>1. NewRow(emitted[b]).outcome = None
    BY DEF NewRow
  <2>2. outcomes' = [outcomes EXCEPT ![b] = Inserted(b)]
    BY <1>2 DEF capture_emit
  <2>3. CASE a = b /\ outcomes[a] = None
    <3>1. outcomes'[a] = Inserted(b)
      BY <2>2, <2>3 DEF LearningTypeOK
    <3> QED
      BY <2>1, <2>3, <3>1 DEF Inserted
  <2>4. CASE ~(a = b /\ outcomes[a] = None)
    <3>1. a = b => Inserted(b) = outcomes[a]
      BY <2>4 DEF Inserted
    <3> QED
      BY <2>2, <3>1 DEF LearningTypeOK
  <2> QED
    BY <2>3, <2>4
<1>3. CASE run_outcome_join
  BY <1>3, JoinStep, JoinShape
<1> QED
  BY <1>1, <1>2, <1>3 DEF LearningNext, learningVars, Emit, CloseTrade, TimePasses

\* The write-once rule: a settled row stays as it is.
LEMMA SettledStays ==
  ASSUME LearningTypeOK, [LearningNext]_learningVars, NEW a \in Alpha, Settled(a)
  PROVE  outcomes'[a] = outcomes[a]
BY RowStep DEF Settled, Matching, Open

-----------------------------------------------------------------------------
(***************************************************************************)
(* The inductive invariant.                                                *)
(***************************************************************************)
\* What a settled row says is what a closed position of its alpha says.
Sourced ==
  \A a \in Alpha : Settled(a) =>
    LET row == outcomes[a]
    IN /\ row.position \in Trade /\ AlphaOf[row.position] = a
       /\ trades[row.position] # None
       /\ trades[row.position] = [pnl |-> row.pnl, closed_at |-> row.closed_at]

\* Only settled rows are filed.
Filed ==
  \A f \in File : files[f] \notin {None, Torn} => \A r \in files[f] : outcomes[r.alpha] # None

ExportInv ==
  /\ LearningInv /\ ExportTypeOK /\ Sourced /\ Filed
  /\ now <= last_export + MaxGap
  /\ FilesTellTheTruth /\ ExportedInTime

LEMMA ExportInitInv == ExportInit => ExportInv
<1> SUFFICES ASSUME ExportInit PROVE ExportInv
  OBVIOUS
<1>1. LearningInv
  BY InitInv DEF ExportInit
<1>2. ExportTypeOK
  BY <1>1 DEF ExportInit, LearningInv, ExportTypeOK, LearningInit
<1>3. Sourced /\ Filed /\ FilesTellTheTruth /\ ExportedInTime
  BY DEF ExportInit, LearningInit, Sourced, Settled, Filed, FilesTellTheTruth, ExportedInTime
<1>4. now <= last_export + MaxGap
  BY ExportWindow DEF ExportInit, LearningInit
<1> QED
  BY <1>1, <1>2, <1>3, <1>4 DEF ExportInv

-----------------------------------------------------------------------------
(***************************************************************************)
(* A step of the loops.  Records and settled rows stay, so what agreed     *)
(* agrees; a row that is settled is settled now.                           *)
(***************************************************************************)
LEMMA SourcedStep ==
  ASSUME LearningInv, Sourced, [LearningNext]_learningVars
  PROVE  Sourced'
<1> SUFFICES ASSUME NEW a \in Alpha, Settled(a)'
             PROVE  LET row == outcomes'[a]
                    IN /\ row.position \in Trade /\ AlphaOf[row.position] = a
                       /\ trades'[row.position] # None
                       /\ trades'[row.position] = [pnl |-> row.pnl, closed_at |-> row.closed_at]
  BY DEF Sourced
<1> USE DEF LearningInv
<1>1. CASE outcomes'[a] = outcomes[a]
  <2>1. Settled(a)
    BY <1>1 DEF Settled
  <2>2. trades[outcomes[a].position] # None
    BY <2>1 DEF Sourced
  <2> QED
    BY <1>1, <2>1, <2>2, ClosedStays DEF Sourced
<1>2. ASSUME NEW t \in Matching(a), outcomes'[a] = Joined(a, t), UNCHANGED trades
      PROVE  LET row == outcomes'[a]
             IN /\ row.position \in Trade /\ AlphaOf[row.position] = a
                /\ trades'[row.position] # None
                /\ trades'[row.position] = [pnl |-> row.pnl, closed_at |-> row.closed_at]
  <2>1. t \in Trade /\ trades[t] # None /\ trades[t] \in Close /\ AlphaOf[t] = a
    BY DEF Matching, Joinable, LearningTypeOK
  <2>2. trades[t] = [pnl |-> trades[t].pnl, closed_at |-> trades[t].closed_at]
    BY <2>1 DEF Close
  <2> QED
    BY <1>2, <2>1, <2>2, JoinedRow
<1> QED
  BY <1>1, <1>2, RowStep DEF Settled

LEMMA ElsewhereInv ==
  ASSUME ExportInv, Elsewhere
  PROVE  ExportInv'
<1> USE DEF ExportInv, Elsewhere
<1>1. LearningInv'
  BY NextInv
<1>2. ExportTypeOK'
  <2>1. now <= now'
    BY JoinShape DEF LearningInv, LearningTypeOK, LearningNext, Emit, CloseTrade,
                     TimePasses, capture_emit
  <2> QED
    BY <1>1, <2>1 DEF ExportTypeOK, LearningInv, LearningTypeOK
<1>3. Sourced'
  BY SourcedStep
<1>4. ASSUME NEW f \in File, files[f] \notin {None, Torn}, NEW r \in files[f]
      PROVE  /\ r.alpha \in Alpha /\ Settled(r.alpha)
             /\ outcomes'[r.alpha] = outcomes[r.alpha]
  <2>1. r \in Record /\ outcomes[r.alpha] # None
    BY <1>4 DEF ExportTypeOK, Filed
  <2>2. outcomes[r.alpha].outcome = r.outcome
    <3>1. r = RecordOf(r.alpha)
      BY <1>4 DEF FilesTellTheTruth
    <3>2. RecordOf(r.alpha).outcome = outcomes[r.alpha].outcome
      BY DEF RecordOf
    <3> QED
      BY <3>1, <3>2
  <2>3. r.alpha \in Alpha /\ Settled(r.alpha)
    BY <2>1, <2>2, RowAssumption DEF Record, Settled
  <2> QED
    BY <2>3, SettledStays DEF LearningInv
<1>5. Filed'
  BY <1>4 DEF Filed
<1>6. FilesTellTheTruth'
  <2> SUFFICES ASSUME NEW f \in File, files[f] \notin {None, Torn}, NEW r \in files[f]
               PROVE  LET row == outcomes'[r.alpha]
                      IN /\ f = <<StrategyOf[r.alpha], r.closed_at \div Day>>
                         /\ r = RecordOf(r.alpha)'
                         /\ AlphaOf[row.position] = r.alpha
                         /\ trades'[row.position] = [pnl |-> r.pnl, closed_at |-> r.closed_at]
    BY DEF FilesTellTheTruth
  <2>1. Settled(r.alpha) /\ outcomes'[r.alpha] = outcomes[r.alpha] /\ r.alpha \in Alpha
    BY <1>4
  <2>2. RecordOf(r.alpha)' = RecordOf(r.alpha)
    BY <2>1 DEF RecordOf
  <2>3. /\ f = <<StrategyOf[r.alpha], r.closed_at \div Day>> /\ r = RecordOf(r.alpha)
        /\ AlphaOf[outcomes[r.alpha].position] = r.alpha
        /\ trades[outcomes[r.alpha].position] = [pnl |-> r.pnl, closed_at |-> r.closed_at]
    BY DEF FilesTellTheTruth
  <2>4. outcomes[r.alpha].position \in Trade /\ trades[outcomes[r.alpha].position] # None
    BY <2>1 DEF Sourced
  <2>5. trades'[outcomes[r.alpha].position] = trades[outcomes[r.alpha].position]
    BY <2>4, ClosedStays DEF LearningInv
  <2> QED
    BY <2>1, <2>2, <2>3, <2>5
<1>7. now' <= last_export' + MaxGap
  BY ExportWindow, JoinShape DEF LearningInv, LearningTypeOK, LearningNext, Emit, CloseTrade,
                  TimePasses, capture_emit, ExportTypeOK
<1>8. ExportedInTime'
  <2> SUFFICES ASSUME NEW a \in Alpha \ exported, Settled(a)'
               PROVE  \/ last_export <= outcomes'[a].updated_at
                      \/ outcomes'[a].updated_at
                           > outcomes'[a].closed_at + ExportDays * Day - MaxGap
    BY DEF ExportedInTime, Settled
  <2>1. CASE outcomes'[a] = outcomes[a]
    BY <2>1 DEF ExportedInTime, Settled
  <2>2. ASSUME NEW t \in Matching(a), outcomes'[a] = Joined(a, t)
        PROVE  last_export <= outcomes'[a].updated_at
    BY <2>2, JoinedRow DEF ExportTypeOK, LearningTypeOK
  <2> QED
    BY <2>1, <2>2, RowStep DEF Settled, LearningInv
<1> QED
  BY <1>1, <1>2, <1>3, <1>5, <1>6, <1>7, <1>8

-----------------------------------------------------------------------------
(***************************************************************************)
(* A step of the export.  What it writes is copied from settled rows; what *)
(* a complete export passes over closed before the days it asks for.       *)
(***************************************************************************)
LEMMA ExportedIsSettled ==
  ASSUME NEW a \in ExportedRows
  PROVE  a \in Alpha /\ Settled(a) /\ outcomes[a].outcome \in OutcomeKinds
BY RowAssumption DEF ExportedRows, ClosedWithin, Settled

LEMMA RecordIsRecord ==
  ASSUME LearningTypeOK, Sourced, NEW a \in ExportedRows
  PROVE  RecordOf(a) \in Record
<1>1. a \in Alpha /\ Settled(a) /\ outcomes[a].outcome \in OutcomeKinds
  BY ExportedIsSettled
<1> DEFINE row == outcomes[a]
<1>2. /\ trades[row.position] \in Close
      /\ trades[row.position] = [pnl |-> row.pnl, closed_at |-> row.closed_at]
  BY <1>1 DEF Sourced, LearningTypeOK
<1>3. row.pnl \in Pnl /\ row.closed_at \in Nat
  <2>1. /\ [pnl |-> row.pnl, closed_at |-> row.closed_at].pnl \in Pnl
        /\ [pnl |-> row.pnl, closed_at |-> row.closed_at].closed_at \in Nat
    BY <1>2 DEF Close
  <2> QED
    BY <2>1
<1> QED
  BY <1>1, <1>3 DEF RecordOf, Record

\* What is in an intact file after the export is a record it has just copied, or
\* was in the file before.
LEMMA FileStep ==
  ASSUME NEW written, NEW torn, export_recent(written, torn),
         NEW f \in File, files'[f] \notin {None, Torn}, NEW r \in files'[f]
  PROVE  \/ files'[f] = files[f]
         \/ \E a \in ExportedRows : r = RecordOf(a) /\ FileOf(a) = f
<1>1. files'[f] = IF f \in written
                  THEN {RecordOf(a) : a \in {b \in ExportedRows : FileOf(b) = f}}
                  ELSE IF f = torn THEN Torn ELSE files[f]
  BY DEF export_recent
<1>2. CASE f \in written
  BY <1>1, <1>2
<1>3. CASE f \notin written
  BY <1>1, <1>3
<1> QED
  BY <1>2, <1>3

LEMMA ExportTruth ==
  ASSUME ExportInv, NEW written, NEW torn, export_recent(written, torn),
         NEW f \in File, files'[f] \notin {None, Torn}, NEW r \in files'[f]
  PROVE  /\ r \in Record
         /\ outcomes[r.alpha] # None
         /\ f = <<StrategyOf[r.alpha], r.closed_at \div Day>>
         /\ r = RecordOf(r.alpha)
         /\ AlphaOf[outcomes[r.alpha].position] = r.alpha
         /\ trades[outcomes[r.alpha].position] = [pnl |-> r.pnl, closed_at |-> r.closed_at]
<1> USE DEF ExportInv
<1>1. CASE files'[f] = files[f]
  BY <1>1 DEF ExportTypeOK, Filed, FilesTellTheTruth
<1>2. ASSUME NEW a \in ExportedRows, r = RecordOf(a), FileOf(a) = f
      PROVE  /\ r \in Record /\ outcomes[r.alpha] # None
             /\ f = <<StrategyOf[r.alpha], r.closed_at \div Day>>
             /\ r = RecordOf(r.alpha)
             /\ AlphaOf[outcomes[r.alpha].position] = r.alpha
             /\ trades[outcomes[r.alpha].position] = [pnl |-> r.pnl, closed_at |-> r.closed_at]
  <2>1. r \in Record
    BY <1>2, RecordIsRecord DEF ExportTypeOK
  <2>2. r.alpha = a /\ r.pnl = outcomes[a].pnl /\ r.closed_at = outcomes[a].closed_at
    BY <1>2 DEF RecordOf
  <2>3. a \in Alpha /\ Settled(a)
    BY ExportedIsSettled
  <2> QED
    BY <1>2, <2>1, <2>2, <2>3 DEF Sourced, Settled, FileOf
<1> QED
  BY <1>1, <1>2, FileStep

LEMMA ExportStepInv ==
  ASSUME ExportInv, NEW written, NEW torn, export_recent(written, torn)
  PROVE  ExportInv'
<1> USE DEF ExportInv
<1>0. UNCHANGED learningVars
  BY DEF export_recent
<1>1. LearningInv'
  BY <1>0, NextInv
<1>2. now \in Nat /\ last_export \in 0..now
  BY DEF ExportTypeOK, LearningTypeOK
<1>3. last_export' \in 0..now' /\ now' <= last_export' + MaxGap
  BY <1>0, <1>2, ExportWindow DEF export_recent, learningVars
<1>4. exported' = exported \cup {a \in ExportedRows : FileOf(a) \in written}
  BY DEF export_recent
<1>5. ExportTypeOK'
  <2>1. DOMAIN files' = File
    BY DEF export_recent
  <2>2. exported' \subseteq Alpha
    BY <1>4, ExportedIsSettled DEF ExportTypeOK
  <2>3. \A f \in File : files'[f] \in {None, Torn} \/ \A r \in files'[f] : r \in Record
    BY ExportTruth
  <2> QED
    BY <1>1, <1>3, <2>1, <2>2, <2>3 DEF ExportTypeOK, LearningInv
<1>6. Sourced'
  BY <1>0 DEF Sourced, Settled, learningVars
<1>7. Filed'
  BY <1>0, ExportTruth DEF Filed, learningVars
<1>8. FilesTellTheTruth'
  <2>1. \A a : RecordOf(a)' = RecordOf(a)
    BY <1>0 DEF RecordOf, learningVars
  <2>2. UNCHANGED <<outcomes, trades>>
    BY <1>0 DEF learningVars
  <2> QED
    BY <2>1, <2>2, ExportTruth DEF FilesTellTheTruth
<1>9. ExportedInTime'
  <2> SUFFICES ASSUME NEW a \in Alpha \ exported', Settled(a)
               PROVE  \/ last_export' <= outcomes[a].updated_at
                      \/ outcomes[a].updated_at
                           > outcomes[a].closed_at + ExportDays * Day - MaxGap
    BY <1>0 DEF ExportedInTime, Settled, learningVars
  <2>1. \/ last_export <= outcomes[a].updated_at
        \/ outcomes[a].updated_at > outcomes[a].closed_at + ExportDays * Day - MaxGap
    BY <1>4 DEF ExportedInTime, Settled
  <2>2. CASE last_export' = last_export
    BY <2>1, <2>2
  <2>3. CASE last_export' # last_export
    <3>1. written = {FileOf(b) : b \in ExportedRows} /\ last_export' = now
      BY <2>3 DEF export_recent
    <3>2. a \notin ExportedRows
      BY <1>4, <3>1
    <3>3. outcomes[a] \in Row
      BY DEF Settled, ExportTypeOK, LearningTypeOK
    <3>4. outcomes[a].outcome \in OutcomeKinds /\ outcomes[a].updated_at \in Nat
      BY <3>3 DEF Settled, Row
    <3>5. outcomes[a].closed_at \in Nat
      <4>1. /\ trades[outcomes[a].position] \in Close
            /\ trades[outcomes[a].position] =
                 [pnl |-> outcomes[a].pnl, closed_at |-> outcomes[a].closed_at]
        BY DEF Sourced, ExportTypeOK, LearningTypeOK
      <4>2. [pnl |-> outcomes[a].pnl, closed_at |-> outcomes[a].closed_at].closed_at \in Nat
        BY <4>1 DEF Close
      <4> QED
        BY <4>2
    <3>6. ~(outcomes[a].closed_at >= now - ExportDays * Day)
      BY <3>2, <3>4 DEF ExportedRows, ClosedWithin, Settled
    <3> QED
      BY <1>2, <2>1, <3>4, <3>5, <3>6, ExportWindow
  <2> QED
    BY <2>2, <2>3
<1> QED
  BY <1>1, <1>3, <1>5, <1>6, <1>7, <1>8, <1>9

LEMMA ExportNextInv == ExportInv /\ [ExportNext]_exportVars => ExportInv'
<1> SUFFICES ASSUME ExportInv, [ExportNext]_exportVars PROVE ExportInv'
  OBVIOUS
<1>1. CASE UNCHANGED exportVars
  <2>1. LearningInv'
    BY <1>1, NextInv DEF exportVars, ExportInv
  <2>2. UNCHANGED <<now, emitted, trades, outcomes, last_join, files, last_export, exported>>
    BY <1>1 DEF exportVars, learningVars
  <2> QED
    BY <2>1, <2>2 DEF ExportInv, LearningInv, ExportTypeOK, Sourced, Settled, Filed,
                      FilesTellTheTruth, RecordOf, ExportedInTime
<1> QED
  BY <1>1, ElsewhereInv, ExportStepInv DEF ExportNext

LEMMA ExportInvHolds == ExportSpec => []ExportInv
BY ExportInitInv, ExportNextInv, PTL DEF ExportSpec

-----------------------------------------------------------------------------
(***************************************************************************)
(* What follows.                                                           *)
(***************************************************************************)
\* Files hold records of settled alphas, whatever is exported (export_recent).
THEOREM ExportTypeCorrect == ExportSpec => []ExportTypeOK
<1>1. ExportInv => ExportTypeOK
  BY DEF ExportInv
<1> QED
  BY <1>1, ExportInvHolds, PTL

\* Whenever an export runs, wherever it is cut short and whatever the loops do to
\* the table between two of them, an intact file never contradicts the table, nor
\* the table the positions (export_recent, OUTCOME_JOIN_SQL).
THEOREM IntactFilesAreTrue == ExportSpec => []FilesTellTheTruth
<1>1. ExportInv => FilesTellTheTruth
  BY DEF ExportInv
<1> QED
  BY <1>1, ExportInvHolds, PTL

\* With exports no further apart than the days they ask for, only an outcome that
\* was settled late after its close never gets into a file (run_nightly_export).
THEOREM OnlyLateOutcomesMissTheFiles == ExportSpec => []ExportedInTime
<1>1. ExportInv => ExportedInTime
  BY DEF ExportInv
<1> QED
  BY <1>1, ExportInvHolds, PTL
=============================================================================
