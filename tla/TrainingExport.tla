--------------------------- MODULE TrainingExport ----------------------------
(***************************************************************************)
(* training_export.py: the files, one per strategy and day of closing,     *)
(* that the nightly export writes from feature_outcomes, beside the loops  *)
(* that fill the table.  After its query the export does not await, and    *)
(* nobody else touches the files, so that the query and the writing are    *)
(* one step.  A crash or an exception cuts the writing short: the files    *)
(* not yet reached are left as they were, the one being written is torn,   *)
(* and the export starts anew after an interval or a restart.              *)
(***************************************************************************)
EXTENDS LearningLoop

CONSTANTS
  StrategyOf,   \* Alpha -> its strategy_slug
  ExportDays,   \* the days run_nightly_export asks for
  MaxGap,       \* bound: ticks from one complete export to the next
  Torn          \* what a file cut short while it is written holds

ASSUME ExportAssumption ==
  /\ ExportDays \in Nat \ {0} /\ MaxGap \in 1..(ExportDays * Day)
  /\ \A a \in Alpha : StrategyOf[a] # None

VARIABLES
  files,        \* <<strategy, date>> -> the records in the file, None without one
  last_export,  \* when an export last ran to its end
  exported      \* history: the alphas that were in an intact file some time

exportVars == <<learningVars, files, last_export, exported>>

File == {StrategyOf[a] : a \in Alpha} \X (0..(MaxNow \div Day))
Record == [alpha : Alpha, outcome : OutcomeKinds, pnl : Pnl, closed_at : Nat]

ExportTypeOK ==
  /\ LearningTypeOK
  /\ \A f \in File :
       files[f] \in {None, Torn} \/ \A r \in files[f] : r \in Record
  /\ DOMAIN files = File
  /\ last_export \in 0..now /\ exported \subseteq Alpha

ExportInit ==
  /\ LearningInit
  /\ files = [f \in File |-> None]
  /\ last_export = 0 /\ exported = {}

\* Mutant: a row goes into the file of the day its alpha was emitted.
Mut_ByEmitDate(a) == <<StrategyOf[a], outcomes[a].emitted_at \div Day>>

FileOf(a) == <<StrategyOf[a], outcomes[a].closed_at \div Day>>

RecordOf(a) == [alpha |-> a, outcome |-> outcomes[a].outcome, pnl |-> outcomes[a].pnl,
                closed_at |-> outcomes[a].closed_at]

\* Mutant: yesterday's data, taken as one day.
Mut_Yesterday == ClosedWithin(Alpha, 1)

\* The 100_000 rows the query is limited to are never reached.
ExportedRows == ClosedWithin(Alpha, ExportDays)

\* export_recent: "written" are the files it gets to, "torn" the one at which it
\* is cut short, if it is.
export_recent(written, torn) ==
  LET due == {FileOf(a) : a \in ExportedRows}
  IN /\ written \subseteq due /\ torn \in (due \ written) \cup {None}
     /\ files' = [f \in File |->
                    IF f \in written
                    THEN {RecordOf(a) : a \in {b \in ExportedRows : FileOf(b) = f}}
                    ELSE IF f = torn THEN Torn ELSE files[f]]
     /\ exported' = exported \cup {a \in ExportedRows : FileOf(a) \in written}
     /\ last_export' = IF written = due THEN now ELSE last_export
     /\ UNCHANGED learningVars

\* The strategies, the trading stack and the other loops, and the clock.
Elsewhere ==
  /\ LearningNext
  /\ now' # now => now - last_export < MaxGap
  /\ UNCHANGED <<files, last_export, exported>>

ExportNext ==
  \/ Elsewhere
  \/ \E written \in SUBSET File, torn \in File \cup {None} : export_recent(written, torn)

ExportSpec == ExportInit /\ [][ExportNext]_exportVars

-----------------------------------------------------------------------------
(***************************************************************************)
(* Properties.                                                             *)
(***************************************************************************)
\* An intact file, however old, agrees with the table as it is now and the table
\* with the positions: each record is in the file of its strategy and day, and
\* says what a closed position of its alpha says.  In particular no alpha is in
\* two files (export_recent, and the write-once rule of OUTCOME_JOIN_SQL).
FilesTellTheTruth ==
  \A f \in File :
    files[f] \notin {None, Torn} =>
      \A r \in files[f] :
        LET row == outcomes[r.alpha]
        IN /\ f = <<StrategyOf[r.alpha], r.closed_at \div Day>>
           /\ r = RecordOf(r.alpha)
           /\ AlphaOf[row.position] = r.alpha
           /\ trades[row.position] = [pnl |-> r.pnl, closed_at |-> r.closed_at]

\* Every settled outcome gets into a file, unless no export has completed since
\* or it was settled too late: the join may be seven days behind, the export only
\* looks two days back (run_nightly_export).
ExportedInTime ==
  \A a \in Alpha \ exported :
    LET row == outcomes[a]
    IN row # None /\ row.outcome # None =>
         \/ last_export <= row.updated_at
         \/ row.updated_at > row.closed_at + ExportDays * Day - MaxGap

\* training_export.py: "each day's export is immutable; reruns don't clobber".
RerunsDontClobber ==
  [][\A f \in File : {files[f], files'[f]} \cap {None, Torn} = {} => files[f] \subseteq files'[f]]_exportVars
=============================================================================
