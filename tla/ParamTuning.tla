---------------------------- MODULE ParamTuning -----------------------------
(***************************************************************************)
(* The auto-tuner at work: run_tune_cycle of auto_tuner_runtime.py, cycle  *)
(* after cycle over the strategies opted in, on top of the registry of     *)
(* param_registry.py (a Redis hash per strategy and the stream             *)
(* params:audit).  A step is what the coroutine does up to its next await: *)
(* an operator who sets a parameter by hand, and a crash, can come between *)
(* the HGET, the HSET and the XADD of one parameter.                       *)
(***************************************************************************)
EXTENDS TuneParam

CONSTANTS
  Param,           \* tunable parameters, each of one strategy
  Bounds,          \* Param -> ParamBounds, as in TUNABLE_PARAMS
  Strategies,      \* the strategies opted in: a sequence of sequences of Param
  Recent,          \* what fetch_recent_closed may return: sequences of rows
  MinSamples,      \* settings.auto_tuner_min_samples
  DryRun,          \* settings.auto_tuner_dry_run
  NudgeEpsilon,    \* NUDGE_EPSILON: a smaller nudge is not worth a write
  ManualValues,    \* what an operator may set a parameter to
  Malformed,       \* a stored string that float() rejects
  Failures,        \* how a call may fail, a subset of FailureKinds
  AuditMaxLen,     \* AUDIT_MAXLEN
  MaxRestarts      \* bound: restarts of the process

FailureKinds == {"request_lost", "reply_lost", "query_failed"}

ASSUME ParamTuningAssumption ==
  /\ None \notin Int /\ Malformed \notin Int
  /\ \A p \in Param :
       /\ Bounds[p].bound_min \in Int /\ Bounds[p].bound_max \in Int
       /\ Bounds[p].bound_min < Bounds[p].bound_max
       /\ InBounds(Bounds[p].default, Bounds[p])
       /\ Bounds[p].n_bins \in Nat \ {0}
       /\ Bounds[p].max_step_pct \in Nat
  /\ Strategies \in Seq(Seq(Param)) /\ Strategies # <<>>
  /\ \A i \in DOMAIN Strategies : Strategies[i] # <<>>
  /\ ManualValues \subseteq Int \cup {Malformed}
  /\ DryRun \in BOOLEAN /\ NudgeEpsilon \in Nat \ {0}
  /\ Failures \subseteq FailureKinds
  /\ AuditMaxLen \in Nat \ {0} /\ MaxRestarts \in Nat

VARIABLES
  params,    \* the registry: None where the hash has no field
  audit,     \* params:audit, oldest first
  phase,     \* what the cycle does next: "fetch", "get", "set" or "audit"
  turn,      \* which of Strategies it is at
  next,      \* which of that strategy's parameters
  rows,      \* the closed trades it fetched for the strategy
  current,   \* the value it read, once it has decided on a nudge
  proposed,  \* the value it is going to write
  blind,     \* history: the nudge under way starts from a value that the registry
             \* does not hold (its HGET failed, or an edit came in after it)
  restarts,
  unaudited  \* history: parameters whose last change has no entry in the stream

registry == <<params, audit, unaudited>>
cursor == <<turn, next, rows>>
nudge  == <<current, proposed, blind>>
vars   == <<registry, phase, cursor, nudge, restarts>>

Value == Int \cup {None, Malformed}
Reply == {"answered"} \cup (Failures \ {"query_failed"})
Entry == [param : Param, old : Int, new : Int]

TypeOK ==
  /\ params \in [Param -> Value]
  /\ audit \in Seq(Entry)
  /\ phase \in {"fetch", "get", "set", "audit"}
  /\ turn \in DOMAIN Strategies /\ next \in DOMAIN Strategies[turn]
  /\ rows \in Recent \cup {<<>>}
  /\ IF phase \in {"set", "audit"}
     THEN current \in Int /\ proposed \in Int ELSE current = None /\ proposed = None /\ ~blind
  /\ blind \in BOOLEAN
  /\ restarts \in 0..MaxRestarts
  /\ unaudited \subseteq Param

Init ==
  /\ params = [p \in Param |-> None]
  /\ audit = <<>>
  /\ phase = "fetch" /\ turn = 1 /\ next = 1 /\ rows = <<>>
  /\ current = None /\ proposed = None /\ blind = FALSE
  /\ restarts = 0
  /\ unaudited = {}

-----------------------------------------------------------------------------
(***************************************************************************)
(* The walk over strategies and parameters.                                *)
(***************************************************************************)
ThisParam == Strategies[turn][next]

\* Mutant: the cycle runs past the last strategy.
Mut_NeverWraps == turn + 1

FollowingTurn == IF turn = Len(Strategies) THEN 1 ELSE turn + 1

NextStrategy ==
  /\ phase' = "fetch"
  /\ turn' = FollowingTurn
  /\ next' = 1
  /\ rows' = <<>>

\* continue: on to the next parameter, or past the last one to the next strategy.
Continue ==
  /\ current' = None /\ proposed' = None /\ blind' = FALSE
  /\ \/ /\ next < Len(Strategies[turn])
        /\ phase' = "get"
        /\ next' = next + 1
        /\ UNCHANGED <<turn, rows>>
     \/ /\ next = Len(Strategies[turn])
        /\ NextStrategy

FetchClosed(recent) ==
  /\ phase = "fetch"
  /\ rows' = recent
  /\ phase' = "get"
  /\ UNCHANGED <<registry, turn, next, nudge, restarts>>

FetchClosedFails ==
  /\ "query_failed" \in Failures
  /\ phase = "fetch"
  /\ NextStrategy
  /\ UNCHANGED <<registry, nudge, restarts>>

-----------------------------------------------------------------------------
(***************************************************************************)
(* One parameter.  get_param swallows a failed HGET, and set_param a       *)
(* failed HSET or XADD, so that no exception reaches the cycle.            *)
(***************************************************************************)
\* Mutant: float(raw) or default, which takes a zero for a missing value.
Mut_ZeroIsMissing(p, reply) ==
  IF reply # "answered" \/ params[p] \in {None, Malformed, 0}
  THEN Bounds[p].default ELSE params[p]

get_param(p, reply) ==
  IF reply # "answered" \/ params[p] \in {None, Malformed}
  THEN Bounds[p].default ELSE params[p]

\* The fetched trades as seen by one parameter: its value in params_snapshot.
ClosedFor(p) == [i \in DOMAIN rows |-> [at |-> rows[i].at[p], pnl |-> rows[i].pnl]]

Decisions(p, value) == tune_param(Bounds[p], value, ClosedFor(p), MinSamples)

WorthWriting(value, new) == Magnitude(new - value) >= NudgeEpsilon /\ ~DryRun

Decide(reply) ==
  /\ phase = "get"
  /\ LET value == get_param(ThisParam, reply)
     IN \E new \in Decisions(ThisParam, value) :
          \/ /\ ~WorthWriting(value, new)
             /\ Continue
          \/ /\ WorthWriting(value, new)
             /\ phase' = "set"
             /\ current' = value /\ proposed' = new /\ blind' = (reply # "answered")
             /\ UNCHANGED cursor
  /\ UNCHANGED <<registry, restarts>>

\* set_param, its HSET: a call that fails, even one that was carried out, ends
\* set_param before the audit entry.
WriteParam(reply) ==
  /\ phase = "set"
  /\ params' = IF reply = "request_lost" THEN params
               ELSE [params EXCEPT ![ThisParam] = proposed]
  /\ unaudited' = IF reply = "answered" THEN unaudited \ {ThisParam}
                  ELSE IF reply = "reply_lost" THEN unaudited \cup {ThisParam}
                  ELSE unaudited
  /\ \/ reply = "answered" /\ phase' = "audit" /\ UNCHANGED <<cursor, nudge>>
     \/ reply # "answered" /\ Continue
  /\ UNCHANGED <<audit, restarts>>

\* XADD with approximate trimming may keep more; the model keeps the least.
Newest(entries) ==
  IF Len(entries) > AuditMaxLen THEN Tail(entries) ELSE entries

\* Mutant: the audit entry names the default instead of the value that was read.
Mut_AuditsDefault == [param |-> ThisParam, old |-> Bounds[ThisParam].default, new |-> proposed]

\* Mutant: set_param is called with the old and the new value exchanged.
Mut_SwapsOldAndNew == [param |-> ThisParam, old |-> proposed, new |-> current]

AuditEntry == [param |-> ThisParam, old |-> current, new |-> proposed]

\* set_param, its XADD.
AuditParam(reply) ==
  /\ phase = "audit"
  /\ audit' = IF reply = "request_lost" THEN audit
              ELSE Newest(Append(audit, AuditEntry))
  /\ unaudited' = IF reply = "request_lost" THEN unaudited \cup {ThisParam} ELSE unaudited
  /\ Continue
  /\ UNCHANGED <<params, restarts>>

TuneStep == \/ FetchClosedFails
            \/ \E recent \in Recent : FetchClosed(recent)
            \/ \E reply \in Reply : Decide(reply) \/ WriteParam(reply) \/ AuditParam(reply)

-----------------------------------------------------------------------------
\* An operator edits the hash.
SetByHand(p, value) ==
  /\ params' = [params EXCEPT ![p] = value]
  /\ unaudited' = unaudited \cup {p}
  /\ blind' = (blind \/ (phase = "set" /\ p = ThisParam))
  /\ UNCHANGED <<audit, phase, cursor, current, proposed, restarts>>

Restart ==
  /\ restarts < MaxRestarts
  /\ restarts' = restarts + 1
  /\ phase' = "fetch" /\ turn' = 1 /\ next' = 1 /\ rows' = <<>>
  /\ current' = None /\ proposed' = None /\ blind' = FALSE
  /\ unaudited' = IF phase = "audit" THEN unaudited \cup {ThisParam} ELSE unaudited
  /\ UNCHANGED <<params, audit>>

Next == \/ TuneStep \/ Restart
        \/ \E p \in Param, value \in ManualValues : SetByHand(p, value)

Spec == Init /\ [][Next]_vars

\* The loop keeps running, and a strategy's query that is tried again and again
\* succeeds again and again.
Fairness ==
  /\ WF_vars(TuneStep)
  /\ \A i \in DOMAIN Strategies :
       SF_vars(turn = i /\ \E recent \in Recent : FetchClosed(recent))

-----------------------------------------------------------------------------
(***************************************************************************)
(* Properties.                                                             *)
(***************************************************************************)
\* Whatever an operator left in the registry, and whatever calls fail, a value
\* the tuner is about to write lies within the bounds of its parameter and, if
\* the value it started from did too, at most MaxStep from it (run_tune_cycle
\* with tune_param).
NudgesAreSafe ==
  phase \in {"set", "audit"} =>
    LET bounds == Bounds[ThisParam]
    IN /\ InBounds(proposed, bounds)
       /\ InBounds(current, bounds) =>
            Magnitude(proposed - current) <= MaxStep(bounds)

\* No update of the registry is lost but in two ways: whatever an operator sets,
\* and whatever fails, a parameter that the tuner changes moves by at most MaxStep
\* from the value in force at that moment, unless the HGET of this nudge failed or
\* an edit came between its HGET and its HSET (or the value was out of bounds, and
\* is brought back).  run_tune_cycle with get_param and set_param.
Held(p) == IF params[p] \in {None, Malformed} THEN Bounds[p].default ELSE params[p]
RegistryMovesStepwise ==
  [][\A p \in Param :
       \/ params'[p] = params[p] \/ blind
       \/ \E value \in ManualValues : SetByHand(p, value)
       \/ ~InBounds(Held(p), Bounds[p])
       \/ Magnitude(params'[p] - Held(p)) <= MaxStep(Bounds[p])]_vars

\* The stream tells what the registry holds, as far as anything can: whatever
\* fails and whoever interferes, a parameter has the value that its newest entry
\* names (or none, if it has no entry and none was trimmed), unless its last
\* change went unaudited: an edit by hand, an HSET whose reply was lost, an XADD
\* that failed or that a crash prevented (set_param).
EntriesOf(p) == {i \in DOMAIN audit : audit[i].param = p}
NewestEntryHolds ==
  \A p \in Param \ unaudited :
    \/ phase = "audit" /\ ThisParam = p
    \/ /\ \A i \in EntriesOf(p) : (\A j \in EntriesOf(p) : j <= i) => params[p] = audit[i].new
       /\ EntriesOf(p) = {} => params[p] = None \/ Len(audit) = AuditMaxLen

\* With one writer and no failure the stream explains the registry: the newest
\* entry of every parameter holds its value, each entry starts where the one
\* before it ended, the oldest (when none was trimmed) at the default.
AuditExplainsRegistry ==
  /\ unaudited = {} /\ NewestEntryHolds
  /\ \A p \in Param : \A i \in EntriesOf(p) :
       /\ \A j \in EntriesOf(p) :
            j < i /\ (\A k \in EntriesOf(p) : k <= j \/ i <= k) => audit[j].new = audit[i].old
       /\ (\A j \in EntriesOf(p) : i <= j) =>
            audit[i].old = Bounds[p].default \/ Len(audit) = AuditMaxLen

\* While the trades keep telling the same story, calls to Redis are answered and
\* no operator interferes, every parameter settles on the centre of its best bin
\* (to within NudgeEpsilon) and stays there, however often the rows come in
\* another order.
Settled(p, recent) ==
  \A b \in BestBins(Bounds[p], [i \in DOMAIN recent |->
                                  [at |-> recent[i].at[p], pnl |-> recent[i].pnl]]) :
    Magnitude(Center(b, Bounds[p]) - get_param(p, "answered")) < NudgeEpsilon
SettlesOnTheBestBin == \A p \in Param : <>[](\A recent \in Recent : Settled(p, recent))
=============================================================================
