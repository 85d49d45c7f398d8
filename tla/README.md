# research-loop in TLA+

research-loop is one asyncio process beside a trading stack. It reads the
stack's Postgres, halts strategies that lose money by adding them to the Redis
set `strategy:halts`, and, when asked to, tunes parameters the strategies read
from Redis. It also keeps the table those tunings learn from and exports it for
training. This directory models every part that takes a decision or writes to
Redis, Postgres or the disk, checks the models with TLC on small instances, and
proves the most important properties with TLAPS for every value of the constants.

File names below are those of `src/research_loop/` in the repository.

## 1. Inventory

| Component | State it keeps | Operations | Talks to |
|---|---|---|---|
| Halting rules, `sharpe.py` | none | `sharpe_proxy`, `should_halt`, `health_badge` | called by `main.py`, `db.py` |
| Strategy statistics, `db.py` | the lazily created pool | `fetch_strategy_stats`, `_get_pool`, `close` | reads `positions`, `strategies` |
| Halting cycle, `main.py` | `_last_cycle` | `run_cycle`, `cycle_loop` (hourly) | `db.py`, `sharpe.py`, `halts.py` |
| Halt set, `halts.py` | the Redis set `strategy:halts` | `is_halted` (SISMEMBER), `actuate` (SADD) | Redis; read by the trading stack, edited by the operator (SREM) |
| Halt-fast, `halt_fast.py` | none of its own | `fetch_venue_pnl_24h`, `decide_halt_fast`, `run_halt_fast_cycle`, `halt_fast_loop` (every minute) | Postgres, `halts.py` |
| Tuning decision, `auto_tuner.py` | none | `tune_param` and its helpers | called by the runtime |
| Parameter registry, `param_registry.py` | a Redis hash per strategy, the stream `params:audit` | `get_param`, `set_param`, `get_all_params` | Redis; read by the strategies, edited by the operator |
| Auto-tuner runtime, `auto_tuner_runtime.py` | none between cycles | `run_tune_cycle`, `auto_tuner_loop` | learning loop, registry |
| Learning loop, `learning_loop.py` | the table `feature_outcomes` | `capture_emit`, `run_outcome_join`, `fetch_recent_closed` | Postgres |
| Training export, `training_export.py` | a file per strategy and day | `export_recent`, `run_nightly_export` | learning loop, the disk |
| Process lifecycle, `main.py` | the stop event, the tasks | `main`: start, gather, shut down | everything |
| HTTP, `main.py` | none | `/health`, `/metrics` | reads `_last_cycle` |

All loops are coroutines of one event loop. What one does between two awaits is
atomic with respect to the others; at an await anything may happen: another
loop moves, a trade closes, time passes, the operator edits Redis, the process
dies. Loops share the set `strategy:halts`, the registry and the database, and
call each other only through function calls.

What is hard here, and what each component must get right:

* **Halting.** Two loops with different criteria, plus an operator, write one
  set. Both decide on data read before their awaits; every Redis call may lose
  its request or its reply; the cycle reads the set before it writes. Correct
  means: what met the criteria is halted and nothing else is, whatever
  interleaves; a lost call is made up for at the next turn; the counts shown on
  `/metrics` add up; only the operator takes a strategy out.
* **Rules.** Floats at thresholds, samples with no spread, NULL PnLs. Correct
  means: the order of the early returns never hides a criterion, and more losses
  never make a strategy look better to them.
* **Tuning.** Read-modify-write without a lock, failures that are swallowed
  below the caller, steps that must converge. Correct means: what is written is
  in bounds and a bounded step from what was read, the audit trail explains the
  registry, steady evidence leads to the best bin.
* **Learning loop and export.** Windows that slide with the clock over data that
  arrives late: a capture may fail and be replayed days later, the join may be
  down, an alpha may have two positions, an export may die half way through a
  file. Correct means: an outcome is taken once, from a position of its alpha,
  and never changes; what closed is joined and exported in spite of outages the
  windows allow for; files and table agree.
* **The closed loop.** The tuner learns from trades made with the values it set.
  Correct means: it does not run away from the evidence.
* **Lifecycle.** Loops that race to create the pool; a gather that waits for a
  server nobody has told to stop. Correct means: one pool, none used after it is
  closed, and a process that ends on a signal.

## 2. Modules

```
Sharpe ── Positions ── Halting ── MCHalting
   │                     │ └ INSTANCE HaltPromise
   │                     └───── HaltingProofs
   ├── SharpeLemmas ────────────┘
   │         └───────────── SharpeProofs
   ├── MCSharpe ────────────────┘
   └── TuneParam ── MCTuneParam ── TuneParamProofs
           └─────── ParamTuning ── MCParamTuning ── MCTuneCycle
                         └──────── ClosedLoop ── MCClosedLoop
                                     │  └─────── TuningProofs
                                     └ INSTANCE LearningLoop
LearningLoop ── TrainingExport ── MCTrainingExport
   │  │              └───── ExportProofs
   │  └───── LearningProofs ──┘
   └ INSTANCE OutcomeLedger
Lifecycle ── LifecycleProofs
```

**Sharpe** holds the rules of `sharpe.py` as operators of the same names. A
Sharpe value is kept as its signed square, a fraction of integers, which orders
the values as the floats do without square roots. A NULL is the model value
`None`.

**Positions** is the table the trading stack writes and the two queries run on
it. A row has ages instead of timestamps, and a tick of the clock ages every
row, so a window that slides with `NOW()` is a bound on an age. `open` stands
for the states `open` and `partial`. The trading stack is external: it opens
and closes positions at any time, with any PnL of the constant `Pnl`.

**Halting** is the state machine of `main.run_cycle` and `halt_fast`, composed
over one halt set. One action is what a coroutine does from one await to the
next:

| Code | Actions | State |
|---|---|---|
| `run_cycle`: fetch, decide | `FetchStats` | `cycle_on`, `cycle_todo`, `cycle_halt` |
| `is_halted` for a row | `CheckRow` | `cycle_row` |
| `actuate`, the counts | `ActuateRow` | `halted`, `cycle_count` |
| the end of `run_cycle` | `FinishCycle` | `last_cycle` |
| `run_halt_fast_cycle`: fetch, decide | `FetchVenue`, `FetchVenueFails` | `fast_next`, `fast_todo` |
| `actuate` for a slug | `ActuateSlug` | `halted` |
| trades, clock, SREM, crash | `World`, `Release`, `Restart` | `positions`, `halted`, `restarts` |

A failed fetch of the cycle changes nothing and is no action. A reply is
`answered`, `request_lost` (nothing was written, the caller sees an exception)
or `reply_lost` (it was written, the caller sees an exception). Two history
variables say what the code should do: `charged`, the slugs that met the
*documented* criteria at a loop's last look, computed from the trades by
`MeetsHaltCriteria` and `VenueBleeds` and not by the code's own decision; and
`excused`, those whose SADD was lost or that the operator released since.

**HaltPromise** is what the trading stack may rely on: a slug enters the set only
while it is accused and enforcement is on, and leaves it only by the operator's
hand. `Halting` implements it with `accused` read as the slugs charged by either
loop.

**TuneParam** is `auto_tuner.py`. Values are integers in a unit fine enough for
half a bin and for the largest step; `tune_param` returns a set so that
Python's `max` over a dict, which keeps the first of equals, is stated as a
condition. That the set has one element is the theorem `OneDecision`.

**ParamTuning** is `run_tune_cycle` cycle after cycle over the registry. The actions
are `FetchClosed` and `FetchClosedFails` for a strategy's trades, then for each
parameter `Decide` (HGET, `tune_param`), `WriteParam` (HSET) and `AuditParam`
(XADD); `SetByHand` is an operator, `Restart` a crash. What `get_param` and
`set_param` swallow is modelled as they swallow it: a failed HGET yields the
default, a failed HSET skips the audit, a failed XADD is forgotten. The history
variable `unaudited` keeps the parameters whose last change has no entry in the
stream for one of these reasons, or because an operator made it; `blind` says that
the nudge under way started from a value the registry does not hold. A nudge smaller
than `NudgeEpsilon` is not written. The trades are any element of the constant
`Recent`. Approximate trimming of the stream may keep more than `AUDIT_MAXLEN`; the
model keeps the least.

**LearningLoop** is the table `feature_outcomes`. Time is a clock `now` here,
since rows keep four times of their own. `Emit` and `CloseTrade` are the
strategies and the trading stack; `capture_emit` inserts a row, unless there is
one (ON CONFLICT DO NOTHING), at any time after the alpha was emitted, so that
captures that fail and are replayed later are included; `run_outcome_join` is the
UPDATE, which settles every open row that has a position closed in the last
`JoinDays` days, and picks any when there are several. `fetch_recent_closed` is
the set of sequences the query may return. Each statement is atomic in Postgres;
a call that fails is a step not taken.

**OutcomeLedger** is what the table promises: each alpha is absent, then awaits
its outcome, then has the outcome of one closed position of its own, for ever.

**TrainingExport** adds the files. The export does not await after its query,
so query and writing are one action, `export_recent(written, torn)`: `written`
are the files it gets to, `torn` the one a crash or an exception cuts short. The
history variable `exported` keeps the alphas that were in an intact file some
time.

**ClosedLoop** puts `ParamTuning` on `LearningLoop`: the runners emit with the
parameters in force, and `FetchClosed` gets the rows of `fetch_recent_closed`
instead of an element of `Recent`. The clock stands still within all windows; then
trades emitted at the same time come in any order, and so in any order of
emission. `CycleSpec` adds the history variable `at_start`, the values in force when
the cycle began.

**Lifecycle** is `main()`. Each loop is "check the event, get the pool, use it,
wait"; `GetPool` stops at the await of `create_pool`, where other loops may find
`_pool` still None. A signal sets the event and, once uvicorn has put its handler
in front of main's, tells the server too: asyncio still hears of it through its
wakeup descriptor. `CloseDb` may fail like the code's: the pool stays open, and
`_pool` is None all the same.

| Code | Actions |
|---|---|
| bootstrap, `server.serve` | `Bootstrap`, `ServerStarts`, `ServerFails` |
| a loop: `while`, `_get_pool`, its work and its wait | `Wake`, `PoolCreated`, `IterationEnds` |
| signal, `should_exit` of uvicorn | `Signal`, `ServerExits` |
| `gather`, `db.close` | `Gathered`, `CloseDb` |

The MC modules hold the values a `.cfg` cannot write, and the statements quoted
from comments that the runs of section 4 refute. **MCTuneCycle** adds a history
variable, the registry at the start of the cycle. Operators named `Mut_...` are plausible
bugs; none is used by a specification. Replacing the definition below one by it
must break a property, which is how each property was shown to be able to fail.

## 3. Runs that pass

| Run | Question | Instance |
|---|---|---|
| `sharpe_rules` | Do the early returns amount to the documented criteria and halt those who lose, does losing more ever undo a halt, does the badge agree? | every record of up to 6 trades with PnLs -3, -1, 0, 2 or NULL, 2 days |
| `halting_venues` | Does a slug with two rows, both loops after it on both venues, ever get lost, invented or miscounted, and do the counts of a cycle tell what was done? | 1 slug, 2 venues, both watched, all failures, 1 restart |
| `halting_liveness` | Is a strategy that stays bad halted in the end, also when closes age out of the 24 hours first? | 1 slug, 2 positions, window 2 days, all failures, 1 restart, fairness |
| `tune_param` | Does a proposal go into the bounds and towards a bin with trades, and is it the same whatever order the trades come in, unless bins tie? | every history of up to 4 trades over 3 bins and no bin, 7 current values |
| `tuning_races` | Are nudges safe, is any update lost, and is the audit stream true, when an operator, failures and a crash interleave? | 2 parameters of one strategy, two kinds of evidence (one without a snapshot of a parameter), edits in and out of range and malformed, all failures, 1 restart, a stream of 1 entry |
| `tuning_settles` | Do parameters reach the best bin and stay? | 36 registries to start from, steady evidence in three orders of its rows, nudges of 1 too small to be written, failing queries, fairness |
| `outcomes_export` | Are outcomes taken once, joined and exported in time, and do files and table agree? | 2 alphas, 3 positions (2 of one alpha), days of 2 ticks, late captures, outages, cut-short exports |
| `closed_loop` | Where does the tuner go on trades it causes itself, how far in one cycle, and does the stream explain it? | 1 parameter tuned twice a cycle, 2 alphas of an earlier setting and 2 to come, 3 rows per query, failing queries |
| `lifecycle` | How many pools, are they closed in order, does a signal end the process? | 3 loops and an idle one, failures, a signal at any time, fairness |

**Properties of the halting side.** `NoTargetForgotten`: whatever a loop's last
look charged is on its list, in the set, or excused. `OnlyTheChargedArePending`:
no loop is on its way to halt a strategy its last look spared.
`ReportAddsUp`: a row is counted once at most. `CountsTellWhatWasDone`: `actuate`
answers the same False to a dry run, to a slug already there and to a lost call, and
`run_cycle` counts by that answer; still `n_halted` counts only slugs that this very
call put into the set, and under enforcement a row that falls to `n_would_halt` is in
the set by then or its SADD was lost. `KeepsThePromise`: the refinement
of `HaltPromise`. `BadStrategyIsHalted`: liveness, below.

**Properties of the tuner.** `NudgesAreSafe`: what is about to be written is within
bounds and at most a step from an in-bounds start. `RegistryMovesStepwise`: against
the value in force when it is overwritten, a nudge is longer than a step only if its
HGET failed, if an edit came between HGET and HSET, or if the value was out of
bounds. There is no other way to lose an update. `NewestEntryHolds`: what the audit
stream is good for when things fail. A parameter has the value of its newest entry,
except one whose last change went unaudited; the next audited nudge puts even that
one right. `AuditExplainsRegistry`: with one writer and no failed call to Redis
there is no such exception, and the entries of a parameter form a chain from its
default to its value. `SettlesOnTheBestBin`: steady evidence, in whatever order its
rows come from one cycle to the next, leads to within `NudgeEpsilon` of the centre
of the best bin, for good. For the pure function, `MovesTowardsEvidence` and
`OrderOnlyBreaksTies`: the query orders by time of emission alone, so alphas emitted
together may change places, and that changes the proposal only if two bins have the
best Sharpe. `OneStepPerVisit`: a slug listed twice is tuned twice in a cycle, each
time by a step at most from where it is then. `TunerNeverExplores`: in the closed
loop a parameter stays between the lowest and the highest bin in which its default
or an earlier setting put it. This is a finding about the design rather than a
defect: a bin nobody has tried is never tried, and no sequence of wins and losses
drives the tuner out of where its evidence lies.

**Properties of the learning side.** `LedgerIsKept`: the refinement of
`OutcomeLedger`. `NothingLeftOpen`: an open row whose position has closed has not
met a join since, unless it was captured so late that an outage could outlast
the window. `FilesTellTheTruth`: an intact file, of whatever age, says what the
table says now and the table what the positions say. `ExportedInTime`: a settled
outcome has been in an intact file once an export has completed since, unless it
was settled later than `ExportDays - MaxGap` after the close: joins may be seven
days late, exports look two days back.

**Properties of the process.** `NoUseAfterClose`, `PoolsAreCounted` (one pool after
a bootstrap that worked; otherwise one per loop at most, and at exit all but the
last are left open, or all if the close fails), `SignalEndsProcess` and, for a
signal the server does not hear of, `SignalStopsTheLoops`.

**Bounds and why they are enough.** Rows of statistics and slugs are treated alike
and independently; two are enough for a loop to be in the middle of its list while
the other loop, or a second row of the same slug, interferes. Two positions of one
strategy give a Sharpe; the scaled thresholds (two trades, one day, -6 in total, -4
in 24 hours) put the catastrophic floor, the sample size and the floor of halt-fast
within reach of PnLs -6 and 1. No run of `Halting` reaches the Sharpe rule:
`halting_venues` has one close per row of statistics, and `halting_liveness` only
knows losses. That rule is in `sharpe_rules`, and the cycle asks `should_halt` for
nothing but its verdict; the proofs of section 5 hold for every rule. Ages saturate
one unit beyond the window: nothing older is read by a query. Several slugs at once
are left to the proofs of section 5 (a third row makes the state space too large).
The runs have enforcement on and the tuner's dry run off, where there is something
to see; the proofs of section 5 hold for both settings of both switches. The tuner's
grids (a range of 20 units, or 10 in `closed_loop` and `tune_param`, five bins, a
step of a tenth of the range) have the proportions of `TUNABLE_PARAMS`: a centre is
not always a whole number of steps away. `NudgeEpsilon` is 1 where every nudge is to
be written, and 2 in `tuning_settles`, where `volume` ends one unit from its centre.
Of the values fed in, -2 and 12 (of 0 to 10) and 25 (of 0 to 20) lie out of range.
`MaxRestarts`, `AuditMaxLen`, `MaxClosed`, `MaxTrades` and `MaxDays` are the
remaining bounds.

On the learning side a day has two ticks, so that a window can start in the middle
of one. The join looks back 2 days and the export 2, and neither misses more than
`MaxOutage` = 3 ticks and `MaxGap` = 2 ticks: these two bound the environment, and
the properties are stated in terms of them. An outage that is shorter than the
window leaves a tick in which a capture may come late and must still be joined.
Alphas are emitted at tick 0 and positions close up to tick 2, on either half of the
first day or on the second; 5 ticks take each of them through and out of both
windows. The order of the parameters is that of the code: an export gap of a day, an
export window of two, a join window that outlasts it by more than the gap. In
`closed_loop` the alphas of the past lie in the lowest bin, and two trades make a
Sharpe: the evidence of the past can pull the parameter down and that of the new
alphas, emitted on the way, stop it or turn it round. In `lifecycle` three loops
race for the pool, one more than can meet pairwise.

`sharpe_rules` and `tune_param` feed inputs that grow up to a bound,
`outcomes_export` ends with its clock and `lifecycle` with the process, so they
stop there and deadlock is not checked for them.

**Fairness.** `Halting.Fairness`: the event loop runs every coroutine that can
move and each loop comes round again after its interval (weak fairness of each
loop's steps); Postgres and Redis are not down for ever (strong fairness of a
venue's query that succeeds and of a slug's SADD that is answered). `is_halted`
needs no answer: it fails open. Nothing is assumed of the trading stack, the
clock or the operator. Under it, a strategy that from some time on always meets
the criteria of the cycle, or of one venue of halt-fast, is in the set
infinitely often: every release and every lost call is followed by another
halt. The number of restarts is bounded there: a process that keeps crashing
between fetch and SADD never halts anything.
`ParamTuning.Fairness`: the loop keeps running, and a strategy's query succeeds
again and again. `SettlesOnTheBestBin` also needs Redis to answer and the
operator to leave the registry alone: a failed HGET or an edit moves a parameter
that had settled.
`Lifecycle.Fairness`: every task that is ready runs, a query or a connection
attempt ends at last, and uvicorn, once told, exits. Nothing makes the server
start or a signal arrive; `SignalEndsProcess` starts from one that the server got.

## 4. Runs that find a statement wrong

Each of these runs checks one statement made by the documentation, and TLC
finds a behaviour of the code that violates it. PROJECT.json quotes the lines.

| Run | Statement | What the code does |
|---|---|---|
| `claim_active` | a trip of halt-fast halts every strategy active on the venue | only those with a close in the last 24 hours |
| `claim_big_move` | no parameter moves more than a tenth of its range per cycle | a failed HGET restarts the parameter from its default, and the nudge is written over the tuned value |
| `claim_immutable` | each day's export is immutable, reruns do not clobber | the window of two days starts in the middle of a day; the last export to reach a day leaves only the rows that closed late on it |

Smaller divergences seen while modelling, each visible in an action and not kept as
a run: equal losses have no Sharpe and are not halted above the catastrophic floor,
where the README speaks of losing money on average (`HaltsTheLosers` states the
exception); a signal that comes after main's handlers and before uvicorn's stops the
loops and leaves a process that serves `/health` until a second one (`Signal`);
`run_nightly_export` says it exports yesterday's data and exports two days
(`ExportedRows`); `n_would_halt`, exposed as a dry-run count, also counts a slug
that the other loop halted first or whose reply was lost (`ActuateRow`);
`halts_actuated` is declared a Prometheus counter and is reset every cycle
(`FinishCycle`); `actuate` answers False to a write whose reply was lost
(`ActuateReturns`); `max_step_pct` bounds a nudge and not a cycle, which has two for
a slug listed twice (`OneStepPerVisit`); `days_observed` counts from the earliest
open, its comment says the first close (`fetch_strategy_stats`); a released strategy
is halted again on the same trades (`FetchStats`); a `TuneDecision` keeps an
out-of-range value when there is too little evidence (`tune_param`); a nudge whose
XADD fails has no audit entry (`AuditParam`).

## 5. Proofs

The proofs are in eight modules: `SharpeLemmas`, `SharpeProofs`, `HaltingProofs`,
`TuneParamProofs`, `TuningProofs`, `LearningProofs`, `ExportProofs` and
`LifecycleProofs`. Every invariant and every action property that a passing run
checks is proved there for all constants that satisfy the assumptions the modules
name: `SharpeAssumption`, `MCSharpeAssumption`, `PositionsAssumption`,
`HaltingAssumption`, `MCTuneParamAssumption`, `ParamTuningAssumption`,
`ClosedLoopAssumption`, `LearningAssumption`, `RowAssumption`, `ExportAssumption`
and `LifecycleAssumption`. These admit any finite sets of position slots, of alphas
and of loops, any slugs, venues, rules, parameters, evidence, windows and
failures. They say what the constants are, that `None` is
not a row, an outcome or a number, that a parameter's bounds are in order and
contain its default, as in `TUNABLE_PARAMS`, and that the outages of the join and
the gaps between exports (`MaxOutage`, `MaxGap`) do not exceed the days that the
join and the export look back. Where a theorem needs more, it says so itself, and
so does the item below.

**The rules.**

* `ShouldHaltIsTheCriteria`: the early returns are equivalent to the documented
  condition. With it and the corresponding lemma for a venue, what a loop sets
  out to halt is what the history variable charges.
* `SharpeSign`: the Sharpe of a sample has the sign of its sum. The sums are
  folds over a finite set, and the library's induction theorems cannot be used; the
  lemmas of `SharpeLemmas` argue instead with the set of the numbers for which a
  fact fails, and its smallest element.
* `HaltsByCriteria`, `LosersAreHalted`, `BadgeAgrees` and `LossesNeverRescue`: what
  `sharpe_rules` checks on records of up to six trades, for records of any length.
  The Sharpe threshold is zero there, as its default is; the badge agrees only if the
  catastrophic floor is negative, as its default is too. With that threshold a
  strategy is under it exactly if its sum is negative and two of its PnLs differ
  (`SharpeSign`), and a further loss changes neither: that is why it never undoes a halt.

**Halting.**

* `TypeCorrect`: `Spec => []TypeOK`. Beyond types it says that the row being
  actuated is off the list and that nothing is left between cycles.
* `NothingForgotten` and `NobodyElsePursued`. Both follow from one inductive
  invariant, `HaltingInv`: `TypeOK` and, for each loop, `Faithful`: its pending
  slugs are among the charged ones, and under enforcement the charged ones are
  pending, halted or excused. Neither property alone is inductive without the
  shape in `TypeOK`: `CheckRow` and `ActuateRow` are only correct because a row
  is never both on the list and being actuated. A step of one loop must also
  keep the other faithful: it only adds to `halted` and `excused`
  (`BystanderStaysFaithful`).
* `ImplementsThePromise`: every step of `Halting` is a step of `HaltPromise` or a
  stutter; an SADD of a pending slug is a `Halt` because of `HaltingInv`. With
  enforcement off `Halt` is disabled, so the set only ever shrinks.
* `CountsAreHonest`: `CountsTellWhatWasDone`, from the answers of `actuate` and what
  it does to the set.
* `ReportsAddUp`: with the shape in `TypeOK`, `ReportAddsUp` is inductive, since it
  counts the row at hand and those still on the list too.

**Tuning.**

* `OneDecision`: to have a higher Sharpe or, at the same one, the earlier first
  trade is an order without ties, and the bins are finite in number: one of them is
  best. `OrderIsNoEvidence`: the Sharpe of a bin does not depend on the order of its
  trades (`SharpeIgnoresOrder`, from the sums of `SharpeLemmas`), so that without a
  tie the best bin does not either. `TowardsEvidence`: that bin has a trade, and cap
  and clamp move between the value and its centre.
* `NudgeIsSafe`: the arithmetic of cap and clamp, for any bounds in order.
* `TuningTypeCorrect` and `EveryNudgeIsSafe` from `TuningInv`, which is the type of
  the cycle (`CycleTypeOK`, `TypeOK` without what `rows` may be, since the closed
  loop fetches other rows) with `NudgesAreSafe`: what is between HGET and XADD is
  safe to write.
* `NoOtherLostUpdate`: `RegistryMovesStepwise`. The invariant, `SeesWhatItMoves`, is
  that the value read is still the one in force when it is overwritten, or the nudge
  is `blind`.
* `DryRunWritesNothing`: in a dry run the cycle never reaches a write
  (`DryRunStopsShort` is the invariant), so only operators change the registry.
* `RegistryStaysInBounds`: if operators keep to the bounds (or write something
  that is no number), so does the registry, whatever fails.
* `TheStreamIsTrue`: `NewestEntryHolds` in every behaviour, with no hypothesis beyond
  the assumptions. `StreamInv` adds what holds between HSET and XADD: the parameter at
  hand has the value the entry will name, unless an operator was there in
  between, and then it is unaudited. Trimming drops the oldest entry, which is
  a parameter's newest only if it is its last.
* `TheStreamExplains`: if the only failures are those of queries, nobody edits the
  registry and nothing restarts, `AuditExplainsRegistry`. `ExplainInv` says that
  nothing is unaudited, that a nudge at hand starts at what the registry (or the
  default) had, and that entries are linked. `TheStreamExplainsTheLoop` is the same
  for the closed loop, where there is no operator and no restart to exclude.
* `AStepPerVisit`: `OneStepPerVisit`, if the only failures are those of queries.
  `CycleInv` says so with the parameter's places that the cycle has reached, and
  that values stay in bounds, where a nudge is a step at most. What is overwritten
  is what was read: `ExplainInv`.
* `NeverExplores`: `TunerNeverExplores`, if the bins are at least two units wide
  (`BinsAreWide`). The unit is the model's, not the code's, so this says only that
  the unit is fine: with it the centre of a bin, rounded to a whole number, lies in
  its bin. `LoopInv` says that every value anywhere (in the registry, in
  a nudge, in a row fetched, in a snapshot emitted or captured) lies in a bin
  between two that were tried. Bins are ordered as values are, so a value
  between two such values is one (`Reach` is convex), and a nudge ends between its
  start and the centre of a bin with a trade.

* `SteadyEvidenceDrawsCloser`: the safety half of `SettlesOnTheBestBin`. From any
  registry, while all that may be fetched has the same best bin (`SameStory`: the
  same trades in another order, or other trades), Redis answers and the operator
  keeps out, the distance of a parameter to the centre of that bin only changes by
  reaching 0 or by falling by `MaxStep` at least; queries that fail and restarts
  included. The invariant (`SteadyInv`) is that a value about to be written was
  decided on such trades and on the value still in force. That there is one best
  bin, a hypothesis there, is what `OneDecision` is about.

**Learning, export and lifecycle.**

* `OnlyLateRowsStayOpen` from `LearningInv`: `NothingLeftOpen` with `Dated` (no
  close and no row is later than now, and the last join no further back than
  `MaxOutage`) and `SettledRows` (outcome and position are set together). A row a
  join leaves open has a position that closed before the window; then the join
  before it, at most `MaxOutage` ago, came after the close, so that only a late
  capture can have kept the row from it (`JoinInv`).
* `ImplementsTheLedger`: a capture is `Record` or a stutter, a join is `Settle`,
  which needs `SettledRows`: what the WHERE clause takes for an open row is a row
  that has no position yet.
* `IntactFilesAreTrue` and `OnlyLateOutcomesMissTheFiles` from `ExportInv`, on top
  of `LearningInv`. What makes the first inductive is `Sourced`, a settled row says
  what its position says: neither ever changes (`SettledStays`, `ClosedStays`),
  so that a file stays true however old it gets. The second is the argument of
  `OnlyLateRowsStayOpen` with the export in the place of the join.
* `NobodyUsesAClosedPool` and `TheRaceIsBounded` from the invariant of
  `LifecycleProofs`: a loop about to create a pool counts as having created one
  (`RaceIsCounted`), which it only becomes while there is none; the last pool is
  closed when everybody has finished, or none is, because the close failed or was
  not reached (`ClosedAtTheEnd`).

Only model-checked: the four liveness properties `BadStrategyIsHalted`,
`SettlesOnTheBestBin`, `SignalEndsProcess` and `SignalStopsTheLoops`, since TLAPS does
not prove liveness under fairness.

## 6. Not modelled

* Rounding. Sharpe values, bin edges and steps are exact; a float comparison that
  rounding would tip the other way is not represented, nor are NaN and
  infinities stored in the registry. `NUDGE_EPSILON`, 1e-6 in the code, is a number of
  the model's units (`NudgeEpsilon`), any positive one in the proofs.
* Time within a loop: intervals are arbitrary, so a property holds whatever the
  configured periods; timeouts do not exist in the code.
* Wording of reasons, logs and report lines; the counts halt-fast only logs.
* The informational count of open positions, which no rule reads.
* `get_all_params`, which has no caller in this repository.
* The formats of the exported files and the evolution of their columns: a write
  that fails is `export_recent` cut short, whatever the reason. A strategy whose rows
  never fit one table fails every night: that is outside `MaxGap`, which `ExportedInTime`
  assumes, and no property covers it.
* Corrections of a PnL after a position has closed: whether the trading stack
  makes any is not to be seen here; the table would not follow.
* The outcomes `open` and `rejected`, which nothing in this repository writes.
* Settings parsing, HTTP serving, packaging.

## 7. Plan

Done: rules, positions, halting, its promise and proofs; the tuner, the registry and
its proofs; the learning loop with its ledger, the export, the life of the process,
and the proofs of the three; the closed loop of tuner and trades and its proofs;
what the audit stream guarantees when Redis fails; lost updates of the registry, the
order of the evidence, and what a cycle may move.

1. The safety halves of the other liveness properties: what of a loop's way to a halt, or
   of the shutdown, no step undoes.
2. The reachability of `min_days_observed` within the window (`db.py:57`): which
   closes a strategy needs for the sample-size rules to apply at all.
