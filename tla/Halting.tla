------------------------------ MODULE Halting -------------------------------
(***************************************************************************)
(* The halting side of research-loop: the hourly cycle of main.py and the  *)
(* halt-fast loop of halt_fast.py, two coroutines of one process that read *)
(* Postgres and add strategies to the Redis set strategy:halts through     *)
(* halts.py.  A step of the model is what a coroutine does between two     *)
(* awaits: the other coroutine, the trading stack, the operator, the clock *)
(* and a crash can come in between.  A Redis call may lose its request     *)
(* (nothing written) or its reply (written, but the caller sees an         *)
(* exception), and a query may fail.                                       *)
(***************************************************************************)
EXTENDS Positions, Sequences

CONSTANTS
  EnforceHalts,       \* settings.enforce_halts
  Rules,              \* the four thresholds main.py passes to should_halt
  HaltFastVenues,     \* settings.halt_fast_venues as a sequence; <<>>: no loop
  HaltFastFloor,      \* settings.halt_fast_pnl_floor_usd_24h
  HaltFastMinClosed,  \* settings.halt_fast_min_n_closed
  Failures,           \* how a call may fail here, a subset of FailureKinds
  MaxRestarts         \* bound: restarts of the process

FailureKinds == {"request_lost", "reply_lost", "query_failed"}

ASSUME HaltingAssumption ==
  /\ EnforceHalts \in BOOLEAN
  /\ HaltFastVenues \in Seq(Venue)
  /\ Failures \subseteq FailureKinds
  /\ MaxRestarts \in Nat
  /\ None \notin Row

VARIABLES
  halted,       \* the Redis set
  cycle_on,     \* run_cycle is past its fetch and not yet done
  cycle_todo,   \* rows of stats it has still to evaluate
  cycle_halt,   \* those of them should_halt wants halted
  cycle_row,    \* the row it is actuating, or None
  cycle_count,  \* len(stats), n_halted and n_would_halt so far
  last_cycle,   \* _last_cycle, what /health and /metrics show
  fast_next,    \* index of the venue halt_fast_loop looks at next
  fast_todo,    \* slugs of the tripped venue it has still to actuate
  restarts,
  charged,      \* history: per loop, the slugs that met the documented
                \* criteria when the loop last read Postgres
  excused       \* history: per loop, the charged slugs whose SADD was lost,
                \* or that the operator released, since that read

cycleVars == <<cycle_on, cycle_todo, cycle_halt, cycle_row, cycle_count, last_cycle>>
fastVars  == <<fast_next, fast_todo>>
vars      == <<positions, halted, cycleVars, fastVars, restarts, charged, excused>>

Loop  == {"cycle", "halt_fast"}
Reply == {"answered"} \cup (Failures \ {"query_failed"})
Count == [n_evaluated : Nat, n_halted : Nat, n_would_halt : Nat]
Zero  == [n_evaluated |-> 0, n_halted |-> 0, n_would_halt |-> 0]

\* The type of the state, and the shape of a cycle: the row being actuated is
\* no longer to do, and between cycles nothing is.
TypeOK ==
  /\ PositionsTypeOK
  /\ halted \subseteq Slug
  /\ cycle_on \in BOOLEAN
  /\ cycle_todo \subseteq Row
  /\ cycle_halt \subseteq cycle_todo
  /\ cycle_row \in (Row \ cycle_todo) \cup {None}
  /\ ~cycle_on => cycle_todo = {} /\ cycle_row = None
  /\ cycle_count \in Count /\ last_cycle \in Count
  /\ fast_next \in DOMAIN HaltFastVenues \cup {1}
  /\ fast_todo \subseteq Slug
  /\ restarts \in 0..MaxRestarts
  /\ charged \in [Loop -> SUBSET Slug] /\ excused \in [Loop -> SUBSET Slug]

Init ==
  /\ PositionsInit
  /\ halted = {}
  /\ cycle_on = FALSE /\ cycle_todo = {} /\ cycle_halt = {} /\ cycle_row = None
  /\ cycle_count = Zero /\ last_cycle = Zero
  /\ fast_next = 1 /\ fast_todo = {}
  /\ restarts = 0
  /\ charged = [l \in Loop |-> {}] /\ excused = [l \in Loop |-> {}]

-----------------------------------------------------------------------------
(***************************************************************************)
(* halts.py.  is_halted fails open.  actuate writes unless enforcement is  *)
(* off or the request is lost, and returns True when its SADD is answered  *)
(* with 1.                                                                 *)
(***************************************************************************)
\* Mutant: is_halted fails closed.
Mut_FailsClosed(slug, reply) == reply = "answered" => slug \in halted

is_halted(slug, reply) == reply = "answered" /\ slug \in halted

HaltedAfterActuate(slug, reply) ==
  IF EnforceHalts /\ reply # "request_lost" THEN halted \cup {slug} ELSE halted

\* Mutant: any answered SADD counts, whether it added the slug or found it.
Mut_IgnoresAnswer(slug, reply) == EnforceHalts /\ reply = "answered"

ActuateReturns(slug, reply) ==
  EnforceHalts /\ reply = "answered" /\ slug \notin halted

ExcusedAfterActuate(loop, slug, reply) ==
  IF reply = "request_lost" THEN [excused EXCEPT ![loop] = @ \cup {slug}]
  ELSE excused

-----------------------------------------------------------------------------
(***************************************************************************)
(* main.run_cycle.  A failed fetch ends the cycle and changes nothing.     *)
(***************************************************************************)
WantedRows  == {r \in StatsRows : should_halt(fetch_strategy_stats(r), Rules)
                                    \in HaltingReasons}
ChargedRows == {r \in StatsRows : MeetsHaltCriteria(fetch_strategy_stats(r), Rules)}

FetchStats ==
  /\ ~cycle_on
  /\ cycle_on' = TRUE
  /\ cycle_todo' = StatsRows
  /\ cycle_halt' = WantedRows
  /\ cycle_count' = [Zero EXCEPT !.n_evaluated = Cardinality(StatsRows)]
  /\ charged' = [charged EXCEPT !["cycle"] = {Base(r) : r \in ChargedRows}]
  /\ excused' = [excused EXCEPT !["cycle"] = {}]
  /\ UNCHANGED <<positions, halted, cycle_row, last_cycle, fastVars, restarts>>

\* Mutant: "and decision.halt" is lost.
Mut_IgnoresDecision(r, reply) == ~is_halted(Base(r), reply)

ShouldActuate(r, reply) == r \in cycle_halt /\ ~is_halted(Base(r), reply)

\* The rows come in no particular order.  Every row costs an SISMEMBER; the
\* answer matters only for a row that should_halt wants halted.
CheckRow(r, reply) ==
  /\ cycle_row = None /\ r \in cycle_todo
  /\ cycle_todo' = cycle_todo \ {r}
  /\ cycle_halt' = cycle_halt \ {r}
  /\ cycle_row' = IF ShouldActuate(r, reply) THEN r ELSE None
  /\ UNCHANGED <<positions, halted, cycle_on, cycle_count, last_cycle, fastVars,
                 restarts, charged, excused>>

\* Mutant: the else is lost, and a halt is also counted as a would-be halt.
Mut_CountsTwice(reply) ==
  [cycle_count EXCEPT
     !.n_halted = IF ActuateReturns(Base(cycle_row), reply) THEN @ + 1 ELSE @,
     !.n_would_halt = @ + 1]

Counted(reply) ==
  IF ActuateReturns(Base(cycle_row), reply)
  THEN [cycle_count EXCEPT !.n_halted = @ + 1]
  ELSE [cycle_count EXCEPT !.n_would_halt = @ + 1]

ActuateRow(reply) ==
  /\ cycle_row # None
  /\ halted' = HaltedAfterActuate(Base(cycle_row), reply)
  /\ cycle_count' = Counted(reply)
  /\ cycle_row' = None
  /\ excused' = ExcusedAfterActuate("cycle", Base(cycle_row), reply)
  /\ UNCHANGED <<positions, cycle_on, cycle_todo, cycle_halt, last_cycle, fastVars,
                 restarts, charged>>

FinishCycle ==
  /\ cycle_on /\ cycle_todo = {} /\ cycle_row = None
  /\ cycle_on' = FALSE
  /\ last_cycle' = cycle_count
  /\ cycle_count' = Zero
  /\ UNCHANGED <<positions, halted, cycle_todo, cycle_halt, cycle_row, fastVars,
                 restarts, charged, excused>>

CycleStep == \/ FetchStats \/ FinishCycle
             \/ \E reply \in Reply :
                  ActuateRow(reply) \/ \E r \in Row : CheckRow(r, reply)

-----------------------------------------------------------------------------
(***************************************************************************)
(* halt_fast.py: the venues in turn, over and over, each with its own      *)
(* query.  A failed query reads as no trades and trips nothing.            *)
(***************************************************************************)
decide_halt_fast(venue) ==
  /\ fetch_venue_pnl_24h(venue).pnl < HaltFastFloor
  /\ fetch_venue_pnl_24h(venue).n_closed >= HaltFastMinClosed

VenueToCheck == HaltFastVenues[fast_next]

\* Mutant: the venues are gone through once.
Mut_NeverWraps == fast_next + 1

NextVenue    == IF fast_next = Len(HaltFastVenues) THEN 1 ELSE fast_next + 1

\* The criteria of the docstring: the realised PnL of the last 24 hours on the
\* venue is below the floor, over enough closes.  Charged are the strategies
\* that closed a trade there.
VenueBleeds(venue) ==
  /\ Cardinality(VenueCloses(venue)) >= HaltFastMinClosed
  /\ VenuePnl(venue) < HaltFastFloor

ChargedOn(venue) ==
  IF VenueBleeds(venue) THEN {SlugOf[p] : p \in VenueCloses(venue)} ELSE {}

FetchVenue ==
  /\ fast_todo = {} /\ fast_next \in DOMAIN HaltFastVenues
  /\ fast_todo' = IF decide_halt_fast(VenueToCheck)
                  THEN fetch_venue_pnl_24h(VenueToCheck).slugs ELSE {}
  /\ fast_next' = NextVenue
  /\ charged' = [charged EXCEPT !["halt_fast"] = ChargedOn(VenueToCheck)]
  /\ excused' = [excused EXCEPT !["halt_fast"] = {}]
  /\ UNCHANGED <<positions, halted, cycleVars, restarts>>

FetchVenueFails ==
  /\ "query_failed" \in Failures
  /\ fast_todo = {} /\ fast_next \in DOMAIN HaltFastVenues
  /\ fast_next' = NextVenue
  /\ UNCHANGED <<positions, halted, cycleVars, fast_todo, restarts, charged, excused>>

SlugsLeft(s, reply) == fast_todo \ {s}

ActuateSlug(s, reply) ==
  /\ s \in fast_todo
  /\ halted' = HaltedAfterActuate(s, reply)
  /\ fast_todo' = SlugsLeft(s, reply)
  /\ excused' = ExcusedAfterActuate("halt_fast", s, reply)
  /\ UNCHANGED <<positions, cycleVars, fast_next, restarts, charged>>

FastStep == \/ FetchVenue \/ FetchVenueFails
            \/ \E s \in Slug, reply \in Reply : ActuateSlug(s, reply)

-----------------------------------------------------------------------------
(***************************************************************************)
(* The world around: trades and time, the operator's SREM, and a crash of  *)
(* the process, which loses everything but Redis and Postgres.             *)
(***************************************************************************)
World == Trading /\ UNCHANGED <<halted, cycleVars, fastVars, restarts, charged, excused>>

Release(s) ==
  /\ s \in halted
  /\ halted' = halted \ {s}
  /\ excused' = [l \in Loop |-> excused[l] \cup ({s} \cap charged[l])]
  /\ UNCHANGED <<positions, cycleVars, fastVars, restarts, charged>>

Restart ==
  /\ restarts < MaxRestarts
  /\ restarts' = restarts + 1
  /\ cycle_on' = FALSE /\ cycle_todo' = {} /\ cycle_halt' = {} /\ cycle_row' = None
  /\ cycle_count' = Zero /\ last_cycle' = Zero
  /\ fast_next' = 1 /\ fast_todo' = {}
  /\ charged' = [l \in Loop |-> {}] /\ excused' = [l \in Loop |-> {}]
  /\ UNCHANGED <<positions, halted>>

Next == CycleStep \/ FastStep \/ World \/ Restart \/ \E s \in Slug : Release(s)

Spec == Init /\ [][Next]_vars

\* The event loop runs every coroutine that can move, and neither Postgres nor
\* Redis is down for ever: the query of a venue, and the SADD of a slug, that is
\* tried again and again gets an answer once.
Fairness ==
  /\ WF_vars(CycleStep) /\ WF_vars(FastStep)
  /\ \A i \in DOMAIN HaltFastVenues : SF_vars(fast_next = i /\ FetchVenue)
  /\ \A s \in Slug :
       /\ SF_vars(ActuateRow("answered") /\ Base(cycle_row) = s)
       /\ SF_vars(ActuateSlug(s, "answered"))

FairSpec == Spec /\ Fairness

-----------------------------------------------------------------------------
(***************************************************************************)
(* Properties.                                                             *)
(***************************************************************************)
\* What a loop has read and still intends to halt.
Pending(loop) ==
  IF loop = "halt_fast" THEN fast_todo
  ELSE {Base(r) : r \in cycle_halt \cup ({cycle_row} \ {None})}

\* With enforcement on, a strategy that met the criteria when a loop last read
\* the trades is, until that loop reads again, about to be halted, halted, or
\* excused: its SADD was lost or the operator released it.  Neither the other
\* loop, nor a second venue of the same slug, nor a failed SISMEMBER, nor a
\* lost reply lets one slip (run_cycle, run_halt_fast_cycle, halts.py).
NoTargetForgotten ==
  EnforceHalts =>
    \A l \in Loop : charged[l] \subseteq Pending(l) \cup halted \cup excused[l]

\* No loop is ever on its way to halt a strategy the documented criteria spare,
\* however the trades have moved since it read them.
OnlyTheChargedArePending == \A l \in Loop : Pending(l) \subseteq charged[l]

\* The counts of a cycle are honest about its size: each row read is counted as
\* halted or would-halt at most once, and rows still to come leave it room
\* (_last_cycle and the summary log line of run_cycle).
ReportAddsUp ==
  /\ last_cycle.n_halted + last_cycle.n_would_halt <= last_cycle.n_evaluated
  /\ cycle_on => cycle_count.n_halted + cycle_count.n_would_halt
                   + Cardinality(cycle_todo \cup ({cycle_row} \ {None}))
                  <= cycle_count.n_evaluated

\* The counts tell what was done.  n_halted grows only with a slug that this very
\* call puts into the set, although the other loop may have put it there since
\* the SISMEMBER; and with enforcement on, a row that falls to n_would_halt is
\* no dry run: its slug is in the set by then, or its SADD was lost on the way
\* (run_cycle, which only hears True or False from halts.actuate).
CountsTellWhatWasDone ==
  [][/\ cycle_count'.n_halted > cycle_count.n_halted =>
          Base(cycle_row) \in halted' \ halted
     /\ EnforceHalts /\ cycle_count'.n_would_halt > cycle_count.n_would_halt =>
          Base(cycle_row) \in halted' \cup excused'["cycle"]]_vars

\* The two loops together keep the promise the trading stack relies on.
Accused == charged["cycle"] \cup charged["halt_fast"]
Promise == INSTANCE HaltPromise WITH accused <- Accused
KeepsThePromise == Promise!Spec

\* A strategy that keeps meeting the criteria of one loop is halted, and halted
\* again after every SREM, however many calls fail on the way: what is lost is
\* tried again at the loop's next turn.  The criteria are those of one loop and,
\* for halt-fast, of one venue: a strategy that meets now these and now those
\* may be missed by each look.
BadStrategyIsHalted ==
  EnforceHalts => \A s \in Slug :
    \/ <>[](\E r \in ChargedRows : Base(r) = s)
    \/ \E i \in DOMAIN HaltFastVenues : <>[](s \in ChargedOn(HaltFastVenues[i]))
    => []<>(s \in halted)
=============================================================================
