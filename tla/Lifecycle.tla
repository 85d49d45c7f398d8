------------------------------ MODULE Lifecycle ------------------------------
(***************************************************************************)
(* main() of main.py: the bootstrap, the loops under one gather with the   *)
(* HTTP server, the signal that ends them, and the shutdown; with the      *)
(* Postgres pool that db.py creates when it is first asked for.  A step is *)
(* what a coroutine does up to its next await.                             *)
(***************************************************************************)
EXTENDS Integers, FiniteSets

CONSTANTS
  Loops,  \* the loops that main starts
  Idle    \* those that only wait: an auto-tuner with no strategy opted in

ASSUME LifecycleAssumption == IsFiniteSet(Loops) /\ Idle \subseteq Loops

VARIABLES
  stage,    \* of main: "boot", "running", "closing" or "exited"
  booted,   \* history: the bootstrap left a pool
  stop,     \* stop_event
  server,   \* uvicorn: "starting", "serving", "told" to exit, "done"
  loop,     \* Loops -> "waiting", "creating" a pool, "using" one, "done"
  held,     \* Loops -> the pool of the current iteration, 0 for none
  pool,     \* db._pool, 0 for None
  created,  \* pools are numbered 1..created
  open      \* the pools that are open

vars == <<stage, booted, stop, server, loop, held, pool, created, open>>

TypeOK ==
  /\ stage \in {"boot", "running", "closing", "exited"}
  /\ booted \in BOOLEAN /\ stop \in BOOLEAN
  /\ server \in {"starting", "serving", "told", "done"}
  /\ loop \in [Loops -> {"waiting", "creating", "using", "done"}]
  /\ created \in Nat
  /\ held \in [Loops -> 0..created] /\ pool \in 0..created
  /\ open \subseteq 1..created

Init ==
  /\ stage = "boot" /\ booted = FALSE /\ stop = FALSE /\ server = "starting"
  /\ loop = [l \in Loops |-> "waiting"] /\ held = [l \in Loops |-> 0]
  /\ pool = 0 /\ created = 0 /\ open = {}

-----------------------------------------------------------------------------
(***************************************************************************)
(* Start.                                                                  *)
(***************************************************************************)
\* The bootstrap creates the pool; if it cannot, or the learning loop is off,
\* main goes on without.
Bootstrap(success) ==
  /\ stage = "boot" /\ stage' = "running"
  /\ booted' = success
  /\ IF success THEN pool' = 1 /\ created' = 1 /\ open' = {1}
     ELSE UNCHANGED <<pool, created, open>>
  /\ UNCHANGED <<stop, server, loop, held>>

ServerStarts ==
  /\ stage = "running" /\ server = "starting"
  /\ server' = "serving"
  /\ UNCHANGED <<stage, booted, stop, loop, held, pool, created, open>>

\* The port is taken: uvicorn calls sys.exit, which no gather stops.
ServerFails ==
  /\ stage = "running" /\ server \in {"starting", "serving"}
  /\ stage' = "exited"
  /\ UNCHANGED <<booted, stop, server, loop, held, pool, created, open>>

-----------------------------------------------------------------------------
(***************************************************************************)
(* The loops.  Each is: unless told to stop, get the pool, use it, wait    *)
(* for the event or the interval.  An exception ends an iteration early.   *)
(***************************************************************************)
\* Mutant: _get_pool does not look whether there is a pool.
Mut_AlwaysCreates(l) ==
  loop' = [loop EXCEPT ![l] = "creating"] /\ UNCHANGED held

\* _get_pool, up to the await of create_pool.
GetPool(l) ==
  IF pool = 0
  THEN loop' = [loop EXCEPT ![l] = "creating"] /\ UNCHANGED held
  ELSE loop' = [loop EXCEPT ![l] = "using"] /\ held' = [held EXCEPT ![l] = pool]

\* Mutant: while True.
Mut_NeverStops(l) == FALSE

\* Mutant: a loop runs for as long as there is a server.
Mut_OutlastsServer(l) == server = "done"

MayStop(l) == stop

Wake(l) ==
  /\ stage = "running" /\ loop[l] = "waiting"
  /\ \/ MayStop(l) /\ loop' = [loop EXCEPT ![l] = "done"] /\ UNCHANGED held
     \/ ~MayStop(l) /\ l \notin Idle /\ GetPool(l)
  /\ UNCHANGED <<stage, booted, stop, server, pool, created, open>>

\* Mutant: a pool that is created is not counted as one.
Mut_NotNumbered == created

NextPool == created + 1

\* create_pool returns; another loop's pool may be there by now and is replaced.
PoolCreated(l) ==
  /\ stage = "running" /\ loop[l] = "creating"
  /\ created' = NextPool
  /\ pool' = created' /\ open' = open \cup {created'}
  /\ loop' = [loop EXCEPT ![l] = "using"] /\ held' = [held EXCEPT ![l] = created']
  /\ UNCHANGED <<stage, booted, stop, server>>

\* The iteration is over, or failed: in create_pool, in a query, or later.
IterationEnds(l) ==
  /\ stage = "running" /\ loop[l] \in {"creating", "using"}
  /\ loop' = [loop EXCEPT ![l] = "waiting"] /\ held' = [held EXCEPT ![l] = 0]
  /\ UNCHANGED <<stage, booted, stop, server, pool, created, open>>

-----------------------------------------------------------------------------
(***************************************************************************)
(* Stop.                                                                   *)
(***************************************************************************)
\* A signal before main has its handlers ends the process, or is lost on one that
\* runs as process 1.  Later it sets the event; uvicorn, once it serves, has put
\* its own handler in front and is told too.
Signal ==
  /\ \/ /\ stage = "boot" /\ stage' = "exited"
        /\ UNCHANGED <<stop, server>>
     \/ /\ stage = "running" /\ stop' = TRUE
        /\ server' = IF server = "serving" THEN "told" ELSE server
        /\ UNCHANGED stage
  /\ UNCHANGED <<booted, loop, held, pool, created, open>>

ServerExits ==
  /\ stage = "running" /\ server = "told"
  /\ server' = "done"
  /\ UNCHANGED <<stage, booted, stop, loop, held, pool, created, open>>

\* Mutant: the first to finish ends the wait.
Mut_FirstCompleted == server = "done" \/ \E l \in Loops : loop[l] = "done"

AllFinished == server = "done" /\ \A l \in Loops : loop[l] = "done"

Gathered ==
  /\ stage = "running" /\ AllFinished
  /\ stage' = "closing"
  /\ UNCHANGED <<booted, stop, server, loop, held, pool, created, open>>

\* db.close, which knows one pool.  If its close fails, it is forgotten as it is.
CloseDb(success) ==
  /\ stage = "closing" /\ stage' = "exited"
  /\ open' = IF success THEN open \ {pool} ELSE open
  /\ pool' = 0
  /\ UNCHANGED <<booted, stop, server, loop, held, created>>

LoopStep(l) == Wake(l) \/ PoolCreated(l) \/ IterationEnds(l)

Next ==
  \/ \E success \in BOOLEAN : Bootstrap(success) \/ CloseDb(success)
  \/ ServerStarts \/ ServerFails \/ Signal \/ ServerExits \/ Gathered
  \/ \E l \in Loops : LoopStep(l)

Spec == Init /\ [][Next]_vars

\* The event loop runs every task that is ready; a query or a connection attempt
\* ends at last, if only with a timeout; uvicorn that is told to exit does.
Fairness ==
  /\ WF_vars(Gathered) /\ WF_vars(CloseDb(TRUE) \/ CloseDb(FALSE)) /\ WF_vars(ServerExits)
  /\ \A l \in Loops : WF_vars(LoopStep(l))

FairSpec == Spec /\ Fairness

-----------------------------------------------------------------------------
(***************************************************************************)
(* Properties.                                                             *)
(***************************************************************************)
\* Nobody uses a pool that db.close has closed: close comes after every loop has
\* finished its last iteration (main, db.close).
NoUseAfterClose == \A l \in Loops : loop[l] = "using" => held[l] \in open

\* A bootstrap that worked leaves the only pool there will be.  Without it each
\* loop creates at most one in the race of the first iterations, and the process
\* ends with all of them open but the last, or that one too if its close fails
\* (_get_pool, close).
PoolsAreCounted ==
  /\ created <= IF booted THEN 1 ELSE Cardinality(Loops \ Idle)
  /\ stage = "exited" => Cardinality(open) >= created - 1

\* A signal that reaches the server too ends the process, whatever the loops are
\* doing at that time (main, stop_event).
SignalEndsProcess == (stop /\ server \in {"told", "done"}) ~> (stage = "exited")

\* A signal at any other time after main has its handlers at least stops every loop,
\* also when the server, which has not heard of it, keeps the process alive: nothing
\* is halted, tuned or exported by a process that was told to go (main, stop_event).
SignalStopsTheLoops ==
  stop ~> (stage = "exited" \/ \A l \in Loops : loop[l] = "done")
=============================================================================
