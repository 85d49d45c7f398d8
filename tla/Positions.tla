----------------------------- MODULE Positions ------------------------------
(***************************************************************************)
(* The positions and strategies tables the trading stack writes, and the   *)
(* two read-only queries research-loop runs on them: the per-strategy      *)
(* statistics of db.py and the per-venue 24h PnL of halt_fast.py.          *)
(*                                                                         *)
(* A slot holds one row of positions at a time.  Instead of timestamps a   *)
(* row carries how long ago it was opened and closed, in units of which    *)
(* there are Day to the day, so that a window that slides with NOW() is a  *)
(* bound on an age.  A row is dropped, and its slot reused, only once it   *)
(* is too old for every query.                                             *)
(***************************************************************************)
EXTENDS Sharpe

CONSTANTS
  Slot,        \* rows of positions the model has room for
  Slug, Venue,
  SlugOf,      \* Slot -> Slug, the strategy a row belongs to
  VenueOf,     \* Slot -> Venue
  Pnl,         \* realised PnLs; None for a closed row whose PnL is NULL
  Day,         \* units of age in a day
  WindowDays,  \* settings.window_days
  MaxAge       \* bound: ages saturate here

ASSUME PositionsAssumption ==
  /\ IsFiniteSet(Slot)
  /\ SlugOf \in [Slot -> Slug]
  /\ VenueOf \in [Slot -> Venue]
  /\ Day \in Nat \ {0} /\ WindowDays \in Nat \ {0}
  /\ MaxAge \in Nat /\ MaxAge > WindowDays * Day

VARIABLE positions

Age      == 0..MaxAge
Position == [status : {"vacant", "open", "closed"}, opened : Age, closed : Age,
             pnl : Pnl \cup {None}]
Vacant   == [status |-> "vacant", opened |-> 0, closed |-> 0, pnl |-> None]

PositionsTypeOK == positions \in [Slot -> Position]
PositionsInit   == positions = [p \in Slot |-> Vacant]

-----------------------------------------------------------------------------
(***************************************************************************)
(* What the trading stack and the clock do to the table.                   *)
(***************************************************************************)
OpenPosition(p) ==
  /\ positions[p].status = "vacant"
  /\ positions' = [positions EXCEPT ![p].status = "open"]

ClosePosition(p, pnl) ==
  /\ positions[p].status = "open"
  /\ positions' = [positions EXCEPT ![p].status = "closed", ![p].pnl = pnl]

Older(age) == IF age < MaxAge THEN age + 1 ELSE age

Aged(q) ==
  IF q.status = "open" THEN [q EXCEPT !.opened = Older(@)]
  ELSE IF q.status = "closed" /\ q.closed < MaxAge
  THEN [q EXCEPT !.opened = Older(@), !.closed = Older(@)]
  ELSE Vacant

TimePasses == positions' = [p \in Slot |-> Aged(positions[p])]

Trading ==
  \/ TimePasses
  \/ \E p \in Slot : OpenPosition(p) \/ \E pnl \in Pnl : ClosePosition(p, pnl)

-----------------------------------------------------------------------------
(***************************************************************************)
(* fetch_strategy_stats: one row of statistics per (strategy, venue) with  *)
(* a close inside the window.  The second query, the open positions, is    *)
(* informational and no rule reads it.                                     *)
(***************************************************************************)
RowOf(p) == <<SlugOf[p], VenueOf[p]>>
Row      == {RowOf(p) : p \in Slot}
Base(r)  == r[1]   \* slug.split("@")[0]

ClosedWithin(age) == {p \in Slot : /\ positions[p].status = "closed"
                                   /\ positions[p].closed <= age}

StatsRows == {RowOf(p) : p \in ClosedWithin(WindowDays * Day)}

fetch_strategy_stats(r) ==
  LET trades == {p \in ClosedWithin(WindowDays * Day) : RowOf(p) = r}
  IN strategy_stats([p \in trades |-> positions[p].pnl],
                    Max({positions[p].opened : p \in trades}) \div Day)

\* fetch_venue_pnl_24h: the closes of the last 24 hours on a venue.
VenueCloses(v) == {p \in ClosedWithin(Day) : VenueOf[p] = v}

\* COALESCE(SUM(realized_pnl_usd), 0): a NULL PnL adds nothing.
VenuePnl(v) == MapThenSumSet(LAMBDA p : positions[p].pnl,
                             {p \in VenueCloses(v) : positions[p].pnl # None})

\* The query's columns: the sum, COUNT(*) and the distinct slugs.
fetch_venue_pnl_24h(v) ==
  [pnl      |-> VenuePnl(v),
   n_closed |-> Cardinality(VenueCloses(v)),
   slugs    |-> {SlugOf[p] : p \in VenueCloses(v)}]
=============================================================================
