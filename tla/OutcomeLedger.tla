---------------------------- MODULE OutcomeLedger ----------------------------
(***************************************************************************)
(* What the learning loop promises its readers: an alpha is recorded at    *)
(* most once, and the outcome of a recorded alpha is written at most once, *)
(* from a trade of that alpha which is closed by then, and never changes.  *)
(***************************************************************************)
CONSTANTS Absent, Awaiting, Alpha, Trade, AlphaOf

VARIABLES
  ledger,  \* Alpha -> Absent, Awaiting or the trade its outcome was taken from
  closed   \* the trades that are closed

vars == <<ledger, closed>>

TypeOK ==
  /\ closed \subseteq Trade
  /\ ledger \in [Alpha -> {Absent, Awaiting} \cup Trade]

Init == closed = {} /\ ledger = [a \in Alpha |-> Absent]

Close(t) == closed' = closed \cup {t} /\ UNCHANGED ledger

Record(a) ==
  /\ ledger[a] = Absent
  /\ ledger' = [ledger EXCEPT ![a] = Awaiting]
  /\ UNCHANGED closed

\* Any number of alphas are settled together.
Settle ==
  /\ ledger' \in [Alpha -> {Absent, Awaiting} \cup Trade]
  /\ \A a \in Alpha :
       \/ ledger'[a] = ledger[a]
       \/ ledger[a] = Awaiting /\ ledger'[a] \in {t \in closed : AlphaOf[t] = a}
  /\ UNCHANGED closed

Next == (\E t \in Trade : Close(t)) \/ (\E a \in Alpha : Record(a)) \/ Settle

Spec == Init /\ [][Next]_vars
=============================================================================
