---------------------------- MODULE PositionLedger ----------------------------
(***************************************************************************)
(* What the position book promises: a position is bought once, held, sold  *)
(* once and then flat for good; no more than MaxOpen are held at a time,   *)
(* MaxTrades bought in a session and MaxPerUnderlying on one underlying.   *)
(* The promise is about what the broker filled, not about the rows the     *)
(* engine keeps of it.                                                     *)
(***************************************************************************)
EXTENDS Integers, FiniteSets

CONSTANTS Positions, UnderlyingOf, MaxOpen, MaxTrades, MaxPerUnderlying

VARIABLE pos    \* [Positions -> {"none", "held", "flat"}]

Held == {p \in Positions : pos[p] = "held"}
Taken == {p \in Positions : pos[p] # "none"}

Init == pos = [p \in Positions |-> "none"]

Enter(p) ==
  /\ pos[p] = "none"
  /\ Cardinality(Held) < MaxOpen
  /\ Cardinality(Taken) < MaxTrades
  /\ Cardinality({q \in Taken : UnderlyingOf[q] = UnderlyingOf[p]}) < MaxPerUnderlying
  /\ pos' = [pos EXCEPT ![p] = "held"]

Leave(p) ==
  /\ pos[p] = "held"
  /\ pos' = [pos EXCEPT ![p] = "flat"]

Next == \E p \in Positions : Enter(p) \/ Leave(p)

Spec == Init /\ [][Next]_pos
=============================================================================
