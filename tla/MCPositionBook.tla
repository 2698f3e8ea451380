---------------------------- MODULE MCPositionBook ----------------------------
(* Small instances of PositionBook.  Of four positions two share an          *)
(* underlying, so that each of the three limits can be the one that binds.   *)
EXTENDS PositionBook, TLC

CONSTANTS p1, p2, p3, p4, u1, u2, u3, r1

MCPositions == {p1, p2, p3, p4}
MCUnderlyings == {u1, u2, u3}
MCUnderlyingOf ==
  [p \in MCPositions |-> CASE p = p3 -> u2 [] p = p4 -> u3 [] OTHER -> u1]
ThreePositions == {p1, p2, p3}
TwoUnderlyings == {u1, u2}
ThreeUnderlyingOf == [p \in ThreePositions |-> IF p = p3 THEN u2 ELSE u1]
AllPriceable == ThreePositions
NotAllPriceable == {p1, p3}
NoRequests == {}
OneRequest == {r1}
=============================================================================
