----------------------------- MODULE MCHaltLadder -----------------------------
(* Two positions over two or three days.                                     *)
EXTENDS HaltLadder

CONSTANTS p1, p2

MCPositions == {p1, p2}
=============================================================================
