------------------------------ MODULE MCExitPlan ------------------------------
(* Plans around an entry at 100 paise.                                       *)
EXTENDS ExitPlan

P(target, trail, lockAt, buffer) ==
  [entry |-> 100, stop |-> 80, target |-> target, trail |-> trail,
   lockAt |-> lockAt, buffer |-> buffer]

(* The default plan: 20 % either way, no trail, a lock at 15 % 5 % below;    *)
(* and plans with room for several rungs, for a trail, and for both.         *)
MCPlans == {P(120, None, 115, 5), P(190, None, 115, 5), P(190, None, 110, 20),
            P(190, 15, None, 5), P(190, 15, 115, 5)}
FallPlans == {P(120, None, 115, 5)}

(* Quotes on either side of the levels, rungs and jumps: 80 and 120 are      *)
(* exactly 20 % from 100, 76 and 75 about 5 % from 79, 133 is the second     *)
(* rung of a lock at 115, 110 and 128 are stops it leaves.                   *)
MCQuotes == {60, 75, 79, 80, 96, 100, 110, 115, 120, 126, 128, 133, 152}
FallQuotes == {100, 79, 75, 70, 60}
=============================================================================
