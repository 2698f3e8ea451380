----------------------------- MODULE OrderLedger -----------------------------
(***************************************************************************)
(* What the order event log promises anyone who folds it, whatever the     *)
(* order of acks, fills, crashes and in-flight checks behind it: an order  *)
(* is intended before anything else is known of it, its filled quantity    *)
(* only grows, never past the quantity asked for, and a filled order is    *)
(* final.  Each step concerns one order.                                   *)
(***************************************************************************)
EXTENDS Integers

CONSTANTS Orders, Qty

VARIABLES
  phase,    \* [Orders -> {"unknown", "intended", "working", "filled", "ended"}]
  filled    \* [Orders -> Nat]

ledgerVars == <<phase, filled>>

Init ==
  /\ phase = [o \in Orders |-> "unknown"]
  /\ filled = [o \in Orders |-> 0]

Intend(o) ==
  /\ phase[o] = "unknown"
  /\ phase' = [phase EXCEPT ![o] = "intended"]
  /\ UNCHANGED filled

Work(o) ==
  /\ phase[o] = "intended"
  /\ phase' = [phase EXCEPT ![o] = "working"]
  /\ UNCHANGED filled

(* Rejected or cancelled at the venue; a fill made before the cancel may    *)
(* still be reported afterwards.                                            *)
End(o) ==
  /\ phase[o] = "intended"
  /\ phase' = [phase EXCEPT ![o] = "ended"]
  /\ UNCHANGED filled

Fill(o) ==
  /\ phase[o] \in {"intended", "working", "ended"}
  /\ \E q \in 1 .. (Qty[o] - filled[o]) :
       /\ filled' = [filled EXCEPT ![o] = @ + q]
       /\ phase' = [phase EXCEPT ![o] =
                      IF filled[o] + q = Qty[o] THEN "filled" ELSE "working"]

Next == \E o \in Orders : Intend(o) \/ Work(o) \/ End(o) \/ Fill(o)

Spec == Init /\ [][Next]_ledgerVars
=============================================================================
