-------------------------------- MODULE LiveGate -------------------------------
(***************************************************************************)
(* The switch into live mode: POST /api/mode (api/routers/mode.py) behind  *)
(* LiveUnlockGate.check (risk/live_gate.py), over the model registry, the  *)
(* stage (ml/gates.py, scripts/promote_model.py), the paper trades, the    *)
(* freeze of the parameters and the slippage observations.                 *)
(*                                                                         *)
(* The check reads in three sessions and the mode is set in a fourth.      *)
(***************************************************************************)
EXTENDS Integers, Sequences, FiniteSets

CONSTANTS
  NeedPositive,   \* MIN_POST_FREEZE_SESSIONS
  NeedGating,     \* MIN_GATING_SESSIONS
  MaxGateDays     \* bound on the days

Stages == {"shadow", "advisory", "gating", "live-gating"}
Records == {"weak", "strong"}   \* the latest model: absent or DSR or PBO too weak, both met
Slippages == {"few", "breached", "clean"}   \* few: or all of them simulated
Never == 0 - 1

ASSUME GateAssumption ==
  {NeedPositive, NeedGating, MaxGateDays} \subseteq Nat

VARIABLES
  mode, record, stage, slippage,
  days,         \* for each day with paper cycles: its net, and whether it ran at gating
  frozenAt,     \* params_frozen_at, as the number of days before it, or Never
  gatingSince,  \* the latest promotion into gating, likewise
  request,      \* what POST /api/mode has read
  disturbed     \* something it reads has changed since it began

evidence == <<record, stage, slippage, days, frozenAt, gatingSince>>
gateVars == <<mode, evidence, request, disturbed>>

NoRequest == [at |-> "none", ok |-> TRUE, stage |-> "shadow"]

GateInit ==
  /\ mode = "dry-run" /\ record = "weak" /\ stage = "shadow" /\ slippage = "few"
  /\ days = <<>> /\ frozenAt = Never /\ gatingSince = Never
  /\ request = NoRequest /\ disturbed = FALSE

(* _post_freeze_positive_sessions, _paper_sessions_since.                   *)
DaysSince(n) == (n + 1) .. Len(days)
PositiveSessions == Cardinality({d \in DaysSince(frozenAt) : days[d].net > 0})

GatingEver == Cardinality({d \in 1 .. Len(days) : days[d].gating})
GatingSessions == Cardinality(DaysSince(gatingSince))

-----------------------------------------------------------------------------
(* The request.                                                             *)

Asks ==
  /\ request.at = "none"
  /\ request' = [NoRequest EXCEPT !.at = "record"]
  /\ disturbed' = FALSE
  /\ UNCHANGED <<mode, evidence>>

ReadsRecord ==
  /\ request.at = "record"
  /\ request' = [request EXCEPT !.at = "stage", !.ok = (record = "strong")]
  /\ UNCHANGED <<mode, evidence, disturbed>>

ReadsStage ==
  /\ request.at = "stage"
  /\ request' = [request EXCEPT !.at = "rest", !.stage = stage]
  /\ UNCHANGED <<mode, evidence, disturbed>>

(* It counted every day at gating, and not from the latest promotion.       *)
ReadyByTotal == /\ frozenAt # Never /\ PositiveSessions >= NeedPositive
                /\ slippage = "clean"
                /\ request.stage = "gating" /\ gatingSince # Never /\ GatingEver >= NeedGating

Ready == /\ frozenAt # Never /\ PositiveSessions >= NeedPositive
         /\ slippage = "clean"
         /\ request.stage = "gating" /\ gatingSince # Never /\ GatingSessions >= NeedGating

ReadsRest ==
  /\ request.at = "rest"
  /\ request' = IF request.ok /\ Ready THEN [request EXCEPT !.at = "switch"] ELSE NoRequest
  /\ UNCHANGED <<mode, evidence, disturbed>>

SwitchesLive ==
  /\ request.at = "switch"
  /\ mode' = "live"
  /\ request' = NoRequest
  /\ UNCHANGED <<evidence, disturbed>>

SwitchesBack ==   \* never gated
  /\ mode = "live"
  /\ mode' = "dry-run"
  /\ UNCHANGED <<evidence, request, disturbed>>

-----------------------------------------------------------------------------
(* What it is about.                                                        *)

Disturbs == disturbed' = (request.at # "none") /\ UNCHANGED <<mode, request>>

(* In live mode the cycle stands down and records no paper session.         *)
DayEnds(net) ==
  /\ mode = "dry-run" /\ Len(days) < MaxGateDays
  /\ days' = Append(days, [net |-> net, gating |-> stage = "gating"])
  /\ Disturbs
  /\ UNCHANGED <<record, stage, slippage, frozenAt, gatingSince>>

Trains(r) ==
  /\ record' = r /\ Disturbs
  /\ UNCHANGED <<stage, slippage, days, frozenAt, gatingSince>>

(* set_stage: outside the session, with its row in model_promotions.        *)
Promotes(s) ==
  /\ stage' = s /\ Disturbs
  /\ gatingSince' = IF s = "gating" THEN Len(days) ELSE gatingSince
  /\ UNCHANGED <<record, slippage, days, frozenAt>>

Freezes ==
  /\ frozenAt' = Len(days) /\ Disturbs
  /\ UNCHANGED <<record, stage, slippage, days, gatingSince>>

Slips(s) ==
  /\ slippage' = s /\ Disturbs
  /\ UNCHANGED <<record, stage, days, frozenAt, gatingSince>>

GateNext ==
  \/ Asks \/ ReadsRecord \/ ReadsStage \/ ReadsRest \/ SwitchesLive \/ SwitchesBack
  \/ \E n \in {-1, 1} : DayEnds(n)
  \/ \E r \in Records : Trains(r)
  \/ \E s \in Stages : Promotes(s)
  \/ Freezes
  \/ \E s \in Slippages : Slips(s)

GateSpec == GateInit /\ [][GateNext]_gateVars

-----------------------------------------------------------------------------
GateTypeOK ==
  /\ mode \in {"dry-run", "live"} /\ record \in Records /\ stage \in Stages
  /\ slippage \in Slippages
  /\ days \in Seq([net : Int, gating : BOOLEAN]) /\ Len(days) <= MaxGateDays
  /\ {frozenAt, gatingSince} \subseteq Never .. Len(days)
  /\ request \in [at : {"none", "record", "stage", "rest", "switch"}, ok : BOOLEAN, stage : Stages]
  /\ disturbed \in BOOLEAN

(* Live money is switched on only with both statistics met, clean slippage, *)
(* the last NeedGating paper days all run at gating, and NeedPositive days  *)
(* in profit after the freeze, or something changed under the request.      *)
LastDays(n) == IF n <= Len(days) THEN (Len(days) - n + 1) .. Len(days) ELSE Never .. Len(days)
Earned ==
  /\ record = "strong" /\ slippage = "clean" /\ stage = "gating"
  /\ \A d \in LastDays(NeedGating) : d > 0 /\ days[d].gating
  /\ frozenAt # Never
  /\ \E D \in SUBSET DaysSince(frozenAt) :
       Cardinality(D) >= NeedPositive /\ \A d \in D : days[d].net > 0
LiveIsEarned == [][mode # "live" /\ mode' = "live" => Earned \/ disturbed]_gateVars
=============================================================================
