-------------------------------- MODULE Maturity --------------------------------
(***************************************************************************)
(* What a model may say in a trading cycle (te/ml/gates.py, te/ml/         *)
(* predict.py, the hook in engine/cycle.py) while its stage is moved, by   *)
(* hand or by scripts/promote_model.py, in calls that may overlap, and the *)
(* mode switched.                                                          *)
(*                                                                         *)
(* Probabilities and multipliers are in per cent.                          *)
(***************************************************************************)
EXTENDS Integers, Sequences, FiniteSets

CONSTANTS
  Probabilities,
  SizedLots,     \* what size_position found
  MostLots,
  ElevatedPct,   \* the throttle's multiplier
  HandStages,    \* the stages somebody moves to by hand
  Callers,       \* processes that may move the stage at the same time
  MaxPredictions, MaxPromotions   \* bounds

MaturityStages == {"shadow", "advisory", "gating", "live-gating"}

ASSUME MaturityAssumption ==
  /\ Probabilities \subseteq 0 .. 100 /\ SizedLots \subseteq 1 .. MostLots /\ ElevatedPct \in 0 .. 100
  /\ HandStages \subseteq MaturityStages /\ {MostLots, MaxPredictions, MaxPromotions} \subseteq Nat

VARIABLES
  maturity,     \* ml_maturity_state
  liveMode,
  promotions,   \* model_promotions: [from, to, gated]
  movers,       \* [Callers -> how far a call of set_stage, or the script before it, has come]
  prediction,   \* the call of the hook: [at, p, stage, influence]
  predictions,  \* ml_predictions: [p, stage, displayed]
  outcome       \* of the last signal: [sized, throttled, lots, influence, row]

maturityVars == <<maturity, liveMode, promotions, movers, prediction, predictions, outcome>>
stageVars == <<maturity, liveMode, promotions, movers>>
hookVars == <<prediction, predictions, outcome>>

Inert == [pct |-> 100, veto |-> FALSE, shown |-> FALSE]
NoCallYet == [at |-> "idle", p |-> 0, stage |-> "shadow", influence |-> Inert]
NoMove == [at |-> "idle", from |-> "shadow", to |-> "shadow", gated |-> FALSE]
NoOutcome == [sized |-> 0, throttled |-> FALSE, lots |-> 0, influence |-> Inert, row |-> 0]

(* The tables: one stage, a row of each move of it, a row of each answer.   *)
MaturityState == MaturityStages
StageMoves == [at : {"idle", "met", "set", "write"}, from : MaturityStages, to : MaturityStages, gated : BOOLEAN]
ModelPromotions == [from : MaturityStages, to : MaturityStages, gated : BOOLEAN]
MLPredictions == [p : 0 .. 100, stage : MaturityStages, displayed : BOOLEAN]

MaturityInit ==
  /\ maturity = "shadow" /\ liveMode = FALSE /\ promotions = <<>> /\ movers = [c \in Callers |-> NoMove]
  /\ prediction = NoCallYet /\ predictions = <<>> /\ outcome = NoOutcome

-----------------------------------------------------------------------------
(* The stage.                                                               *)

(* set_stage, first half: the stage to move from, read in a session of its  *)
(* own before anything is written.                                          *)
BeginMove(c, to, gated) ==
  /\ Len(promotions) + Cardinality({d \in Callers : movers[d].at = "write"}) < MaxPromotions
  /\ movers' = [movers EXCEPT ![c] = [at |-> "write", from |-> maturity, to |-> to, gated |-> gated]]

ByHand(c) ==
  /\ movers[c].at = "idle" /\ \E to \in HandStages : BeginMove(c, to, FALSE)
  /\ UNCHANGED <<maturity, liveMode, promotions, hookVars>>

(* promote_model.py: the criteria, then the current stage, then set_stage.  *)
ScriptChecks(c) ==
  /\ movers[c].at = "idle" /\ movers' = [movers EXCEPT ![c].at = "met"]
  /\ UNCHANGED <<maturity, liveMode, promotions, hookVars>>
ScriptReads(c) ==
  /\ movers[c].at = "met"
  /\ movers' = [movers EXCEPT ![c].at = IF maturity = "shadow" THEN "set" ELSE "idle"]
  /\ UNCHANGED <<maturity, liveMode, promotions, hookVars>>
ScriptPromotes(c) ==
  /\ movers[c].at = "set" /\ BeginMove(c, "advisory", TRUE)
  /\ UNCHANGED <<maturity, liveMode, promotions, hookVars>>

(* set_stage, second half: the stage and its audit row, in one transaction. *)
WriteStage(c) ==
  /\ movers[c].at = "write"
  /\ promotions' = Append(promotions, [from |-> movers[c].from, to |-> movers[c].to, gated |-> movers[c].gated])
  /\ maturity' = movers[c].to
  /\ movers' = [movers EXCEPT ![c] = NoMove]
  /\ UNCHANGED <<liveMode, hookVars>>

MoverDies(c) ==
  /\ movers[c].at # "idle" /\ movers' = [movers EXCEPT ![c] = NoMove]
  /\ UNCHANGED <<maturity, liveMode, promotions, hookVars>>

MovesStage(c) ==
  ByHand(c) \/ ScriptChecks(c) \/ ScriptReads(c) \/ ScriptPromotes(c) \/ WriteStage(c) \/ MoverDies(c)

SwitchMode ==
  /\ liveMode' = ~liveMode
  /\ UNCHANGED <<maturity, promotions, movers, hookVars>>

-----------------------------------------------------------------------------
(* MaturityGate.influence: nothing below gating, a veto in paper mode at    *)
(* gating, and at live-gating a multiplier too.                             *)

Clamp(p) == IF p < 50 THEN 50 ELSE p
InfluenceOf(s, p) ==
  CASE s = "shadow" -> Inert
    [] s = "advisory" -> [Inert EXCEPT !.shown = TRUE]
    [] s = "gating" -> [pct |-> 100, veto |-> ~liveMode /\ p < 50, shown |-> TRUE]
    [] s = "live-gating" -> [pct |-> Clamp(p), veto |-> p < 50, shown |-> TRUE]

(* ShadowMLHook.evaluate: the model's answer, the stage, its influence, and *)
(* a row of the prediction.                                                 *)
Predicts ==
  /\ prediction.at = "idle" /\ Len(predictions) < MaxPredictions
  /\ \E p \in Probabilities : prediction' = [NoCallYet EXCEPT !.at = "stage", !.p = p]
  /\ UNCHANGED <<stageVars, predictions, outcome>>

ReadsMaturity ==
  /\ prediction.at = "stage"
  /\ prediction' = [prediction EXCEPT !.at = "influence", !.stage = maturity]
  /\ UNCHANGED <<stageVars, predictions, outcome>>

StageReadTwice == maturity
StageOfCall == prediction.stage

Influences ==
  /\ prediction.at = "influence"
  /\ prediction' = [prediction EXCEPT !.at = "log", !.influence = InfluenceOf(StageOfCall, prediction.p)]
  /\ UNCHANGED <<stageVars, predictions, outcome>>

LogsPrediction ==
  /\ prediction.at = "log"
  /\ predictions' = Append(predictions, [p |-> prediction.p, stage |-> prediction.stage,
                                         displayed |-> prediction.influence.shown])
  /\ prediction' = [prediction EXCEPT !.at = "answered"]
  /\ UNCHANGED <<stageVars, outcome>>

(* It raises anywhere, the writing of its row included: the cycle goes on   *)
(* without it.                                                              *)
HookRaises ==
  /\ prediction.at \in {"stage", "influence", "log"}
  /\ prediction' = [prediction EXCEPT !.at = "raised", !.influence = Inert]
  /\ UNCHANGED <<stageVars, predictions, outcome>>

(* The rest of run_entry_cycle: the lots that go out, none for a skip.      *)
Resized(sized, throttled, influence) ==
  IF influence.veto THEN 0
  ELSE (sized * (IF throttled THEN ElevatedPct ELSE 100) * influence.pct) \div 10000

EntryDecides ==
  /\ prediction.at \in {"answered", "raised"}
  /\ \E sized \in SizedLots, throttled \in BOOLEAN :
       outcome' = [sized |-> sized, throttled |-> throttled, influence |-> prediction.influence,
                   lots |-> Resized(sized, throttled, prediction.influence),
                   row |-> IF prediction.at = "answered" THEN Len(predictions) ELSE 0]
  /\ prediction' = NoCallYet
  /\ UNCHANGED <<stageVars, predictions>>

MaturityNext ==
  \/ \E c \in Callers : MovesStage(c)
  \/ SwitchMode
  \/ Predicts \/ ReadsMaturity \/ Influences \/ LogsPrediction \/ HookRaises \/ EntryDecides

MaturitySpec == MaturityInit /\ [][MaturityNext]_maturityVars

-----------------------------------------------------------------------------
(* gates.py:1-20, predict.py:45-55: an entry differs from what sizing and   *)
(* the throttle made of it only where the row kept of the prediction says   *)
(* why, however the stage and the mode move under the call: a stage that    *)
(* may, and a probability that does.                                        *)
EffectIsOnRecord ==
  outcome.lots # Resized(outcome.sized, outcome.throttled, Inert) =>
    /\ outcome.row # 0
    /\ LET why == predictions[outcome.row]
       IN /\ why.stage \in {"gating", "live-gating"} /\ why.displayed
          /\ why.p < 50 \/ (why.stage = "live-gating" /\ why.p < 100)

(* It can only make an entry smaller.                                       *)
NeverLarger == outcome.lots <= outcome.sized

(* No stage without its row, however the calls that move it overlap: the    *)
(* stage is the last row's, and any stage that a row of model_promotions    *)
(* says it left, or a prediction was influenced and logged under, had been  *)
(* entered by an earlier row.  That two rows follow each other without a    *)
(* gap is not so: two calls may have read the same stage before they wrote. *)
StageAfter(n) == IF n = 0 THEN "shadow" ELSE promotions[n].to
EnteredBy(stage, n) == \E m \in 0 .. n : stage = StageAfter(m)
StageIsOnRecord ==
  /\ maturity = StageAfter(Len(promotions))
  /\ \A i \in DOMAIN promotions : EnteredBy(promotions[i].from, i - 1)
  /\ \A i \in DOMAIN predictions : EnteredBy(predictions[i].stage, Len(promotions))

MaturityTypeOK ==
  /\ maturity \in MaturityState /\ liveMode \in BOOLEAN /\ movers \in [Callers -> StageMoves]
  /\ promotions \in Seq(ModelPromotions) /\ predictions \in Seq(MLPredictions)
  /\ prediction.stage \in MaturityStages /\ outcome.lots \in 0 .. MostLots

(* gates.py, predict.py, cycle.py: a model touches a trade only as its row  *)
(* in ml_predictions says it may.                                           *)
InfluenceIsEarned == MaturityTypeOK /\ EffectIsOnRecord /\ NeverLarger /\ StageIsOnRecord
=================================================================================
