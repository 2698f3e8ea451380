----------------------------- MODULE ResearchProofs -----------------------------
(***************************************************************************)
(* What a trade rests on, for every value of the constants: the influence  *)
(* of the model on its size (Maturity), its contract and lot (Contracts),  *)
(* the archive the model learned from (Archive), how much is bought and    *)
(* lost (Sizing), how the model was trained (Training), what is said of    *)
(* the structures sold for their premium (Structures), the row a model is  *)
(* asked with (Features), the labels it learns (Labels) and the rules a    *)
(* signal comes from (Signals).                                            *)
(***************************************************************************)
EXTENDS Maturity, Sizing, Contracts, Archive, Training, Structures, Features, Labels,
        Signals, FiniteSetTheorems, WellFoundedInduction, TLAPS

-----------------------------------------------------------------------------
(* Maturity.                                                                *)

Influence == [pct : 0 .. 100, veto : BOOLEAN, shown : BOOLEAN]
CallSteps == {"idle", "stage", "influence", "log", "answered", "raised"}
Call == [at : CallSteps, p : 0 .. 100, stage : MaturityStages, influence : Influence]
Outcome == [sized : 0 .. MostLots, throttled : BOOLEAN, lots : Int, influence : Influence, row : Nat]

Acts(i) == i.veto = TRUE \/ i.pct # 100

(* What a stage and a probability allow an influence to be.                 *)
Allowed(i, s, p, shown) ==
  Acts(i) => s \in {"gating", "live-gating"} /\ shown /\ (p < 50 \/ (s = "live-gating" /\ p < 100))

MaturityTypes ==
  /\ maturity \in MaturityStages /\ liveMode \in BOOLEAN
  /\ promotions \in Seq(ModelPromotions) /\ predictions \in Seq(MLPredictions)
  /\ prediction \in Call /\ outcome \in Outcome

CallIsAllowed ==
  /\ prediction.at \in {"idle", "stage", "influence", "raised"} => ~Acts(prediction.influence)
  /\ prediction.at \in {"log", "answered"} =>
       Allowed(prediction.influence, prediction.stage, prediction.p, prediction.influence.shown)
  /\ prediction.at = "answered" =>
       /\ Len(predictions) # 0
       /\ predictions[Len(predictions)] =
            [p |-> prediction.p, stage |-> prediction.stage, displayed |-> prediction.influence.shown]

OutcomeIsAllowed ==
  /\ outcome.row \in 0 .. Len(predictions)
  /\ outcome.lots = Resized(outcome.sized, outcome.throttled, outcome.influence)
  /\ outcome.row = 0 => ~Acts(outcome.influence)
  /\ outcome.row # 0 => LET why == predictions[outcome.row]
                        IN  Allowed(outcome.influence, why.stage, why.p, why.displayed)

MaturityInv == MaturityTypes /\ CallIsAllowed /\ OutcomeIsAllowed

LEMMA InertDoesNotAct == Inert \in Influence /\ ~Acts(Inert)
BY DEF Inert, Influence, Acts

(* The gate's answer is one its own stage and probability allow.            *)
LEMMA InfluenceIsAllowed ==
  ASSUME NEW s \in MaturityStages, NEW p \in 0 .. 100, liveMode \in BOOLEAN
  PROVE  /\ InfluenceOf(s, p) \in Influence
         /\ Allowed(InfluenceOf(s, p), s, p, InfluenceOf(s, p).shown)
<1>1. CASE s = "shadow"
  BY <1>1 DEF InfluenceOf, Inert, Influence, Allowed, Acts
<1>2. CASE s = "advisory"
  <2>1. InfluenceOf(s, p) = [pct |-> 100, veto |-> FALSE, shown |-> TRUE]
    BY <1>2 DEF InfluenceOf, Inert
  <2> QED
    BY <2>1 DEF Influence, Allowed, Acts
<1>3. CASE s = "gating"
  <2> DEFINE v == ~liveMode /\ p < 50
  <2>1. InfluenceOf(s, p) = [pct |-> 100, veto |-> v, shown |-> TRUE]
    BY <1>3 DEF InfluenceOf
  <2>2. v \in BOOLEAN /\ (v = TRUE => p < 50)
    OBVIOUS
  <2> HIDE DEF v
  <2>3. InfluenceOf(s, p) \in Influence
    BY <2>1, <2>2 DEF Influence
  <2>4. /\ InfluenceOf(s, p).pct = 100 /\ InfluenceOf(s, p).veto = v
        /\ InfluenceOf(s, p).shown = TRUE
    <3> HIDE DEF InfluenceOf, Clamp
    <3> QED
      BY <2>1
  <2> QED
    BY <1>3, <2>2, <2>3, <2>4 DEF Allowed, Acts
<1>4. CASE s = "live-gating"
  <2> DEFINE v == p < 50
  <2>1. InfluenceOf(s, p) = [pct |-> Clamp(p), veto |-> v, shown |-> TRUE]
    BY <1>4 DEF InfluenceOf
  <2>2. Clamp(p) \in 0 .. 100 /\ (Clamp(p) # 100 => p < 100) /\ v \in BOOLEAN /\ (v = TRUE => p < 50)
    BY DEF Clamp
  <2> HIDE DEF v
  <2>3. InfluenceOf(s, p) \in Influence
    BY <2>1, <2>2 DEF Influence
  <2>4. /\ InfluenceOf(s, p).pct = Clamp(p) /\ InfluenceOf(s, p).veto = v
        /\ InfluenceOf(s, p).shown = TRUE
    <3> HIDE DEF InfluenceOf, Clamp
    <3> QED
      BY <2>1
  <2> QED
    BY <1>4, <2>2, <2>3, <2>4 DEF Allowed, Acts
<1> QED
  BY <1>1, <1>2, <1>3, <1>4 DEF MaturityStages

LEMMA MaturityInvInit == MaturityInit => MaturityInv
<1> SUFFICES ASSUME MaturityInit PROVE MaturityInv
  OBVIOUS
<1>1. prediction \in Call /\ outcome \in Outcome
  <2>1. 0 \in 0 .. MostLots
    BY MaturityAssumption
  <2> QED
    BY <2>1, InertDoesNotAct DEF MaturityInit, NoCallYet, NoOutcome, Call, Outcome, CallSteps, MaturityStages
<1>2. MaturityTypes
  <2>1. maturity \in MaturityStages /\ liveMode \in BOOLEAN
    BY DEF MaturityInit, MaturityStages
  <2>2. promotions \in Seq(ModelPromotions) /\ predictions \in Seq(MLPredictions)
    BY DEF MaturityInit
  <2> QED
    BY <1>1, <2>1, <2>2 DEF MaturityTypes
<1>3. CallIsAllowed
  BY InertDoesNotAct DEF MaturityInit, CallIsAllowed, NoCallYet
<1>4. Resized(0, FALSE, Inert) = 0
  BY DEF Resized, Inert
<1>5. OutcomeIsAllowed
  <2>1. /\ outcome.row = 0 /\ outcome.lots = 0 /\ outcome.sized = 0 /\ outcome.throttled = FALSE
        /\ outcome.influence = Inert /\ Len(predictions) = 0
    BY DEF MaturityInit, NoOutcome
  <2>2. outcome.lots = Resized(outcome.sized, outcome.throttled, outcome.influence)
    BY <1>4, <2>1, Zenon
  <2> QED
    BY <2>1, <2>2, InertDoesNotAct DEF OutcomeIsAllowed
<1> QED
  BY <1>2, <1>3, <1>5 DEF MaturityInv

(* A call of set_stage is typed wherever it has come to.                    *)
MoversTyped == movers \in [Callers -> StageMoves]

LEMMA MoversStayTyped ==
  ASSUME MoversTyped, maturity \in MaturityStages, [MaturityNext]_maturityVars
  PROVE  MoversTyped'
<1>1. NoMove \in StageMoves
  BY DEF NoMove, StageMoves, MaturityStages
<1>2. CASE \E c \in Callers : MovesStage(c)
  <2>1. PICK c \in Callers : MovesStage(c)
    BY <1>2
  <2>2. CASE ByHand(c) \/ ScriptPromotes(c)
    <3>1. PICK to \in MaturityStages, gated \in BOOLEAN : BeginMove(c, to, gated)
      BY <2>2, MaturityAssumption DEF ByHand, ScriptPromotes, MaturityStages
    <3>2. [at |-> "write", from |-> maturity, to |-> to, gated |-> gated] \in StageMoves
      BY DEF StageMoves
    <3> QED
      BY <3>1, <3>2 DEF BeginMove, MoversTyped
  <2>3. CASE ScriptChecks(c) \/ ScriptReads(c)
    <3>1. PICK at \in {"idle", "met", "set"} : movers' = [movers EXCEPT ![c].at = at]
      BY <2>3 DEF ScriptChecks, ScriptReads
    <3>2. [movers[c] EXCEPT !.at = at] \in StageMoves
      BY DEF MoversTyped, StageMoves
    <3> QED
      BY <3>1, <3>2 DEF MoversTyped
  <2>4. CASE WriteStage(c) \/ MoverDies(c)
    BY <1>1, <2>4 DEF WriteStage, MoverDies, MoversTyped
  <2> QED
    BY <2>1, <2>2, <2>3, <2>4 DEF MovesStage
<1>3. CASE UNCHANGED movers
  BY <1>3 DEF MoversTyped
<1> QED
  BY <1>2, <1>3 DEF MaturityNext, maturityVars, stageVars, SwitchMode, Predicts, ReadsMaturity, Influences,
     LogsPrediction, HookRaises, EntryDecides

(* The steps that touch neither the call nor its rows.                      *)
LEMMA StageSteps ==
  ASSUME MaturityInv, MoversTyped, (\E c \in Callers : MovesStage(c)) \/ SwitchMode
  PROVE  MaturityInv'
<1>1. UNCHANGED <<prediction, predictions, outcome>>
  BY DEF MovesStage, ByHand, ScriptChecks, ScriptReads, ScriptPromotes, WriteStage, MoverDies, SwitchMode, hookVars
<1>2. maturity' \in MaturityStages /\ promotions' \in Seq(ModelPromotions) /\ liveMode' \in BOOLEAN
  <2>1. CASE \E c \in Callers : WriteStage(c)
    <3>1. PICK c \in Callers : WriteStage(c)
      BY <2>1
    <3>2. movers[c] \in StageMoves
      BY DEF MoversTyped
    <3>3. [from |-> movers[c].from, to |-> movers[c].to, gated |-> movers[c].gated] \in ModelPromotions
      BY <3>2 DEF StageMoves, ModelPromotions
    <3> QED
      BY <3>1, <3>2, <3>3 DEF WriteStage, MaturityInv, MaturityTypes, StageMoves
  <2>2. CASE SwitchMode
    BY <2>2 DEF SwitchMode, MaturityInv, MaturityTypes
  <2>3. CASE ~(\E c \in Callers : WriteStage(c)) /\ ~SwitchMode
    BY <2>3 DEF MovesStage, ByHand, ScriptChecks, ScriptReads, ScriptPromotes, MoverDies, MaturityInv, MaturityTypes
  <2> QED
    BY <2>1, <2>2, <2>3
<1> QED
  BY <1>1, <1>2 DEF MaturityInv, MaturityTypes, CallIsAllowed, OutcomeIsAllowed

LEMMA HookSteps ==
  ASSUME MaturityInv, Predicts \/ ReadsMaturity \/ Influences \/ HookRaises
  PROVE  MaturityInv'
<1>1. UNCHANGED <<maturity, liveMode, promotions, predictions, outcome>>
  BY DEF Predicts, ReadsMaturity, Influences, HookRaises, stageVars
<1>2. prediction \in Call
  BY DEF MaturityInv, MaturityTypes
<1>3. prediction' \in Call /\ CallIsAllowed'
  <2>1. CASE Predicts
    <3>1. PICK p \in Probabilities : prediction' = [NoCallYet EXCEPT !.at = "stage", !.p = p]
      BY <2>1 DEF Predicts
    <3>2. prediction' = [at |-> "stage", p |-> p, stage |-> "shadow", influence |-> Inert]
      BY <3>1 DEF NoCallYet
    <3>3. p \in 0 .. 100
      BY MaturityAssumption
    <3> QED
      BY <3>2, <3>3, InertDoesNotAct DEF Call, CallSteps, MaturityStages, CallIsAllowed
  <2>2. CASE ReadsMaturity
    BY <1>2, <2>2 DEF ReadsMaturity, Call, CallSteps, CallIsAllowed, MaturityInv, MaturityTypes
  <2>3. CASE Influences
    <3> DEFINE i == InfluenceOf(prediction.stage, prediction.p)
    <3>1. prediction' = [prediction EXCEPT !.at = "log", !.influence = i]
      BY <2>3 DEF Influences, StageOfCall
    <3>2. i \in Influence /\ Allowed(i, prediction.stage, prediction.p, i.shown)
      BY <1>2, InfluenceIsAllowed DEF Call, MaturityInv, MaturityTypes
    <3> HIDE DEF i
    <3>3. /\ prediction' \in Call /\ prediction'.at = "log" /\ prediction'.influence = i
          /\ prediction'.stage = prediction.stage /\ prediction'.p = prediction.p
      BY <1>2, <3>1, <3>2 DEF Call, CallSteps
    <3> QED
      BY <3>2, <3>3 DEF CallIsAllowed
  <2>4. CASE HookRaises
    BY <1>2, <2>4, InertDoesNotAct DEF HookRaises, Call, CallSteps, CallIsAllowed
  <2> QED
    BY <2>1, <2>2, <2>3, <2>4
<1> QED
  BY <1>1, <1>3 DEF MaturityInv, MaturityTypes, OutcomeIsAllowed

LEMMA LogStep ==
  ASSUME MaturityInv, LogsPrediction
  PROVE  MaturityInv'
<1> DEFINE row == [p |-> prediction.p, stage |-> prediction.stage, displayed |-> prediction.influence.shown]
<1>1. prediction \in Call /\ row \in MLPredictions /\ predictions \in Seq(MLPredictions)
  BY DEF MaturityInv, MaturityTypes, Call, Influence, MLPredictions
<1>2. predictions' = Append(predictions, row)
  BY DEF LogsPrediction
<1>3. /\ prediction' \in Call /\ prediction'.at = "answered" /\ prediction'.p = prediction.p
      /\ prediction'.stage = prediction.stage /\ prediction'.influence = prediction.influence
  BY <1>1 DEF LogsPrediction, Call, CallSteps
<1>4. Allowed(prediction.influence, prediction.stage, prediction.p, prediction.influence.shown)
  BY DEF LogsPrediction, MaturityInv, CallIsAllowed
<1>5. row = [p |-> prediction'.p, stage |-> prediction'.stage, displayed |-> prediction'.influence.shown]
  BY <1>3
<1> HIDE DEF row
<1>6. /\ predictions' \in Seq(MLPredictions) /\ Len(predictions') = Len(predictions) + 1
      /\ predictions'[Len(predictions) + 1] = row
      /\ \A n \in 1 .. Len(predictions) : predictions'[n] = predictions[n]
  BY <1>1, <1>2
<1>7. CallIsAllowed'
  BY <1>1, <1>3, <1>4, <1>5, <1>6 DEF CallIsAllowed
<1>8. UNCHANGED <<maturity, liveMode, promotions, outcome>>
  BY DEF LogsPrediction, stageVars
<1>9. OutcomeIsAllowed'
  <2>1. outcome.row # 0 => predictions'[outcome.row] = predictions[outcome.row]
    BY <1>1, <1>6 DEF MaturityInv, OutcomeIsAllowed
  <2> QED
    BY <1>1, <1>6, <1>8, <2>1 DEF MaturityInv, OutcomeIsAllowed
<1> QED
  BY <1>3, <1>6, <1>7, <1>8, <1>9 DEF MaturityInv, MaturityTypes

(* The entry: what it did to the size is on the row it refers to.           *)
LEMMA DecideStep ==
  ASSUME MaturityInv, EntryDecides
  PROVE  MaturityInv'
<1>1. PICK sized \in SizedLots, throttled \in BOOLEAN :
        outcome' = [sized |-> sized, throttled |-> throttled, influence |-> prediction.influence,
                    lots |-> Resized(sized, throttled, prediction.influence),
                    row |-> IF prediction.at = "answered" THEN Len(predictions) ELSE 0]
  BY DEF EntryDecides
<1>2. prediction \in Call /\ predictions \in Seq(MLPredictions) /\ sized \in Nat /\ sized \in 0 .. MostLots
  BY MaturityAssumption DEF MaturityInv, MaturityTypes
<1>3. Resized(sized, throttled, prediction.influence) \in Int
  <2>1. ElevatedPct \in Int /\ prediction.influence.pct \in Int
    <3>1. ElevatedPct \in Int
      BY MaturityAssumption
    <3>2. prediction.influence \in Influence
      BY <1>2 DEF Call
    <3> QED
      BY <3>1, <3>2 DEF Influence
  <2> QED
    BY <1>2, <2>1 DEF Resized
<1> DEFINE lots == Resized(sized, throttled, prediction.influence)
<1> HIDE DEF lots
<1>4. /\ outcome'.influence = prediction.influence
      /\ outcome'.lots = Resized(outcome'.sized, outcome'.throttled, outcome'.influence)
      /\ outcome'.row = IF prediction.at = "answered" THEN Len(predictions) ELSE 0
  BY <1>1, Zenon
<1>5. outcome' \in Outcome
  <2>1. (IF prediction.at = "answered" THEN Len(predictions) ELSE 0) \in Nat
    BY <1>2
  <2>2. prediction.influence \in Influence
    BY <1>2 DEF Call
  <2> QED
    BY <1>1, <1>2, <1>3, <2>1, <2>2, Zenon DEF Outcome
<1>6. UNCHANGED <<maturity, liveMode, promotions, predictions>> /\ prediction' = NoCallYet
      /\ prediction.at \in {"answered", "raised"}
  BY DEF EntryDecides, stageVars
<1>7. prediction' \in Call /\ CallIsAllowed'
  BY <1>6, InertDoesNotAct DEF NoCallYet, Call, CallSteps, MaturityStages, CallIsAllowed
<1>8. OutcomeIsAllowed'
  <2>1. CASE prediction.at = "answered"
    <3> DEFINE why == predictions[Len(predictions)]
    <3>1. /\ Len(predictions) # 0
          /\ why = [p |-> prediction.p, stage |-> prediction.stage, displayed |-> prediction.influence.shown]
          /\ Allowed(prediction.influence, prediction.stage, prediction.p, prediction.influence.shown)
      BY <2>1 DEF MaturityInv, CallIsAllowed
    <3>2. why.p = prediction.p /\ why.stage = prediction.stage /\ why.displayed = prediction.influence.shown
      <4> HIDE DEF why
      <4> QED
        BY <3>1
    <3>3. Allowed(prediction.influence, why.stage, why.p, why.displayed)
      BY <3>1, <3>2, Zenon
    <3> HIDE DEF why
    <3>4. outcome'.row = Len(predictions)
      BY <1>4, <2>1
    <3> QED
      BY <1>2, <1>4, <1>6, <3>1, <3>3, <3>4 DEF OutcomeIsAllowed, why
  <2>2. CASE prediction.at = "raised"
    <3>1. ~Acts(prediction.influence)
      BY <2>2 DEF MaturityInv, CallIsAllowed
    <3> QED
      BY <1>2, <1>4, <1>6, <2>2, <3>1 DEF OutcomeIsAllowed
  <2> QED
    BY <1>6, <2>1, <2>2
<1> QED
  BY <1>5, <1>6, <1>7, <1>8 DEF MaturityInv, MaturityTypes

(* Types, and what a call and an outcome owe to the stage that was read.    *)
THEOREM MaturityInvariant == MaturitySpec => [](MaturityInv /\ MoversTyped)
<1>1. MaturityInv /\ MoversTyped /\ MaturityNext => MaturityInv'
  BY StageSteps, HookSteps, LogStep, DecideStep DEF MaturityNext
<1>2. MaturityInv /\ UNCHANGED maturityVars => MaturityInv'
  BY DEF maturityVars, MaturityInv, MaturityTypes, CallIsAllowed, OutcomeIsAllowed
<1>3. MaturityInv /\ MoversTyped /\ [MaturityNext]_maturityVars => MoversTyped'
  BY MoversStayTyped DEF MaturityInv, MaturityTypes
<1>4. MaturityInit => MoversTyped
  BY DEF MaturityInit, MoversTyped, NoMove, StageMoves, MaturityStages
<1> QED
  BY <1>1, <1>2, <1>3, <1>4, MaturityInvInit, PTL DEF MaturitySpec

(* An entry whose size a model changed (predict.py, cycle.py) refers to a   *)
(* row of ml_predictions that says why, however stage and mode move.        *)
THEOREM EffectHasItsRow == MaturitySpec => []EffectIsOnRecord
<1>1. MaturityInv => EffectIsOnRecord
  <2> SUFFICES ASSUME MaturityInv, outcome.lots # Resized(outcome.sized, outcome.throttled, Inert)
               PROVE  /\ outcome.row # 0
                      /\ LET why == predictions[outcome.row]
                         IN /\ why.stage \in {"gating", "live-gating"} /\ why.displayed
                            /\ why.p < 50 \/ (why.stage = "live-gating" /\ why.p < 100)
    BY DEF EffectIsOnRecord
  <2>1. Acts(outcome.influence)
    <3> SUFFICES ASSUME ~Acts(outcome.influence)
                 PROVE  outcome.lots = Resized(outcome.sized, outcome.throttled, Inert)
      OBVIOUS
    <3>1. outcome.influence.pct = 100 /\ ~outcome.influence.veto
      BY DEF Acts, MaturityInv, MaturityTypes, Outcome, Influence
    <3>2. Resized(outcome.sized, outcome.throttled, outcome.influence) =
            Resized(outcome.sized, outcome.throttled, Inert)
      BY <3>1 DEF Resized, Inert
    <3> QED
      BY <3>2 DEF MaturityInv, OutcomeIsAllowed
  <2>2. outcome.row # 0
    BY <2>1 DEF MaturityInv, OutcomeIsAllowed
  <2> QED
    BY <2>1, <2>2 DEF MaturityInv, OutcomeIsAllowed, Allowed
<1> QED
  BY <1>1, MaturityInvariant, PTL

Scaled(n, a, b) == (n * a * b) \div 10000

LEMMA LotsOfInv == MaturityInv => outcome.lots \in 0 .. outcome.sized /\ outcome.sized \in 0 .. MostLots
<1>1. ASSUME NEW n \in Nat, NEW a \in 0 .. 100, NEW b \in 0 .. 100
      PROVE  Scaled(n, a, b) \in 0 .. n
  <2>1. a * b \in Nat /\ a * b <= 10000
    <3>1. a * b \in Nat /\ a * b <= 100 * b
      BY SMT
    <3> QED
      BY <3>1
  <2> DEFINE m == a * b
  <2>2. n * a * b = n * m
    BY SMT
  <2> HIDE DEF m
  <2>3. m \in Nat /\ m <= 10000
    BY <2>1 DEF m
  <2>4. n * m \in Nat /\ n * m <= n * 10000
    BY <2>3, SMT
  <2> DEFINE x == n * m
  <2>5. x \in Nat /\ x <= n * 10000
    BY <2>4
  <2> HIDE DEF x
  <2>6. x \div 10000 \in 0 .. n
    BY <2>5
  <2> QED
    BY <2>2, <2>5, <2>6 DEF x, Scaled
<1>2. ASSUME MaturityInv PROVE outcome.lots \in 0 .. outcome.sized /\ outcome.sized \in 0 .. MostLots
  <2> USE <1>2
  <2>1. /\ outcome.sized \in Nat /\ outcome.sized \in 0 .. MostLots /\ outcome.influence.pct \in 0 .. 100
    <3>1. outcome \in Outcome
      BY DEF MaturityInv, MaturityTypes
    <3>2. outcome.influence \in Influence /\ outcome.sized \in 0 .. MostLots /\ outcome.sized \in Nat
      BY <3>1, MaturityAssumption DEF Outcome
    <3> QED
      BY <3>2 DEF Influence
  <2>2. CASE outcome.influence.veto = TRUE
    BY <2>1, <2>2 DEF MaturityInv, OutcomeIsAllowed, Resized
  <2>3. CASE outcome.influence.veto = FALSE
    <3> DEFINE t == IF outcome.throttled THEN ElevatedPct ELSE 100
    <3>1. outcome.lots = Scaled(outcome.sized, t, outcome.influence.pct)
      BY <2>3 DEF MaturityInv, OutcomeIsAllowed, Resized, Scaled
    <3> HIDE DEF t
    <3>2. t \in 0 .. 100
      BY MaturityAssumption DEF t
    <3> QED
      BY <1>1, <2>1, <3>1, <3>2
  <2>4. outcome.influence.veto \in BOOLEAN
    <3>1. outcome.influence \in Influence
      BY DEF MaturityInv, MaturityTypes, Outcome
    <3> QED
      BY <3>1 DEF Influence
  <2> QED
    BY <2>2, <2>3, <2>4
<1> QED
  BY <1>2

(* The throttle and the model (size multipliers of cycle.py) never make an  *)
(* entry larger than size_position made it.                                 *)
THEOREM ModelOnlyShrinks == MaturitySpec => []NeverLarger
<1>1. MaturityInv => NeverLarger
  <2> SUFFICES ASSUME MaturityInv PROVE outcome.lots <= outcome.sized
    BY DEF NeverLarger
  <2> QED
    BY LotsOfInv, MaturityAssumption
<1> QED
  BY <1>1, MaturityInvariant, PTL

(* Entered by one of the first n of these rows.                             *)
RowStage(rws, n) == IF n = 0 THEN "shadow" ELSE rws[n].to
Among(rws, s, n) == \E m \in 0 .. n : s = RowStage(rws, m)

(* What a call has read, a row entered before.                              *)
OnRecord(held, rws, logged, asked, moving) ==
  /\ held = RowStage(rws, Len(rws))
  /\ \A i \in DOMAIN rws : Among(rws, rws[i].from, i - 1)
  /\ \A i \in DOMAIN logged : Among(rws, logged[i].stage, Len(rws))
  /\ Among(rws, asked.stage, Len(rws))
  /\ \A c \in Callers : Among(rws, moving[c].from, Len(rws))

RecordInv == OnRecord(maturity, promotions, predictions, prediction, movers)

LEMMA RecordOfInv == RecordInv => StageIsOnRecord
BY DEF RecordInv, OnRecord, StageIsOnRecord, EnteredBy, StageAfter, Among, RowStage

(* More rows only enter more stages.                                        *)
LEMMA AmongMore ==
  ASSUME NEW rws \in Seq(ModelPromotions), NEW row \in ModelPromotions,
         NEW s, NEW n \in 0 .. Len(rws), Among(rws, s, n)
  PROVE  Among(Append(rws, row), s, n) /\ Among(Append(rws, row), s, Len(rws) + 1)
<1>1. Len(rws) \in Nat /\ \A i \in 1 .. Len(rws) : Append(rws, row)[i] = rws[i]
  OBVIOUS
<1>2. PICK m \in 0 .. n : s = RowStage(rws, m)
  BY DEF Among
<1>3. s = RowStage(Append(rws, row), m)
  BY <1>1, <1>2 DEF RowStage
<1> QED
  BY <1>1, <1>2, <1>3 DEF Among

(* A row more, of a stage read before it: the stage is the row's, and the   *)
(* mover is done.                                                           *)
LEMMA RowKeepsRecord ==
  ASSUME NEW held, NEW rws \in Seq(ModelPromotions), NEW logged, NEW asked, NEW moving, NEW after,
         NEW row \in ModelPromotions, OnRecord(held, rws, logged, asked, moving), Among(rws, row.from, Len(rws)),
         \A d \in Callers : after[d].from \in {moving[d].from, "shadow"}
  PROVE  OnRecord(row.to, Append(rws, row), logged, asked, after)
<1> DEFINE len == Len(rws)
           more == Append(rws, row)
<1>1. /\ len \in Nat /\ Len(more) = len + 1 /\ more[len + 1] = row /\ DOMAIN more = 1 .. len + 1
      /\ DOMAIN rws = 1 .. len /\ \A i \in 1 .. len : more[i] = rws[i]
  OBVIOUS
<1>2. \A s, n : n \in 0 .. len /\ Among(rws, s, n) => Among(more, s, n) /\ Among(more, s, len + 1)
  BY AmongMore
<1> HIDE DEF more
<1>3. len \in 0 .. len
  BY <1>1
<1>4. ASSUME NEW i \in DOMAIN more PROVE Among(more, more[i].from, i - 1)
  <2>1. CASE i = len + 1
    BY <1>1, <1>2, <1>3, <2>1
  <2>2. CASE i \in 1 .. len
    <3>1. i - 1 \in 0 .. len /\ Among(rws, rws[i].from, i - 1)
      BY <1>1, <2>2 DEF OnRecord
    <3> QED
      BY <1>1, <1>2, <2>2, <3>1
  <2> QED
    BY <1>1, <2>1, <2>2
<1>5. /\ \A i \in DOMAIN logged : Among(more, logged[i].stage, len + 1)
      /\ Among(more, asked.stage, len + 1)
  BY <1>2, <1>3 DEF OnRecord
<1>6. Among(more, "shadow", len + 1)
  BY <1>1 DEF Among, RowStage
<1>7. \A d \in Callers : Among(more, after[d].from, len + 1)
  BY <1>2, <1>3, <1>6 DEF OnRecord
<1>8. row.to = RowStage(more, len + 1)
  BY <1>1 DEF RowStage
<1> QED
  BY <1>1, <1>4, <1>5, <1>7, <1>8 DEF OnRecord, more

LEMMA WriteKeepsRecord ==
  ASSUME MaturityInv, MoversTyped, RecordInv, NEW c \in Callers, WriteStage(c)
  PROVE  RecordInv'
<1> DEFINE row == [from |-> movers[c].from, to |-> movers[c].to, gated |-> movers[c].gated]
<1>1. /\ promotions' = Append(promotions, row) /\ row.from = movers[c].from /\ row.to = movers[c].to
      /\ maturity' = movers[c].to /\ movers' = [movers EXCEPT ![c] = NoMove]
      /\ UNCHANGED <<prediction, predictions>>
  BY DEF WriteStage, hookVars
<1>2. row \in ModelPromotions /\ promotions \in Seq(ModelPromotions)
  BY DEF MaturityInv, MaturityTypes, MoversTyped, StageMoves, ModelPromotions
<1> HIDE DEF row
<1>3. \A d \in Callers : movers'[d].from \in {movers[d].from, "shadow"}
  BY <1>1 DEF MoversTyped, NoMove
<1>4. Among(promotions, row.from, Len(promotions))
  BY <1>1 DEF RecordInv, OnRecord
<1>5. OnRecord(row.to, Append(promotions, row), predictions, prediction, movers')
  BY <1>2, <1>3, <1>4, RowKeepsRecord DEF RecordInv
<1> QED
  BY <1>1, <1>5 DEF RecordInv

(* A step that writes no row: what it reads, the last row entered.          *)
LEMMA OthersKeepRecord ==
  ASSUME MaturityInv, MoversTyped, RecordInv, [MaturityNext]_maturityVars, ~(\E c \in Callers : WriteStage(c))
  PROVE  RecordInv'
<1>1. UNCHANGED <<promotions, maturity>>
  BY DEF MaturityNext, MovesStage, ByHand, ScriptChecks, ScriptReads, ScriptPromotes, BeginMove, MoverDies, SwitchMode,
     maturityVars, stageVars, Predicts, ReadsMaturity, Influences, LogsPrediction, HookRaises, EntryDecides
<1>2. promotions \in Seq(ModelPromotions) /\ predictions \in Seq(MLPredictions) /\ prediction \in Call
  BY DEF MaturityInv, MaturityTypes
<1> DEFINE len == Len(promotions)
           there(s) == Among(promotions, s, len)
<1>3. there(maturity) /\ there("shadow") /\ there(prediction.stage)
  BY <1>2 DEF RecordInv, OnRecord, Among, RowStage
<1>4. prediction'.stage \in {prediction.stage, maturity, "shadow"}
  <2>1. CASE Predicts \/ EntryDecides
    <3>1. CASE Predicts
      <4>1. PICK p : prediction' = [NoCallYet EXCEPT !.at = "stage", !.p = p]
        BY <3>1 DEF Predicts
      <4> QED
        BY <4>1 DEF NoCallYet
    <3>2. CASE EntryDecides
      BY <3>2 DEF EntryDecides, NoCallYet
    <3> QED
      BY <2>1, <3>1, <3>2
  <2>2. CASE ReadsMaturity \/ Influences \/ LogsPrediction \/ HookRaises
    BY <1>2, <2>2 DEF ReadsMaturity, Influences, LogsPrediction, HookRaises, Call
  <2>3. CASE UNCHANGED prediction
    BY <2>3
  <2> QED
    BY <2>1, <2>2, <2>3 DEF MaturityNext, MovesStage, ByHand, ScriptChecks, ScriptReads, ScriptPromotes, MoverDies,
       SwitchMode, maturityVars, hookVars
<1>5. ASSUME NEW i \in DOMAIN predictions' PROVE there(predictions'[i].stage)
  <2>1. CASE LogsPrediction
    <3> DEFINE row == [p |-> prediction.p, stage |-> prediction.stage, displayed |-> prediction.influence.shown]
    <3>1. predictions' = Append(predictions, row) /\ row.stage = prediction.stage
      BY <2>1 DEF LogsPrediction
    <3> HIDE DEF row
    <3>2. predictions'[i].stage = IF i \in DOMAIN predictions THEN predictions[i].stage ELSE prediction.stage
      BY <1>2, <1>5, <3>1
    <3> QED
      BY <1>3, <3>2 DEF RecordInv, OnRecord
  <2>2. CASE ~LogsPrediction
    <3>1. predictions' = predictions
      BY <2>2 DEF MaturityNext, MovesStage, ByHand, ScriptChecks, ScriptReads, ScriptPromotes, MoverDies,
         SwitchMode, maturityVars, hookVars, Predicts, ReadsMaturity, Influences, HookRaises, EntryDecides
    <3> QED
      BY <1>5, <3>1 DEF RecordInv, OnRecord
  <2> QED
    BY <2>1, <2>2
<1>6. ASSUME NEW d \in Callers PROVE movers'[d].from \in {movers[d].from, maturity, "shadow"}
  <2>1. CASE \E c \in Callers : MovesStage(c)
    <3>1. PICK c \in Callers : MovesStage(c)
      BY <2>1
    <3>2. CASE ByHand(c) \/ ScriptPromotes(c)
      <4>1. PICK to, gated : BeginMove(c, to, gated)
        BY <3>2 DEF ByHand, ScriptPromotes
      <4> QED
        BY <4>1 DEF BeginMove, MoversTyped
    <3>3. CASE ScriptChecks(c) \/ ScriptReads(c)
      <4>1. PICK at : movers' = [movers EXCEPT ![c].at = at]
        BY <3>3 DEF ScriptChecks, ScriptReads
      <4> QED
        BY <4>1 DEF MoversTyped, StageMoves
    <3>4. CASE MoverDies(c)
      BY <3>4 DEF MoverDies, NoMove, MoversTyped
    <3> QED
      BY <3>1, <3>2, <3>3, <3>4 DEF MovesStage
  <2>2. CASE UNCHANGED movers
    BY <2>2
  <2> QED
    BY <2>1, <2>2 DEF MaturityNext, maturityVars, stageVars, SwitchMode, Predicts, ReadsMaturity, Influences,
       LogsPrediction, HookRaises, EntryDecides
<1>7. \A d \in Callers : there(movers'[d].from)
  BY <1>3, <1>6 DEF RecordInv, OnRecord
<1>8. there(prediction'.stage)
  BY <1>3, <1>4
<1>9. OnRecord(maturity, promotions, predictions', prediction', movers')
  BY <1>5, <1>7, <1>8 DEF RecordInv, OnRecord
<1> QED
  BY <1>1, <1>9 DEF RecordInv

(* The stage is the last row's (set_stage writes both at once), and what a  *)
(* row left or a prediction was logged under was entered by an earlier row, *)
(* however many calls read before one another's writes.                     *)
THEOREM StageHasItsRow == MaturitySpec => []StageIsOnRecord
<1>1. MaturityInit => RecordInv
  BY DEF MaturityInit, RecordInv, OnRecord, Among, RowStage, NoMove, NoCallYet
<1>2. MaturityInv /\ MoversTyped /\ RecordInv /\ [MaturityNext]_maturityVars => RecordInv'
  BY WriteKeepsRecord, OthersKeepRecord
<1>3. RecordInv => StageIsOnRecord
  BY RecordOfInv
<1> QED
  BY <1>1, <1>2, <1>3, MaturityInvariant, PTL DEF MaturitySpec

-----------------------------------------------------------------------------

(* A set of numbers has a least one.                                        *)
LEMMA LeastElement ==
  ASSUME NEW T \in SUBSET Nat, T # {}
  PROVE  \E x \in T : \A y \in T : x <= y
<1> DEFINE Less == {ss \in Nat \X Nat : ss[1] < ss[2]}
<1>1. IsWellFoundedOn(Less, Nat)
  BY NatLessThanWellFounded DEF OpToRel
<1> HIDE DEF Less
<1>2. PICK x \in T : \A y \in T : ~ (<<y, x>> \in Less)
  BY <1>1, WFMin
<1>3. \A y \in T : ~ (y < x)
  BY <1>2 DEF Less
<1> QED
  BY <1>3

LEMMA GreatestElement ==
  ASSUME NEW n \in Nat, NEW T \in SUBSET (0 .. n), T # {}
  PROVE  \E x \in T : \A y \in T : y <= x
<1> DEFINE left == {n - y : y \in T}
<1>1. left \in SUBSET Nat /\ left # {}
  <2>1. \A y \in T : n - y \in Nat
    OBVIOUS
  <2> QED
    BY <2>1
<1> HIDE DEF left
<1>2. PICK least \in left : \A y \in left : least <= y
  BY <1>1, LeastElement
<1> USE DEF left
<1>3. PICK x \in T : least = n - x
  OBVIOUS
<1>4. \A y \in T : n - x <= n - y
  BY <1>2, <1>3
<1> QED
  BY <1>4

(* gates.py, predict.py, cycle.py: all of it together.                      *)
THEOREM InfluenceStaysEarned == MaturitySpec => []InfluenceIsEarned
<1>1. ASSUME MaturityInv, MoversTyped PROVE MaturityTypeOK
  <2>1. outcome.lots \in 0 .. MostLots
    <3>1. MostLots \in Nat
      BY MaturityAssumption
    <3>2. outcome.lots \in 0 .. outcome.sized /\ outcome.sized \in 0 .. MostLots
      BY <1>1, LotsOfInv
    <3> QED
      BY <3>1, <3>2
  <2>2. prediction.stage \in MaturityStages
    BY <1>1 DEF MaturityInv, MaturityTypes, Call
  <2> QED
    BY <1>1, <2>1, <2>2 DEF MaturityInv, MaturityTypes, MaturityTypeOK, MaturityState, MoversTyped
<1> QED
  BY <1>1, MaturityInvariant, EffectHasItsRow, ModelOnlyShrinks, StageHasItsRow, PTL DEF InfluenceIsEarned

-----------------------------------------------------------------------------
(* Contracts.                                                               *)

(* A cached chain is the broker's list of the day in its key; a row has the *)
(* lot the broker gave on its day, and the newest rows of an underlying     *)
(* have the last it gave.                                                   *)
ChainsAreListed == \A key \in DOMAIN chains : chains[key] = Listed(key[1], key[2])
RowsAreGiven ==
  \A r \in rows : /\ r.under \in Underlyings /\ r.symbol[1] = r.under
                  /\ r.at \in 1 .. today /\ r.lot = LotAt(r.under, r.at)
NewestRow(r, u) == r \in rows /\ r.under = u /\ \A s \in rows : s.under = u => s.at <= r.at
NewestIsTold ==
  \A u \in Underlyings : (\E r \in rows : r.under = u) => \E r \in rows : NewestRow(r, u) /\ told[u] = LotAt(u, r.at)

ContractInv ==
  /\ today \in 1 .. LastDay /\ saved \subseteq InstrumentSelection /\ told \in [Underlyings -> Nat]
  /\ ChainsAreListed /\ OfTodaysChain /\ RowsAreGiven /\ NewestIsTold /\ ControlNeverTrades

LEMMA LotAtType == \A u \in Underlyings, day \in Nat \ {0} : LotAt(u, day) \in Nat \ {0}
<1> SUFFICES ASSUME NEW u \in Underlyings, NEW day \in Nat \ {0} PROVE LotAt(u, day) \in Nat \ {0}
  OBVIOUS
<1> DEFINE S == {row \in BrokerLots : row.under = u /\ row.from <= day}
           T == {day - row.from : row \in S}
<1>0. BrokerLots \subseteq [under : Underlyings, from : Nat, lot : Nat \ {0}]
  BY ContractAssumption DEF LotsAreUsable
<1>1. PICK first \in BrokerLots : first.under = u /\ first.from <= 1
  BY ContractAssumption DEF LotsAreUsable
<1>2. first \in S
  BY <1>0, <1>1
<1>3. \A row \in S : row.from \in Nat /\ day - row.from \in Nat
  BY <1>0
<1>4. T \in SUBSET Nat /\ T # {}
  BY <1>2, <1>3
<1>5. PICK x \in T : \A y \in T : x <= y
  BY <1>4, LeastElement
<1>6. PICK latest \in S : x = day - latest.from
  BY <1>5
<1>7. \A other \in S : other.from <= latest.from
  <2> TAKE other \in S
  <2>1. day - latest.from <= day - other.from
    BY <1>5, <1>6
  <2> QED
    BY <1>3, <2>1
<1>8. \E row \in BrokerLots : row.under = u /\ row.from <= day /\
        \A other \in BrokerLots : other.under = u /\ other.from <= day => other.from <= row.from
  BY <1>7
<1> DEFINE chosen == CHOOSE row \in BrokerLots : row.under = u /\ row.from <= day /\
        \A other \in BrokerLots : other.under = u /\ other.from <= day => other.from <= row.from
<1>9. chosen \in BrokerLots
  <2> HIDE <1>0, <1>1, <1>2, <1>3, <1>4, <1>5, <1>6, <1>7
  <2> QED
    BY <1>8, Zenon
<1>10. LotAt(u, day) = chosen.lot
  BY Zenon DEF LotAt
<1> HIDE DEF chosen
<1> QED
  BY <1>0, <1>9, <1>10

(* Whether an underlying is chosen or not, its selection is one.            *)
LEMMA ChoiceType ==
  ASSUME NEW u \in Underlyings, NEW lot \in Nat, NEW active
  PROVE  [under |-> u, lot |-> lot, active |-> u \in active] \in InstrumentSelection
<1> DEFINE chosen == u \in active
<1>1. chosen \in BOOLEAN
  OBVIOUS
<1> HIDE DEF chosen
<1>2. [under |-> u, lot |-> lot, active |-> chosen] \in InstrumentSelection
  BY <1>1 DEF InstrumentSelection
<1> QED
  BY <1>2 DEF chosen

LEMMA ContractInvInit == ContractInit => ContractInv
<1> SUFFICES ASSUME ContractInit PROVE ContractInv
  OBVIOUS
<1>1. /\ today = 1 /\ chains = <<>> /\ rows = {} /\ saved = {} /\ enabled = NothingStored
      /\ resolved = Nothing /\ band = {} /\ told = [u \in Underlyings |-> 0]
  BY DEF ContractInit
<1>2. ControlNeverTrades
  BY <1>1, ContractAssumption DEF ControlNeverTrades, EnabledStrategies, DefaultTrades
<1>3. OfTodaysChain
  BY <1>1 DEF OfTodaysChain
<1>4. today \in 1 .. LastDay
  BY <1>1, ContractAssumption
<1>5. ChainsAreListed
  BY <1>1 DEF ChainsAreListed
<1> QED
  BY <1>1, <1>2, <1>3, <1>4, <1>5 DEF ContractInv, RowsAreGiven, NewestIsTold

(* A sync: the rows of the underlyings it reached are the newest.           *)
LEMMA SyncKeepsInv == ContractInv /\ Sync => ContractInv'
<1> SUFFICES ASSUME ContractInv, Sync PROVE ContractInv'
  OBVIOUS
<1> DEFINE Row(u) == [symbol |-> <<u, NextMonthly(u, today)>>, under |-> u, lot |-> LotAt(u, today), at |-> today]
<1>1. PICK reached \in SUBSET Underlyings :
        /\ rows' = Upserted({Row(u) : u \in reached})
        /\ told' = [u \in Underlyings |-> IF u \in reached THEN LotAt(u, today) ELSE told[u]]
        /\ UNCHANGED <<today, chains, saved, enabled, resolved, band>>
  BY DEF Sync
<1>0. today \in Nat \ {0} /\ today \in 1 .. today
  BY ContractAssumption DEF ContractInv
<1>2. \A u \in Underlyings : /\ Row(u).symbol[1] = u /\ Row(u).under = u
                            /\ Row(u).at = today /\ Row(u).lot = LotAt(u, today)
  OBVIOUS
<1> HIDE DEF Row
<1>3. \A r \in rows' : r \in rows \/ \E u \in reached : r = Row(u)
  BY <1>1 DEF Upserted
<1>4. \A u \in reached : Row(u) \in rows'
  BY <1>1 DEF Upserted
<1>5. \A r \in rows : r.under \notin reached => r \in rows'
  <2> SUFFICES ASSUME NEW r \in rows, r.under \notin reached PROVE r \in rows'
    OBVIOUS
  <2>1. r.symbol[1] = r.under
    BY DEF ContractInv, RowsAreGiven
  <2>2. r.symbol \notin {row.symbol : row \in {Row(u) : u \in reached}}
    BY <1>2, <2>1
  <2> QED
    BY <1>1, <2>2 DEF Upserted
<1>6. told' \in [Underlyings -> Nat]
  BY <1>0, <1>1, LotAtType DEF ContractInv
<1>7. RowsAreGiven'
  BY <1>0, <1>1, <1>2, <1>3 DEF ContractInv, RowsAreGiven
<1>8. NewestIsTold'
  <2> SUFFICES ASSUME NEW u \in Underlyings, \E r \in rows' : r.under = u
               PROVE  \E r \in rows' : NewestRow(r, u)' /\ told'[u] = LotAt(u, r.at)
    BY DEF NewestIsTold
  <2>1. CASE u \in reached
    <3>1. \A s \in rows' : s.at <= today
      BY <1>0, <1>1, <1>7 DEF RowsAreGiven
    <3> QED
      BY <1>1, <1>2, <1>4, <2>1, <3>1 DEF NewestRow
  <2>2. CASE u \notin reached
    <3>1. \A r \in rows' : r.under = u => r \in rows
      BY <1>2, <1>3, <2>2
    <3>2. PICK r \in rows : NewestRow(r, u) /\ told[u] = LotAt(u, r.at)
      BY <3>1 DEF ContractInv, NewestIsTold
    <3>3. NewestRow(r, u)' /\ r \in rows' /\ told'[u] = told[u]
      BY <1>1, <1>5, <2>2, <3>1, <3>2 DEF NewestRow
    <3> QED
      BY <3>2, <3>3
  <2> QED
    BY <2>1, <2>2
<1>9. ChainsAreListed' /\ OfTodaysChain' /\ ControlNeverTrades'
  BY <1>1 DEF ContractInv, ChainsAreListed, OfTodaysChain, ControlNeverTrades, EnabledStrategies
<1> QED
  BY <1>1, <1>6, <1>7, <1>8, <1>9 DEF ContractInv

(* What a chain is, cached or asked for, unless the broker said nothing.    *)
LEMMA ChainIsTodays ==
  ASSUME ContractInv, NEW u \in Underlyings, NEW answer \in {Listed(u, today), {}}, Chain(u, answer) # {}
  PROVE  Chain(u, answer) = Listed(u, today)
<1>1. ChainKey(u) \in DOMAIN chains => chains[ChainKey(u)] = Listed(u, today)
  BY DEF ContractInv, ChainsAreListed, ChainKey
<1> QED
  BY <1>1 DEF Chain

LEMMA ResolveKeepsInv == ContractInv /\ Resolve => ContractInv'
<1> SUFFICES ASSUME ContractInv, Resolve PROVE ContractInv'
  OBVIOUS
<1>0. PICK sel \in Selections : \E answer \in {Listed(sel.under, today), {}} :
        /\ chains' = Kept(sel.under, answer)
        /\ resolved' \in IF Chain(sel.under, answer) = {} THEN {Nothing}
                        ELSE {Contract(sel, Min(Chain(sel.under, answer)), strike, q) :
                                strike \in Strikes \cup {0}, q \in Quotes}
  BY DEF Resolve, Refused
<1>1. PICK answer \in {Listed(sel.under, today), {}} :
        /\ chains' = Kept(sel.under, answer)
        /\ Chain(sel.under, answer) = {} => resolved' = Nothing
        /\ Chain(sel.under, answer) # {} =>
             \E strike \in Strikes \cup {0}, q \in Quotes :
               resolved' = Contract(sel, Min(Chain(sel.under, answer)), strike, q)
  BY <1>0
<1>2. UNCHANGED <<today, rows, saved, enabled, band, told>>
  BY DEF Resolve
<1> DEFINE u == sel.under
<1>3. u \in Underlyings
  <2>1. \A s \in saved \cup Seeds : s.under \in Underlyings
    BY DEF ContractInv, InstrumentSelection, Seeds
  <2>2. \A s \in saved \cup Seeds : WithRealLot(s).under = s.under
    BY DEF WithRealLot, InstrumentSelection, Seeds, ContractInv
  <2> QED
    BY <2>1, <2>2 DEF Selections
<1>4. ChainsAreListed'
  <2>1. CASE answer = {}
    BY <1>1, <2>1 DEF Kept, ContractInv, ChainsAreListed
  <2>2. CASE answer # {}
    <3>1. chains' = [key \in DOMAIN chains \cup {ChainKey(u)} |->
                       IF key \in DOMAIN chains THEN chains[key] ELSE Listed(u, today)]
      BY <1>1, <2>2, Zenon DEF Kept
    <3>2. \A key \in DOMAIN chains' :
            chains'[key] = IF key \in DOMAIN chains THEN chains[key] ELSE Listed(u, today)
      BY <3>1
    <3>3. \A key \in DOMAIN chains' : key \in DOMAIN chains \/ key = ChainKey(u)
      BY <3>1
    <3> QED
      BY <3>2, <3>3 DEF ChainKey, ContractInv, ChainsAreListed
  <2> QED
    BY <2>1, <2>2
<1>5. OfTodaysChain'
  <2>1. ASSUME resolved' # Nothing PROVE resolved'.symbol[2] = Min(Listed(resolved'.symbol[1], today))
    <3>1. Chain(u, answer) # {}
      BY <1>1, <2>1
    <3>2. Chain(u, answer) = Listed(u, today)
      BY <1>3, <3>1, ChainIsTodays
    <3>3. PICK strike \in Strikes \cup {0}, q \in Quotes : resolved' = Contract(sel, Min(Listed(u, today)), strike, q)
      BY <1>1, <3>1, <3>2
    <3> DEFINE e == Min(Listed(u, today))
               c == CHOOSE c \in OptionSymbol(u, e, strike) : TRUE
    <3>4. resolved'.symbol = c /\ OptionSymbol(u, e, strike) # Refused
      BY <2>1, <3>3 DEF Contract
    <3>5. OptionSymbol(u, e, strike) = {<<u, e, strike>>}
      BY <3>4, Zenon DEF OptionSymbol
    <3>6. c = <<u, e, strike>>
      BY <3>5, Zenon
    <3> HIDE DEF c, e, u
    <3>7. resolved'.symbol[1] = u /\ resolved'.symbol[2] = e
      BY <3>4, <3>6
    <3> QED
      BY <3>7, Zenon DEF e
  <2> QED
    BY <1>2, <2>1 DEF OfTodaysChain, ContractInv
<1> QED
  BY <1>2, <1>4, <1>5 DEF ContractInv, RowsAreGiven, NewestIsTold, NewestRow, ControlNeverTrades, EnabledStrategies

LEMMA RecordKeepsInv == ContractInv /\ Record => ContractInv'
<1> SUFFICES ASSUME ContractInv, Record PROVE ContractInv'
  OBVIOUS
<1>1. PICK reached \in SUBSET Underlyings :
        LET AnswerFor(u) == IF u \in reached THEN Listed(u, today) ELSE {}
            with == {u \in Underlyings : Chain(u, AnswerFor(u)) # {}}
            new == {u \in reached : Listed(u, today) # {}}
        IN /\ chains' = [key \in DOMAIN chains \cup {ChainKey(u) : u \in new} |->
                            IF key \in DOMAIN chains THEN chains[key] ELSE Listed(key[1], today)]
           /\ band' \in {UNION {StrikeBand(u, Chain(u, AnswerFor(u)), answered) : u \in with} :
                          answered \in SUBSET (Strikes \cup {0})}
           /\ UNCHANGED <<today, rows, saved, enabled, resolved, told>>
  BY Zenon DEF Record
<1> DEFINE AnswerFor(u) == IF u \in reached THEN Listed(u, today) ELSE {}
           with == {u \in Underlyings : Chain(u, AnswerFor(u)) # {}}
           new == {u \in reached : Listed(u, today) # {}}
           keys == {ChainKey(u) : u \in new}
<1>2. UNCHANGED <<today, rows, saved, enabled, resolved, told>>
  BY <1>1, Zenon
<1>3. ChainsAreListed'
  <2>1. chains' = [key \in DOMAIN chains \cup keys |->
                     IF key \in DOMAIN chains THEN chains[key] ELSE Listed(key[1], today)]
    BY <1>1, Zenon
  <2>2. \A key \in keys : key[2] = today
    BY DEF ChainKey
  <2> HIDE DEF keys
  <2>3. \A key \in DOMAIN chains' :
          /\ key \in DOMAIN chains \/ key \in keys
          /\ chains'[key] = IF key \in DOMAIN chains THEN chains[key] ELSE Listed(key[1], today)
    BY <2>1
  <2> QED
    BY <2>2, <2>3 DEF ContractInv, ChainsAreListed
<1>4. PICK answered \in SUBSET (Strikes \cup {0}) :
        band' = UNION {StrikeBand(u, Chain(u, AnswerFor(u)), answered) : u \in with}
  BY <1>1, Zenon
<1>5. ASSUME NEW symbol \in band' PROVE symbol[2] = Min(Listed(symbol[1], today))
  <2>1. PICK u \in with : symbol \in StrikeBand(u, Chain(u, AnswerFor(u)), answered)
    BY <1>4, Zenon
  <2>2. Chain(u, AnswerFor(u)) = Listed(u, today)
    <3>1. AnswerFor(u) \in {Listed(u, today), {}}
      OBVIOUS
    <3>2. u \in Underlyings /\ Chain(u, AnswerFor(u)) # {}
      BY <2>1
    <3> HIDE DEF AnswerFor
    <3> QED
      BY <3>1, <3>2, ChainIsTodays
  <2> DEFINE e == Min(Listed(u, today))
  <2>3. PICK strike \in answered : symbol \in OptionSymbol(u, e, strike)
    BY <2>1, <2>2, Zenon DEF StrikeBand
  <2> HIDE DEF e
  <2>4. symbol = <<u, e, strike>>
    BY <2>3, Zenon DEF OptionSymbol, Refused
  <2>5. symbol[1] = u /\ symbol[2] = e
    BY <2>4
  <2> QED
    BY <2>5, Zenon DEF e
<1>6. OfTodaysChain'
  BY <1>2, <1>5 DEF OfTodaysChain, ContractInv
<1> QED
  BY <1>2, <1>3, <1>6 DEF ContractInv, RowsAreGiven, NewestIsTold, NewestRow, ControlNeverTrades, EnabledStrategies

LEMMA ContractInvNext == ContractInv /\ [ContractNext]_contractVars => ContractInv'
<1> SUFFICES ASSUME ContractInv, [ContractNext]_contractVars PROVE ContractInv'
  OBVIOUS
<1>1. CASE Select
  <2>1. saved' \subseteq InstrumentSelection
    <3>1. PICK active \in SUBSET Underlyings, lot \in {0, SeedLot} :
            saved' = IF lot <= 0 THEN saved
                     ELSE {[under |-> u, lot |-> lot, active |-> u \in active] : u \in Underlyings}
      BY <1>1 DEF Select
    <3>2. lot \in Nat
      BY ContractAssumption
    <3>3. \A u \in Underlyings : [under |-> u, lot |-> lot, active |-> u \in active] \in InstrumentSelection
      BY <3>2, ChoiceType
    <3> QED
      BY <3>1, <3>3 DEF ContractInv
  <2>2. UNCHANGED <<today, chains, rows, enabled, resolved, band, told>>
    BY <1>1 DEF Select
  <2> QED
    BY <2>1, <2>2
       DEF ContractInv, ChainsAreListed, OfTodaysChain, RowsAreGiven, NewestIsTold, NewestRow, ControlNeverTrades, EnabledStrategies
<1>2. CASE Toggle
  <2>1. UNCHANGED <<today, chains, rows, saved, resolved, band, told>>
    BY <1>2 DEF Toggle
  <2>2. ControlNeverTrades'
    <3>1. EnabledStrategies \subseteq Tradeable
      BY DEF ContractInv, ControlNeverTrades
    <3>2. enabled' = enabled \/ enabled' \subseteq Tradeable
      BY <1>2, <3>1 DEF Toggle
    <3>3. enabled' \subseteq Tradeable => EnabledStrategies' \subseteq Tradeable
      BY ContractAssumption DEF EnabledStrategies, DefaultTrades
    <3> QED
      BY <3>1, <3>2, <3>3 DEF ControlNeverTrades, EnabledStrategies
  <2> QED
    BY <2>1, <2>2 DEF ContractInv, ChainsAreListed, OfTodaysChain, RowsAreGiven, NewestIsTold, NewestRow
<1>3. CASE Restart \/ NextDay
  <2>1. /\ chains' = chains \/ chains' = <<>>
        /\ resolved' = Nothing /\ band' = {} /\ UNCHANGED <<rows, saved, enabled, told>>
    BY <1>3 DEF Restart, NextDay
  <2>2. today' \in 1 .. LastDay /\ today' >= today /\ today \in 1 .. LastDay
    BY <1>3, ContractAssumption DEF Restart, NextDay, ContractInv
  <2>3. RowsAreGiven'
    BY <2>1, <2>2 DEF ContractInv, RowsAreGiven
  <2>4. ChainsAreListed' /\ OfTodaysChain'
    BY <2>1 DEF ContractInv, ChainsAreListed, OfTodaysChain
  <2> QED
    BY <2>1, <2>2, <2>3, <2>4 DEF ContractInv, NewestIsTold, NewestRow, ControlNeverTrades, EnabledStrategies
<1>4. CASE UNCHANGED contractVars
  BY <1>4 DEF contractVars, ContractInv, ChainsAreListed, OfTodaysChain, RowsAreGiven, NewestIsTold, NewestRow,
              ControlNeverTrades, EnabledStrategies
<1> QED
  BY <1>1, <1>2, <1>3, <1>4, SyncKeepsInv, ResolveKeepsInv, RecordKeepsInv DEF ContractNext

(* What is read of the rows is the lot of one of the newest.                *)
LEMMA LatestLotIsTold ==
  ASSUME ContractInv, NEW u \in Underlyings, LatestLot(u) # 0
  PROVE  LatestLot(u) = told[u] /\ LatestLot(u) \in Nat \ {0}
<1> DEFINE mine == {r \in rows : r.under = u}
<1>1. mine # {} /\ LatestLot(u) = (CHOOSE r \in mine : \A s \in mine : s.at <= r.at).lot
  BY DEF LatestLot
<1>2. PICK r \in rows : NewestRow(r, u) /\ told[u] = LotAt(u, r.at)
  BY <1>1 DEF ContractInv, NewestIsTold
<1>3. \E q \in mine : \A s \in mine : s.at <= q.at
  BY <1>2 DEF NewestRow
<1> DEFINE c == CHOOSE q \in mine : \A s \in mine : s.at <= q.at
<1>4. c \in mine /\ \A s \in mine : s.at <= c.at
  BY <1>3, Zenon
<1> HIDE DEF c
<1>5. r \in mine
  BY <1>2 DEF NewestRow
<1>6. /\ c.at \in Nat \ {0} /\ c.lot = LotAt(u, c.at) /\ r.at \in Nat
  BY <1>4, <1>5, ContractAssumption DEF ContractInv, RowsAreGiven
<1>7. c.at = r.at
  BY <1>2, <1>4, <1>5, <1>6 DEF NewestRow
<1>8. LatestLot(u) = LotAt(u, c.at)
  BY <1>1, <1>6 DEF c
<1> QED
  BY <1>2, <1>6, <1>7, <1>8, LotAtType

LEMMA SelectionsAreConfirmed ==
  ASSUME ContractInv
  PROVE  LotIsConfirmed /\ Selections \subseteq InstrumentSelection
<1>1. ASSUME NEW s \in saved \cup Seeds
      PROVE  /\ WithRealLot(s) \in InstrumentSelection
             /\ WithRealLot(s).active => WithRealLot(s).lot = told[WithRealLot(s).under] /\ WithRealLot(s).lot > 0
  <2>1. s \in InstrumentSelection
    <3>1. SeedLot \in Nat
      BY ContractAssumption
    <3>2. Seeds \subseteq InstrumentSelection
      BY <3>1, ChoiceType DEF Seeds
    <3> QED
      BY <3>2 DEF ContractInv
  <2>2. CASE LatestLot(s.under) # 0
    <3>1. s.under \in Underlyings
      BY <2>1 DEF InstrumentSelection
    <3>2. LatestLot(s.under) = told[s.under] /\ LatestLot(s.under) \in Nat \ {0}
      BY <2>2, <3>1, LatestLotIsTold
    <3>3. WithRealLot(s) = [s EXCEPT !.lot = LatestLot(s.under)]
      BY <2>2 DEF WithRealLot
    <3> HIDE DEF LatestLot
    <3> QED
      BY <2>1, <3>2, <3>3 DEF InstrumentSelection
  <2>3. CASE LatestLot(s.under) = 0
    <3>1. WithRealLot(s) = [s EXCEPT !.active = FALSE]
      BY <2>3 DEF WithRealLot
    <3> QED
      BY <2>1, <3>1 DEF InstrumentSelection
  <2> QED
    BY <2>2, <2>3
<1>2. \A sel \in Selections : \E s \in saved \cup Seeds : sel = WithRealLot(s)
  BY DEF Selections
<1> QED
  BY <1>1, <1>2 DEF LotIsConfirmed

(* What is traded is of the nearest expiry the broker lists that day, on    *)
(* the last lot size the broker gave, and never by the control: for any     *)
(* expiries, lots, answers, selections, restarts and days.                  *)
THEOREM WhatIsTradedIsConfirmed == ContractSpec => []TradedIsConfirmed
<1>1. ContractInv => TradedIsConfirmed
  BY SelectionsAreConfirmed DEF ContractInv, TradedIsConfirmed, ContractTypeOK
<1> QED
  BY <1>1, ContractInvInit, ContractInvNext, PTL DEF ContractSpec

-----------------------------------------------------------------------------
(* Archive.                                                                 *)

(* What every row came from, and of what file the loader holds.             *)
LoaderSteps == {"idle", "read", "append", "record"}
LoaderTypes ==
  /\ loader.file \in 0 .. Len(Inner) /\ loader.step \in LoaderSteps
  /\ loader = [file |-> loader.file, step |-> loader.step, todo |-> loader.todo, done |-> loader.done]
  /\ loader.step = "idle" => loader = NotLoading
  /\ loader.step # "idle" => loader.file \in DOMAIN Inner
Comes(b) ==
  /\ b.source \in {"archive", "live", "history"} /\ b.minute \in Int /\ b.known = b.minute + 1
  /\ b.source = "archive" => \E i \in DOMAIN Inner : b \in FrameOf(Inner[i])
  /\ b.source = "live" => b.symbol = Index /\ b.minute >= Cutoff
LiveRows == {b \in DOMAIN stored : b.source = "live"}
StoreIsOfRows ==
  /\ stored \in [DOMAIN stored -> Nat \ {0}] /\ IsFiniteSet(LiveRows)
  /\ \A b \in DOMAIN stored : Comes(b)

(* A key that is in the manifest, or that the loader takes for done, has    *)
(* all its rows; the file in hand is not done, and has the rows of the      *)
(* months it no longer has to write.                                        *)
Backed(key) == \A i \in DOMAIN Inner : Inner[i].key = key => FrameOf(Inner[i]) \subseteq DOMAIN stored
Recorded == Range(manifest) \ {Unreadable}
Held(b) == loader.step \in {"append", "record"} /\ b \in FrameOf(File) /\ b.minute \div Month \notin loader.todo
InHand ==
  loader.step \in {"append", "record"} =>
    /\ File.key \notin loader.done
    /\ \A b \in FrameOf(File) : Held(b) => b \in DOMAIN stored
Todo ==
  /\ loader.step = "append" => loader.todo # {}
  /\ loader.step # "append" => loader.todo = {}
  /\ loader.todo \subseteq Nat
LoaderKnows ==
  /\ \A key \in Recorded \cup loader.done : Backed(key)
  /\ loader.step # "idle" => Recorded \subseteq loader.done

(* A row was written once for each file recorded, once for the one in hand  *)
(* and twice for each kill, one of them still to come while a line is torn. *)
RecordedWith(b) == {i \in FilesWith(b) : Inner[i].key \in Range(manifest)}
Copies(b) == IF b \in BagToSet(stored) THEN stored[b] ELSE 0
Flag(p) == IF p THEN 1 ELSE 0
Counted(b) == Copies(b) + Flag(torn) <= Cardinality(RecordedWith(b)) + Flag(Held(b)) + 2 * kills
ArchiveRows == UNION {FrameOf(Inner[i]) : i \in DOMAIN Inner}
CopiesAreCounted == /\ kills \in Nat /\ (torn => kills >= 1)
                    /\ \A b \in ArchiveRows : Counted(b)

ArchiveInv ==
  /\ torn \in BOOLEAN /\ loads \in 0 .. MaxLoads /\ manifest \in Seq(Keys \cup {Unreadable})
  /\ LoaderTypes /\ StoreIsOfRows /\ LoaderKnows /\ InHand /\ Todo /\ CopiesAreCounted

LEMMA MinIsLeast ==
  ASSUME NEW T \in SUBSET Nat, T # {}
  PROVE  Min(T) \in T
BY LeastElement DEF Min

LEMMA RangeOfAppend ==
  ASSUME NEW S, NEW s \in Seq(S), NEW e \in S
  PROVE  Range(Append(s, e)) = Range(s) \cup {e}
<1>1. /\ Append(s, e) \in Seq(S) /\ DOMAIN Append(s, e) = 1 .. Len(s) + 1
      /\ \A i \in 1 .. Len(s) + 1 : Append(s, e)[i] = IF i = Len(s) + 1 THEN e ELSE s[i]
      /\ Len(s) \in Nat /\ DOMAIN s = 1 .. Len(s)
  OBVIOUS
<1>2. ASSUME NEW x \in Range(Append(s, e)) PROVE x \in Range(s) \cup {e}
  BY <1>1 DEF Range
<1>3. ASSUME NEW x \in Range(s) PROVE x \in Range(Append(s, e))
  <2>1. PICK i \in 1 .. Len(s) : x = s[i]
    BY <1>1 DEF Range
  <2>2. i \in 1 .. Len(s) + 1 /\ i # Len(s) + 1
    BY <2>1, <1>1
  <2> QED
    BY <2>1, <2>2, <1>1 DEF Range
<1>4. e \in Range(Append(s, e))
  <2>1. Len(s) + 1 \in 1 .. Len(s) + 1
    BY <1>1
  <2> QED
    BY <2>1, <1>1 DEF Range
<1> QED
  BY <1>2, <1>3, <1>4

(* The files of the archive and their frames.                               *)
LEMMA Files ==
  /\ DOMAIN Inner = 1 .. Len(Inner) /\ Len(Inner) \in Nat \ {0} /\ IsFiniteSet(DOMAIN Inner)
  /\ \A i \in DOMAIN Inner : Inner[i].key # Unreadable
<1>1. DOMAIN Inner = 1 .. Len(Inner) /\ Len(Inner) \in Nat \ {0}
  BY ArchiveAssumption DEF FilesAreOfTheirKeys
<1>2. IsFiniteSet(1 .. Len(Inner))
  BY <1>1, FS_Interval
<1> QED
  BY <1>1, <1>2, ArchiveAssumption DEF FilesAreOfTheirKeys

LEMMA FrameFacts ==
  ASSUME NEW i \in DOMAIN Inner, NEW b \in FrameOf(Inner[i])
  PROVE  /\ b.minute \in Nat /\ b.known = b.minute + 1 /\ b.source = "archive"
         /\ b.symbol = Index => b.minute < Cutoff
<1>1. PICK t \in Inner[i].minutes : /\ Inner[i].spot => t < Cutoff
                                    /\ b = [symbol |-> Inner[i].symbol, minute |-> t, known |-> t + 1, source |-> "archive"]
  BY DEF FrameOf
<1> QED
  BY <1>1, ArchiveAssumption DEF FilesAreOfTheirKeys

LEMMA MonthsAreNumbers ==
  ASSUME NEW i \in DOMAIN Inner
  PROVE  MonthsOf(FrameOf(Inner[i])) \subseteq Nat
<1>1. \A t \in Nat : t \div Month \in Nat
  BY ArchiveAssumption
<1> QED
  BY <1>1, FrameFacts DEF MonthsOf

LEMMA FileCounts ==
  ASSUME NEW b
  PROVE  /\ IsFiniteSet(FilesWith(b)) /\ Cardinality(FilesWith(b)) \in Nat
         /\ IsFiniteSet(RecordedWith(b)) /\ Cardinality(RecordedWith(b)) \in Nat
<1>1. FilesWith(b) \subseteq DOMAIN Inner /\ RecordedWith(b) \subseteq DOMAIN Inner
  BY DEF FilesWith, RecordedWith
<1> QED
  BY <1>1, Files, FS_Subset, FS_CardinalityType

(* What writing rows does to the store.                                     *)
LEMMA WriteFacts ==
  ASSUME StoreIsOfRows, NEW written, Write(written), \A b \in written : Comes(b), IsFiniteSet({b \in written : b.source = "live"})
  PROVE  /\ StoreIsOfRows' /\ DOMAIN stored' = DOMAIN stored \cup written
         /\ \A b : Copies(b)' = Copies(b) + Flag(b \in written)
<1>1. /\ DOMAIN stored' = DOMAIN stored \cup written
      /\ \A b \in DOMAIN stored' : stored'[b] = (IF b \in DOMAIN stored THEN stored[b] ELSE 0) + (IF b \in written THEN 1 ELSE 0)
      /\ stored' = [b \in DOMAIN stored' |-> stored'[b]]
  BY DEF Write, SetToBag, (+)
<1>2. \A b \in DOMAIN stored : stored[b] \in Nat \ {0}
  BY DEF StoreIsOfRows
<1>3. \A b \in DOMAIN stored' : stored'[b] \in Nat \ {0}
  BY <1>1, <1>2
<1>4. LiveRows' = LiveRows \cup {b \in written : b.source = "live"}
  BY <1>1 DEF LiveRows
<1>5. IsFiniteSet(LiveRows')
  BY <1>4, FS_Union DEF StoreIsOfRows
<1>6. \A b \in DOMAIN stored' : Comes(b)'
  BY <1>1 DEF StoreIsOfRows, Comes, FrameOf
<1>7. StoreIsOfRows'
  BY <1>1, <1>3, <1>5, <1>6 DEF StoreIsOfRows
<1>8. \A b : Copies(b)' = Copies(b) + Flag(b \in written)
  BY <1>1, <1>2 DEF Copies, BagToSet, Flag
<1> QED
  BY <1>1, <1>7, <1>8

LEMMA CopiesType ==
  ASSUME StoreIsOfRows, NEW b
  PROVE  Copies(b) \in Nat
BY DEF StoreIsOfRows, Copies, BagToSet

LEMMA NothingIsLost ==
  ASSUME NEW key, Backed(key), DOMAIN stored \subseteq DOMAIN stored'
  PROVE  Backed(key)'
BY DEF Backed, FrameOf

LEMMA RowsStay ==
  ASSUME StoreIsOfRows, stored' = stored
  PROVE  StoreIsOfRows' /\ (\A b : Copies(b)' = Copies(b)) /\ \A key : Backed(key) => Backed(key)'
<1>1. \A b : Comes(b)' <=> Comes(b)
  BY DEF Comes, FrameOf
<1>2. StoreIsOfRows'
  BY <1>1 DEF StoreIsOfRows, LiveRows
<1>3. \A b : Copies(b)' = Copies(b)
  BY DEF Copies
<1>4. \A key : Backed(key) => Backed(key)'
  BY NothingIsLost
<1> QED
  BY <1>2, <1>3, <1>4

(* The count of a row while its lines and the kills stay.                   *)
LEMMA CountStays ==
  ASSUME NEW b, Counted(b), Copies(b)' = Copies(b), UNCHANGED <<manifest, torn, kills>>, Held(b)' <=> Held(b)
  PROVE  Counted(b)'
<1>1. RecordedWith(b)' = RecordedWith(b)
  BY DEF RecordedWith, FilesWith, FrameOf
<1>2. Flag(Held(b))' = Flag(Held(b)) /\ Flag(torn)' = Flag(torn)
  BY DEF Flag
<1> QED
  BY <1>1, <1>2 DEF Counted

LEMMA ArchiveStart == ArchiveInit => ArchiveInv
<1> SUFFICES ASSUME ArchiveInit PROVE ArchiveInv
  OBVIOUS
<1>1. /\ DOMAIN stored = {} /\ manifest = <<>> /\ torn = FALSE /\ loads = 0 /\ kills = 0
      /\ loader = [file |-> 0, step |-> "idle", todo |-> {}, done |-> {}]
  BY DEF ArchiveInit, EmptyBag, SetToBag, NotLoading
<1>2. torn \in BOOLEAN /\ loads \in 0 .. MaxLoads /\ manifest \in Seq(Keys \cup {Unreadable})
  <2>1. <<>> \in Seq(Keys \cup {Unreadable})
    OBVIOUS
  <2>2. 0 \in 0 .. MaxLoads
    BY ArchiveAssumption
  <2> QED
    BY <1>1, <2>1, <2>2
<1>3. LoaderTypes
  BY <1>1, Files DEF LoaderTypes, LoaderSteps, NotLoading
<1>4. StoreIsOfRows
  <2>1. LiveRows = {}
    BY <1>1 DEF LiveRows
  <2>2. stored \in [DOMAIN stored -> Nat \ {0}]
    BY DEF ArchiveInit, EmptyBag, SetToBag
  <2> QED
    BY <2>1, <2>2, <1>1, FS_EmptySet DEF StoreIsOfRows
<1>5. Recorded = {}
  BY <1>1 DEF Recorded, Range
<1>6. LoaderKnows /\ InHand /\ Todo
  BY <1>1, <1>5 DEF LoaderKnows, InHand, Todo
<1>7. ASSUME NEW b \in ArchiveRows PROVE Counted(b)
  <2>1. Copies(b) = 0 /\ Flag(torn) = 0
    BY <1>1 DEF Copies, BagToSet, Flag
  <2>2. Flag(Held(b)) \in Nat
    BY DEF Flag
  <2> QED
    BY <2>1, <2>2, <1>1, FileCounts DEF Counted
<1> QED
  BY <1>1, <1>2, <1>3, <1>4, <1>6, <1>7 DEF ArchiveInv, CopiesAreCounted

LEMMA StartLoadKeeps == ASSUME ArchiveInv, StartLoad PROVE ArchiveInv'
<1>1. /\ loader.step = "idle" /\ UNCHANGED <<stored, manifest, torn, kills>> /\ loads' = loads + 1 /\ loads < MaxLoads
      /\ loader' = [file |-> 1, step |-> "read", todo |-> {}, done |-> Recorded]
  BY DEF StartLoad, NotLoading, Recorded
<1>2. StoreIsOfRows' /\ (\A b : Copies(b)' = Copies(b)) /\ \A key : Backed(key) => Backed(key)'
  BY <1>1, RowsStay DEF ArchiveInv
<1>3. LoaderTypes'
  BY <1>1, Files DEF LoaderTypes, LoaderSteps
<1>4. Recorded' = Recorded
  BY <1>1 DEF Recorded
<1>5. LoaderKnows'
  BY <1>1, <1>2, <1>4 DEF ArchiveInv, LoaderKnows
<1>6. InHand' /\ Todo'
  BY <1>1 DEF InHand, Todo
<1>7. ASSUME NEW b \in ArchiveRows PROVE Counted(b)'
  BY <1>1, <1>2, CountStays DEF ArchiveInv, CopiesAreCounted, Held
<1>8. CopiesAreCounted'
  BY <1>1, <1>7 DEF ArchiveInv, CopiesAreCounted, ArchiveRows, FrameOf
<1> QED
  BY <1>1, <1>2, <1>3, <1>5, <1>6, <1>8, ArchiveAssumption DEF ArchiveInv

LEMMA NextFileFacts ==
  ASSUME LoaderTypes, loader.step # "idle", NEW done, loader' = NextFile(done)
  PROVE  /\ LoaderTypes' /\ loader'.step \in {"idle", "read"} /\ loader'.todo = {}
         /\ loader'.step # "idle" => loader'.done = done
         /\ loader'.step = "idle" => loader'.done = {}
<1>1. loader.file \in 1 .. Len(Inner)
  BY Files DEF LoaderTypes
<1>2. CASE loader.file = Len(Inner)
  BY <1>1, <1>2, Files DEF NextFile, NotLoading, LoaderTypes, LoaderSteps
<1>3. CASE loader.file # Len(Inner)
  <2>1. loader.file + 1 \in 1 .. Len(Inner) /\ loader.file + 1 \in 0 .. Len(Inner)
    BY <1>1, <1>3, Files
  <2> QED
    BY <2>1, <1>3, Files DEF NextFile, LoaderTypes, LoaderSteps
<1> QED
  BY <1>2, <1>3

LEMMA SkipFileKeeps == ASSUME ArchiveInv, SkipFile PROVE ArchiveInv'
<1>1. loader.step = "read" /\ UNCHANGED <<stored, manifest, torn, loads, kills>> /\ loader' = NextFile(loader.done)
  BY DEF SkipFile
<1>2. StoreIsOfRows' /\ (\A b : Copies(b)' = Copies(b)) /\ \A key : Backed(key) => Backed(key)'
  BY <1>1, RowsStay DEF ArchiveInv
<1>3. /\ LoaderTypes' /\ loader'.step \in {"idle", "read"} /\ loader'.todo = {}
      /\ loader'.step # "idle" => loader'.done = loader.done
      /\ loader'.step = "idle" => loader'.done = {}
  BY <1>1, NextFileFacts DEF ArchiveInv
<1>4. Recorded' = Recorded
  BY <1>1 DEF Recorded
<1>5. LoaderKnows'
  BY <1>1, <1>2, <1>3, <1>4 DEF ArchiveInv, LoaderKnows
<1>6. InHand' /\ Todo'
  BY <1>3 DEF InHand, Todo
<1>7. ASSUME NEW b \in ArchiveRows PROVE Counted(b)'
  BY <1>1, <1>2, <1>3, CountStays DEF ArchiveInv, CopiesAreCounted, Held
<1>8. CopiesAreCounted'
  BY <1>1, <1>7 DEF ArchiveInv, CopiesAreCounted, ArchiveRows, FrameOf
<1> QED
  BY <1>1, <1>2, <1>3, <1>5, <1>6, <1>8 DEF ArchiveInv

LEMMA ReadFileKeeps == ASSUME ArchiveInv, ReadFile PROVE ArchiveInv'
<1> DEFINE frame == FrameOf(File)
           step == IF frame = {} THEN "record" ELSE "append"
<1>1. /\ loader.step = "read" /\ UNCHANGED <<stored, manifest, torn, loads, kills>>
      /\ loader' = [loader EXCEPT !.step = step, !.todo = MonthsOf(frame)] /\ File.key \notin loader.done
  BY DEF ReadFile, AfterRead
<1>2. loader.file \in DOMAIN Inner /\ loader = [file |-> loader.file, step |-> loader.step, todo |-> loader.todo, done |-> loader.done]
  BY <1>1 DEF ArchiveInv, LoaderTypes
<1>3. loader' = [file |-> loader.file, step |-> step, todo |-> MonthsOf(frame), done |-> loader.done]
  BY <1>1, <1>2
<1>4. StoreIsOfRows' /\ (\A b : Copies(b)' = Copies(b)) /\ \A key : Backed(key) => Backed(key)'
  BY <1>1, RowsStay DEF ArchiveInv
<1>5. LoaderTypes'
  BY <1>2, <1>3, Files DEF LoaderTypes, LoaderSteps, ArchiveInv
<1>6. Recorded' = Recorded
  BY <1>1 DEF Recorded
<1>7. LoaderKnows'
  BY <1>1, <1>3, <1>4, <1>6 DEF ArchiveInv, LoaderKnows
<1>8. File' = File /\ FrameOf(File)' = frame
  BY <1>3 DEF File, FrameOf
<1>9. \A b : ~ Held(b)'
  BY <1>3, <1>8 DEF Held, MonthsOf
<1>10. InHand'
  BY <1>1, <1>3, <1>8, <1>9 DEF InHand
<1>11. Todo'
  <2>1. MonthsOf(frame) \subseteq Nat
    BY <1>2, MonthsAreNumbers DEF File
  <2>2. frame = {} <=> MonthsOf(frame) = {}
    BY DEF MonthsOf
  <2> QED
    BY <2>1, <2>2, <1>3 DEF Todo
<1>12. ASSUME NEW b \in ArchiveRows PROVE Counted(b)'
  BY <1>1, <1>4, <1>9, CountStays DEF ArchiveInv, CopiesAreCounted, Held
<1>13. CopiesAreCounted'
  BY <1>1, <1>12 DEF ArchiveInv, CopiesAreCounted, ArchiveRows, FrameOf
<1> QED
  BY <1>1, <1>4, <1>5, <1>7, <1>10, <1>11, <1>13 DEF ArchiveInv

LEMMA AppendPartKeeps == ASSUME ArchiveInv, AppendPart PROVE ArchiveInv'
<1> DEFINE month == Min(loader.todo)
           left == loader.todo \ {month}
           part == PartOf(FrameOf(File), month)
           step == IF left = {} THEN "record" ELSE "append"
<1>1. /\ loader.step = "append" /\ UNCHANGED <<manifest, torn, loads, kills>> /\ Write(part)
      /\ loader' = [loader EXCEPT !.todo = left, !.step = step]
  BY DEF AppendPart
<1>2. /\ loader.file \in DOMAIN Inner
      /\ loader = [file |-> loader.file, step |-> loader.step, todo |-> loader.todo, done |-> loader.done]
  BY <1>1 DEF ArchiveInv, LoaderTypes
<1>3. loader' = [file |-> loader.file, step |-> step, todo |-> left, done |-> loader.done]
  BY <1>1, <1>2
<1>4. month \in loader.todo
  BY <1>1, MinIsLeast DEF ArchiveInv, Todo
<1>5. \A b \in part : b \in FrameOf(File) /\ b.minute \div Month = month /\ b.source = "archive"
  BY <1>2, FrameFacts DEF PartOf, File
<1>6. \A b \in part : Comes(b)
  BY <1>2, <1>5, FrameFacts DEF Comes, File
<1>7. IsFiniteSet({b \in part : b.source = "live"})
  <2>1. {b \in part : b.source = "live"} = {}
    BY <1>5
  <2> QED
    BY <2>1, FS_EmptySet
<1>8. /\ StoreIsOfRows' /\ DOMAIN stored' = DOMAIN stored \cup part
      /\ \A b : Copies(b)' = Copies(b) + Flag(b \in part)
  <2>1. StoreIsOfRows
    BY DEF ArchiveInv
  <2> HIDE DEF part
  <2> QED
    BY <2>1, <1>1, <1>6, <1>7, WriteFacts
<1>9. LoaderTypes'
  BY <1>2, <1>3, Files DEF LoaderTypes, LoaderSteps, ArchiveInv
<1>10. Recorded' = Recorded
  BY <1>1 DEF Recorded
<1>11. LoaderKnows'
  <2>1. \A key : Backed(key) => Backed(key)'
    BY <1>8, NothingIsLost
  <2> QED
    BY <2>1, <1>1, <1>3, <1>10 DEF ArchiveInv, LoaderKnows
<1>12. File' = File /\ FrameOf(File)' = FrameOf(File)
  BY <1>3 DEF File, FrameOf
<1>13. \A b : Held(b)' <=> Held(b) \/ b \in part
  <2>1. \A b : b \in part <=> b \in FrameOf(File) /\ b.minute \div Month = month
    BY DEF PartOf
  <2>2. loader.step \in {"append", "record"} /\ loader'.step \in {"append", "record"} /\ loader'.todo = left
    BY <1>1, <1>3
  <2> HIDE DEF part, month
  <2> QED
    BY <2>1, <2>2, <1>12, <1>4 DEF Held
<1>14. \A b : ~ (Held(b) /\ b \in part)
  BY <1>4, <1>5 DEF Held
<1>15. InHand'
  <2>1. File.key \notin loader.done
    BY <1>1 DEF ArchiveInv, InHand
  <2>2. \A b \in FrameOf(File) : Held(b) => b \in DOMAIN stored
    BY <1>1 DEF ArchiveInv, InHand
  <2> HIDE DEF part
  <2> QED
    BY <2>1, <2>2, <1>3, <1>8, <1>12, <1>13 DEF InHand
<1>16. Todo'
  BY <1>3 DEF ArchiveInv, Todo
<1>17. ASSUME NEW b \in ArchiveRows PROVE Counted(b)'
  <2>1. RecordedWith(b)' = RecordedWith(b) /\ Flag(torn)' = Flag(torn) /\ kills' = kills
    BY <1>1 DEF RecordedWith, FilesWith, FrameOf, Flag
  <2>2. Flag(Held(b))' = Flag(Held(b)) + Flag(b \in part)
    <3> HIDE DEF part
    <3> QED
      BY <1>13, <1>14 DEF Flag
  <2>3. Copies(b)' = Copies(b) + Flag(b \in part)
    BY <1>8
  <2>4. Counted(b) /\ kills \in Nat /\ Copies(b) \in Nat /\ Cardinality(RecordedWith(b)) \in Nat
    BY CopiesType, FileCounts DEF ArchiveInv, CopiesAreCounted
  <2>5. Flag(Held(b)) \in Nat /\ Flag(b \in part) \in Nat /\ Flag(torn) \in Nat
    BY DEF Flag
  <2> HIDE DEF part
  <2> QED
    BY <2>1, <2>2, <2>3, <2>4, <2>5 DEF Counted
<1>18. CopiesAreCounted'
  BY <1>1, <1>17 DEF ArchiveInv, CopiesAreCounted, ArchiveRows, FrameOf
<1> QED
  BY <1>1, <1>8, <1>9, <1>11, <1>15, <1>16, <1>18 DEF ArchiveInv

LEMMA RecordFileKeeps == ASSUME ArchiveInv, RecordFile PROVE ArchiveInv'
<1> DEFINE key == File.key
<1>1. /\ loader.step = "record" /\ UNCHANGED <<stored, loads, kills>> /\ torn' = FALSE
      /\ manifest' = IF torn THEN manifest ELSE Append(manifest, key)
      /\ loader' = NextFile(loader.done \cup {key})
  BY DEF RecordFile
<1>2. loader.file \in DOMAIN Inner /\ File = Inner[loader.file] /\ key \in Keys /\ key # Unreadable
  BY <1>1, Files DEF ArchiveInv, LoaderTypes, File, Keys
<1>3. StoreIsOfRows' /\ (\A b : Copies(b)' = Copies(b)) /\ \A k : Backed(k) => Backed(k)'
  BY <1>1, RowsStay DEF ArchiveInv
<1>4. /\ LoaderTypes' /\ loader'.step \in {"idle", "read"} /\ loader'.todo = {}
      /\ loader'.step # "idle" => loader'.done = loader.done \cup {key}
      /\ loader'.step = "idle" => loader'.done = {}
  BY <1>1, NextFileFacts DEF ArchiveInv
<1>5. manifest' \in Seq(Keys \cup {Unreadable}) /\ Range(manifest') = Range(manifest) \cup (IF torn THEN {} ELSE {key})
  <2>1. manifest \in Seq(Keys \cup {Unreadable}) /\ key \in Keys \cup {Unreadable}
    BY <1>2 DEF ArchiveInv
  <2>2. Append(manifest, key) \in Seq(Keys \cup {Unreadable}) /\ Range(Append(manifest, key)) = Range(manifest) \cup {key}
    BY <2>1, RangeOfAppend
  <2> QED
    BY <1>1, <2>1, <2>2
<1>6. Recorded' \subseteq Recorded \cup {key}
  BY <1>5 DEF Recorded
<1>7. Backed(key)
  <2>1. \A i \in DOMAIN Inner : Inner[i].key = key => i = loader.file
    BY <1>2, ArchiveAssumption DEF FilesAreOfTheirKeys
  <2>2. \A b \in FrameOf(File) : b \in DOMAIN stored
    BY <1>1 DEF ArchiveInv, InHand, Todo, Held
  <2> QED
    BY <2>1, <2>2, <1>2 DEF Backed
<1>8. LoaderKnows'
  <2>1. \A k \in Recorded \cup loader.done \cup {key} : Backed(k)'
    BY <1>3, <1>7 DEF ArchiveInv, LoaderKnows
  <2>2. Recorded \subseteq loader.done
    BY <1>1 DEF ArchiveInv, LoaderKnows
  <2> QED
    BY <2>1, <2>2, <1>4, <1>6 DEF LoaderKnows
<1>9. InHand' /\ Todo'
  BY <1>4 DEF InHand, Todo
<1>10. ASSUME NEW b \in ArchiveRows PROVE Counted(b)'
  <2>1. Counted(b) /\ kills \in Nat /\ kills' = kills /\ Copies(b) \in Nat /\ Copies(b)' = Copies(b)
    BY <1>1, <1>3, CopiesType DEF ArchiveInv, CopiesAreCounted
  <2>2. /\ IsFiniteSet(RecordedWith(b)) /\ Cardinality(RecordedWith(b)) \in Nat
    BY FileCounts
  <2>3. Flag(Held(b))' = 0 /\ Flag(torn)' = 0
    BY <1>1, <1>4 DEF Held, Flag
  <2>4. CASE torn
    <3>1. RecordedWith(b)' = RecordedWith(b)
      BY <1>5, <2>4 DEF RecordedWith, FilesWith, FrameOf
    <3>2. Flag(torn) = 1 /\ Flag(Held(b)) \in {0, 1}
      BY <2>4 DEF Flag
    <3> QED
      BY <3>1, <3>2, <2>1, <2>2, <2>3 DEF Counted
  <2>5. CASE ~ torn /\ Held(b)
    <3>1. b \in FrameOf(Inner[loader.file])
      BY <2>5, <1>2 DEF Held
    <3>2. RecordedWith(b)' = RecordedWith(b) \cup {loader.file}
      <4>1. \A i \in FilesWith(b) : Inner[i].key = key <=> i = loader.file
        BY <1>2, ArchiveAssumption DEF FilesAreOfTheirKeys, FilesWith
      <4>2. loader.file \in FilesWith(b)
        BY <1>2, <3>1 DEF FilesWith
      <4>3. FilesWith(b)' = FilesWith(b)
        BY DEF FilesWith, FrameOf
      <4> QED
        BY <4>1, <4>2, <4>3, <1>5, <2>5, <1>2 DEF RecordedWith
    <3>3. loader.file \notin RecordedWith(b)
      <4>1. key \notin loader.done /\ Recorded \subseteq loader.done
        BY <1>1 DEF ArchiveInv, InHand, LoaderKnows
      <4> QED
        BY <4>1, <1>2 DEF RecordedWith, Recorded
    <3>4. Cardinality(RecordedWith(b))' = Cardinality(RecordedWith(b)) + 1
      BY <3>2, <3>3, <2>2, FS_AddElement
    <3>5. Flag(torn) = 0 /\ Flag(Held(b)) = 1
      BY <2>5 DEF Flag
    <3> QED
      BY <3>4, <3>5, <2>1, <2>2, <2>3 DEF Counted
  <2>6. CASE ~ torn /\ ~ Held(b)
    <3>1. RecordedWith(b) \subseteq RecordedWith(b)'
      BY <1>5 DEF RecordedWith, FilesWith, FrameOf
    <3>2. IsFiniteSet(RecordedWith(b)') /\ Cardinality(RecordedWith(b)') \in Nat
      <4>1. RecordedWith(b)' \subseteq DOMAIN Inner
        BY DEF RecordedWith, FilesWith
      <4> QED
        BY <4>1, Files, FS_Subset, FS_CardinalityType
    <3>3. Cardinality(RecordedWith(b)) <= Cardinality(RecordedWith(b)')
      BY <3>1, <3>2, FS_Subset
    <3>4. Flag(torn) = 0 /\ Flag(Held(b)) = 0
      BY <2>6 DEF Flag
    <3> QED
      BY <3>2, <3>3, <3>4, <2>1, <2>2, <2>3 DEF Counted
  <2> QED
    BY <2>4, <2>5, <2>6
<1>11. CopiesAreCounted'
  BY <1>1, <1>10 DEF ArchiveInv, CopiesAreCounted, ArchiveRows, FrameOf
<1> QED
  BY <1>1, <1>3, <1>4, <1>5, <1>8, <1>9, <1>11 DEF ArchiveInv

LEMMA KillKeeps == ASSUME ArchiveInv, Kill PROVE ArchiveInv'
<1>1. /\ loader.step # "idle" \/ loader.step = "idle"
      /\ UNCHANGED <<stored, loads>> /\ kills' = kills + 1
      /\ loader' = [file |-> 0, step |-> "idle", todo |-> {}, done |-> {}]
      /\ \/ UNCHANGED <<manifest, torn>>
         \/ manifest' = (IF torn THEN manifest ELSE Append(manifest, Unreadable)) /\ torn' = TRUE
  BY DEF Kill, NotLoading
<1>2. StoreIsOfRows' /\ (\A b : Copies(b)' = Copies(b)) /\ \A k : Backed(k) => Backed(k)'
  BY <1>1, RowsStay DEF ArchiveInv
<1>3. LoaderTypes'
  BY <1>1, Files DEF LoaderTypes, LoaderSteps, NotLoading
<1>4. /\ manifest' \in Seq(Keys \cup {Unreadable}) /\ torn' \in BOOLEAN
      /\ Range(manifest') \in {Range(manifest), Range(manifest) \cup {Unreadable}}
  <2>1. manifest \in Seq(Keys \cup {Unreadable}) /\ torn \in BOOLEAN
    BY DEF ArchiveInv
  <2>2. Append(manifest, Unreadable) \in Seq(Keys \cup {Unreadable}) /\ Range(Append(manifest, Unreadable)) = Range(manifest) \cup {Unreadable}
    BY <2>1, RangeOfAppend
  <2> QED
    BY <1>1, <2>1, <2>2
<1>5. Recorded' = Recorded
  BY <1>4 DEF Recorded
<1>6. LoaderKnows'
  BY <1>1, <1>2, <1>5 DEF ArchiveInv, LoaderKnows
<1>7. InHand' /\ Todo'
  BY <1>1 DEF InHand, Todo
<1>8. ASSUME NEW b \in ArchiveRows PROVE Counted(b)'
  <2>1. Counted(b) /\ kills \in Nat /\ kills' = kills + 1 /\ Copies(b) \in Nat /\ Copies(b)' = Copies(b)
    BY <1>1, <1>2, CopiesType DEF ArchiveInv, CopiesAreCounted
  <2>2. Cardinality(RecordedWith(b)) \in Nat
    BY FileCounts
  <2>3. RecordedWith(b)' = RecordedWith(b)
    <3>1. \A i \in DOMAIN Inner : Inner[i].key \in Range(manifest') <=> Inner[i].key \in Range(manifest)
      BY <1>4, Files
    <3> QED
      BY <3>1 DEF RecordedWith, FilesWith, FrameOf
  <2>4. Flag(Held(b))' \in {0, 1} /\ Flag(Held(b)) \in {0, 1} /\ Flag(torn) \in {0, 1} /\ Flag(torn)' \in {0, 1}
    BY DEF Flag
  <2> QED
    BY <2>1, <2>2, <2>3, <2>4 DEF Counted
<1>9. CopiesAreCounted'
  BY <1>1, <1>8 DEF ArchiveInv, CopiesAreCounted, ArchiveRows, FrameOf
<1> QED
  BY <1>1, <1>2, <1>3, <1>4, <1>6, <1>7, <1>9 DEF ArchiveInv

(* The rows of others leave the count of those of the archive alone.        *)
LEMMA OthersKeep ==
  ASSUME ArchiveInv, NEW others, Write(others), \A b \in others : Comes(b) /\ b.source # "archive",
         IsFiniteSet({b \in others : b.source = "live"}), UNCHANGED <<manifest, torn, loader, loads, kills>>
  PROVE  ArchiveInv'
<1>1. /\ StoreIsOfRows' /\ DOMAIN stored' = DOMAIN stored \cup others
      /\ \A b : Copies(b)' = Copies(b) + Flag(b \in others)
  BY WriteFacts DEF ArchiveInv
<1>2. \A b : Held(b)' <=> Held(b)
  BY DEF Held, File, FrameOf
<1>3. LoaderTypes' /\ Todo'
  BY DEF ArchiveInv, LoaderTypes, Todo
<1>4. Recorded' = Recorded /\ File' = File /\ FrameOf(File)' = FrameOf(File)
  BY DEF Recorded, File, FrameOf
<1>5. LoaderKnows'
  <2>1. \A key : Backed(key) => Backed(key)'
    BY <1>1, NothingIsLost
  <2> QED
    BY <2>1, <1>4 DEF ArchiveInv, LoaderKnows
<1>6. InHand'
  <2>1. loader.step \in {"append", "record"} => File.key \notin loader.done /\ \A b \in FrameOf(File) : Held(b) => b \in DOMAIN stored
    BY DEF ArchiveInv, InHand
  <2> QED
    BY <2>1, <1>1, <1>2, <1>4 DEF InHand
<1>7. ASSUME NEW b \in ArchiveRows PROVE Counted(b)'
  <2>1. b.source = "archive"
    BY FrameFacts DEF ArchiveRows
  <2>2. Copies(b) \in Nat /\ Flag(b \in others) = 0
    BY <2>1, CopiesType DEF Flag, ArchiveInv
  <2>3. Copies(b)' = Copies(b)
    BY <1>1, <2>2
  <2> QED
    BY <1>2, <2>3, CountStays DEF ArchiveInv, CopiesAreCounted
<1>8. CopiesAreCounted'
  BY <1>7 DEF ArchiveInv, CopiesAreCounted, ArchiveRows, FrameOf
<1> QED
  BY <1>1, <1>3, <1>5, <1>6, <1>8 DEF ArchiveInv

LEMMA RecordLiveKeeps == ASSUME ArchiveInv, RecordLive PROVE ArchiveInv'
<1> DEFINE next == Cutoff + Cardinality(LiveRows)
           row == [symbol |-> Index, minute |-> next, known |-> next + 1, source |-> "live"]
<1>1. Write({row}) /\ UNCHANGED <<manifest, torn, loader, loads, kills>>
  BY DEF RecordLive, LiveRows, BagToSet
<1>2. next \in Nat /\ next >= Cutoff
  BY ArchiveAssumption, FS_CardinalityType DEF ArchiveInv, StoreIsOfRows
<1> HIDE DEF next
<1>3. Comes(row) /\ row.source # "archive"
  BY <1>2 DEF Comes
<1>4. IsFiniteSet({b \in {row} : b.source = "live"})
  <2>1. {b \in {row} : b.source = "live"} = {row}
    OBVIOUS
  <2> QED
    BY <2>1, FS_Singleton
<1> HIDE DEF row
<1> QED
  BY <1>1, <1>3, <1>4, OthersKeep

LEMMA BackfillKeeps == ASSUME ArchiveInv, Backfill PROVE ArchiveInv'
<1> DEFINE SentIn(month) == {t \in (month * Month)..(month * Month + Month - 1) : t <= LastLive}
           Row(t) == [symbol |-> Index, minute |-> t, known |-> t + 1, source |-> "history"]
<1>1. PICK month \in 0..(LastLive \div Month) :
        \E broken \in {{}} \cup {{t} : t \in SentIn(month)} : Write({Row(t) : t \in Parsed(SentIn(month), broken)})
  BY DEF Backfill
<1>2. PICK broken : Write({Row(t) : t \in Parsed(SentIn(month), broken)})
  BY <1>1
<1>3. \A t \in SentIn(month) : t \in Int
  OBVIOUS
<1> DEFINE others == {Row(t) : t \in Parsed(SentIn(month), broken)}
<1> HIDE DEF SentIn
<1>4. \A b \in others : Comes(b) /\ b.source # "archive" /\ b.source # "live"
  BY <1>3 DEF Comes, Parsed
<1>5. IsFiniteSet({b \in others : b.source = "live"})
  <2>1. {b \in others : b.source = "live"} = {}
    BY <1>4
  <2> QED
    BY <2>1, FS_EmptySet
<1>6. Write(others) /\ UNCHANGED <<manifest, torn, loader, loads, kills>>
  BY <1>2 DEF Backfill
<1> HIDE DEF others
<1> QED
  BY <1>4, <1>5, <1>6, OthersKeep

LEMMA ArchiveStutters == ASSUME ArchiveInv, UNCHANGED archiveVars PROVE ArchiveInv'
<1>1. UNCHANGED <<stored, manifest, torn, loader, loads, kills>>
  BY DEF archiveVars
<1>2. StoreIsOfRows' /\ (\A b : Copies(b)' = Copies(b)) /\ \A key : Backed(key) => Backed(key)'
  BY <1>1, RowsStay DEF ArchiveInv
<1>3. Recorded' = Recorded /\ File' = File /\ FrameOf(File)' = FrameOf(File) /\ \A b : Held(b)' <=> Held(b)
  BY <1>1 DEF Recorded, Held, File, FrameOf
<1>4. LoaderTypes' /\ Todo'
  BY <1>1 DEF ArchiveInv, LoaderTypes, Todo
<1>5. LoaderKnows'
  BY <1>1, <1>2, <1>3 DEF ArchiveInv, LoaderKnows
<1>6. InHand'
  BY <1>1, <1>3 DEF ArchiveInv, InHand
<1>7. ASSUME NEW b \in ArchiveRows PROVE Counted(b)'
  BY <1>1, <1>2, <1>3, CountStays DEF ArchiveInv, CopiesAreCounted
<1>8. CopiesAreCounted'
  BY <1>1, <1>7 DEF ArchiveInv, CopiesAreCounted, ArchiveRows, FrameOf
<1> QED
  BY <1>1, <1>2, <1>4, <1>5, <1>6, <1>8 DEF ArchiveInv

(* What the manifest names is in the store.                                 *)
LEMMA ManifestOfInv == ArchiveInv => ManifestIsBacked
<1> SUFFICES ASSUME ArchiveInv, NEW i \in DOMAIN Inner, Inner[i].key \in Range(manifest), NEW b \in FrameOf(Inner[i])
             PROVE  b \in Read(b.symbol, b.minute, b.minute, b.known)
  BY DEF ManifestIsBacked
<1>1. b \in DOMAIN stored
  BY Files DEF ArchiveInv, LoaderKnows, Recorded, Backed
<1>2. b.minute \in Nat /\ b.known = b.minute + 1
  BY FrameFacts
<1>3. b.minute \div Month <= b.minute \div Month
  BY <1>2, ArchiveAssumption
<1> QED
  BY <1>1, <1>2, <1>3 DEF Read, MonthOverlaps, BagToSet

LEMMA CopiesOfInv == ArchiveInv => CopiesAreBounded
<1> SUFFICES ASSUME ArchiveInv, NEW b \in DOMAIN stored, b.source = "archive"
             PROVE  stored[b] <= Cardinality(FilesWith(b)) + 2 * kills
  BY DEF CopiesAreBounded, BagToSet
<1>1. b \in ArchiveRows
  BY DEF ArchiveInv, StoreIsOfRows, Comes, ArchiveRows
<1>2. Counted(b) /\ kills \in Nat /\ Copies(b) = stored[b] /\ Copies(b) \in Nat
  BY <1>1, CopiesType DEF ArchiveInv, CopiesAreCounted, Copies, BagToSet
<1>3. /\ IsFiniteSet(FilesWith(b)) /\ Cardinality(FilesWith(b)) \in Nat
      /\ IsFiniteSet(RecordedWith(b)) /\ Cardinality(RecordedWith(b)) \in Nat
  BY FileCounts
<1>4. Cardinality(RecordedWith(b)) + Flag(Held(b)) <= Cardinality(FilesWith(b))
  <2>1. CASE Held(b)
    <3>1. loader.file \in FilesWith(b) /\ loader.file \notin RecordedWith(b)
      <4>1. loader.file \in DOMAIN Inner /\ File.key \notin loader.done /\ Recorded \subseteq loader.done /\ File.key # Unreadable
        BY <2>1, Files DEF Held, ArchiveInv, LoaderTypes, InHand, LoaderKnows, File
      <4> QED
        BY <4>1, <2>1 DEF Held, FilesWith, RecordedWith, Recorded, File
    <3>2. RecordedWith(b) \cup {loader.file} \subseteq FilesWith(b)
      BY <3>1 DEF RecordedWith
    <3>3. Cardinality(RecordedWith(b) \cup {loader.file}) = Cardinality(RecordedWith(b)) + 1
      BY <3>1, <1>3, FS_AddElement
    <3>4. Cardinality(RecordedWith(b) \cup {loader.file}) <= Cardinality(FilesWith(b))
      BY <3>2, <1>3, FS_Subset
    <3> QED
      BY <3>3, <3>4, <2>1, <1>3 DEF Flag
  <2>2. CASE ~ Held(b)
    <3>1. Cardinality(RecordedWith(b)) <= Cardinality(FilesWith(b))
      BY <1>3, FS_Subset DEF RecordedWith
    <3> QED
      BY <3>1, <2>2, <1>3 DEF Flag
  <2> QED
    BY <2>1, <2>2
<1>5. Flag(torn) \in {0, 1} /\ Flag(Held(b)) \in {0, 1}
  BY DEF Flag
<1> QED
  BY <1>2, <1>3, <1>4, <1>5 DEF Counted

LEMMA VendorOfInv == ArchiveInv => OneVendor
<1> SUFFICES ASSUME ArchiveInv, NEW a \in DOMAIN stored, NEW b \in DOMAIN stored
             PROVE  /\ a.known > a.minute
                    /\ a.source = "archive" /\ b.source = "live" => <<a.symbol, a.minute>> # <<b.symbol, b.minute>>
  BY DEF OneVendor, BagToSet
<1>1. Comes(a) /\ Comes(b)
  BY DEF ArchiveInv, StoreIsOfRows
<1>2. a.minute \in Int /\ b.minute \in Int /\ a.known > a.minute
  BY <1>1 DEF Comes
<1>3. ASSUME a.source = "archive", b.source = "live", a.symbol = b.symbol PROVE a.minute # b.minute
  <2>1. a.symbol = Index /\ b.minute >= Cutoff
    BY <1>1, <1>3 DEF Comes
  <2>2. PICK i \in DOMAIN Inner : a \in FrameOf(Inner[i])
    BY <1>1, <1>3 DEF Comes
  <2>3. a.minute < Cutoff
    BY <2>1, <2>2, FrameFacts
  <2> QED
    BY <2>1, <2>3, <1>2, ArchiveAssumption
<1> QED
  BY <1>2, <1>3

LEMMA ArchiveTypeOfInv == ArchiveInv => ArchiveTypeOK
<1> SUFFICES ASSUME ArchiveInv PROVE ArchiveTypeOK
  OBVIOUS
<1>1. Range(manifest) \subseteq Keys \cup {Unreadable}
  BY DEF ArchiveInv, Range
<1> QED
  BY <1>1 DEF ArchiveInv, ArchiveTypeOK, LoaderTypes

(* option_history.py:38-45, 117-140, 190-245: however often the loader is   *)
(* killed, what its manifest names is in the store, a row is there at most  *)
(* twice more for each kill, and no minute of the index has two vendors.    *)
THEOREM WhatIsNamedIsStored == ArchiveSpec => []ArchiveIsSound
<1>1. ArchiveInit => ArchiveInv
  BY ArchiveStart
<1>2. ArchiveInv /\ [ArchiveNext]_archiveVars => ArchiveInv'
  <2> SUFFICES ASSUME ArchiveInv, [ArchiveNext]_archiveVars PROVE ArchiveInv'
    OBVIOUS
  <2> QED
    BY StartLoadKeeps, SkipFileKeeps, ReadFileKeeps, AppendPartKeeps, RecordFileKeeps, KillKeeps, RecordLiveKeeps,
       BackfillKeeps, ArchiveStutters DEF ArchiveNext
<1>3. ArchiveInv => ArchiveIsSound
  BY ManifestOfInv, CopiesOfInv, VendorOfInv, ArchiveTypeOfInv DEF ArchiveIsSound
<1> QED
  BY <1>1, <1>2, <1>3, PTL DEF ArchiveSpec

-----------------------------------------------------------------------------
(* Sizing.                                                                  *)

(* Rounding half up keeps the order, and is at most one off the slope.      *)
LEMMA HalfUpType == \A n \in Int, d \in {100, 100000} : HalfUp(n, d) \in Int
BY DEF HalfUp

LEMMA HundredsRound ==
  ASSUME NEW m \in Int, NEW n \in Int, m <= n
  PROVE  HalfUp(m, 100) <= HalfUp(n, 100) /\ 100 * (HalfUp(n, 100) - HalfUp(m, 100)) <= n - m + 100
BY SMT DEF HalfUp

LEMMA ThousandsRound ==
  ASSUME NEW m \in Int, NEW n \in Int, m <= n
  PROVE  /\ HalfUp(m, 100000) <= HalfUp(n, 100000)
         /\ 100000 * (HalfUp(n, 100000) - HalfUp(m, 100000)) <= n - m + 100000
BY SMT DEF HalfUp

LEMMA ProductsGrow ==
  ASSUME NEW a \in Int, NEW b \in Int, NEW c \in Nat, a <= b
  PROVE  a * c <= b * c
OBVIOUS

(* No more than a tenth of the turnover, and one paisa for the rounding.    *)
RisesSlowly(c, d, m, n) == 10 * (d - c) <= n - m + 10

LEMMA ChargeGrows ==
  ASSUME NEW m \in Int, NEW n \in Int, NEW rate \in Nat, m <= n
  PROVE  /\ Charge(m, rate) \in Int /\ Charge(n, rate) \in Int
         /\ Charge(m, rate) <= Charge(n, rate)
         /\ rate <= 10000 => RisesSlowly(Charge(m, rate), Charge(n, rate), m, n)
<1> DEFINE M == m * rate
<1> DEFINE N == n * rate
<1>1. M \in Int /\ N \in Int /\ M <= N
  BY ProductsGrow
<1>2. Charge(m, rate) = HalfUp(M, 100000) /\ Charge(n, rate) = HalfUp(N, 100000)
  BY DEF Charge
<1>3. /\ Charge(m, rate) \in Int /\ Charge(n, rate) \in Int
      /\ Charge(m, rate) <= Charge(n, rate)
      /\ 100000 * (Charge(n, rate) - Charge(m, rate)) <= N - M + 100000
  <2> HIDE DEF M, N
  <2>1. HalfUp(M, 100000) \in Int /\ HalfUp(N, 100000) \in Int
    BY <1>1, HalfUpType
  <2> QED
    BY <1>1, <1>2, <2>1, ThousandsRound
<1>4. rate <= 10000 => N - M <= (n - m) * 10000
  <2>1. N - M = rate * (n - m) /\ n - m \in Nat
    OBVIOUS
  <2>2. rate <= 10000 => rate * (n - m) <= 10000 * (n - m)
    BY <2>1, ProductsGrow
  <2> QED
    BY <2>1, <2>2, <1>1
<1> HIDE DEF M, N
<1> QED
  BY <1>1, <1>3, <1>4 DEF RisesSlowly

(* What a round trip costs, by what was turned over, sold and bought.       *)
ChargesOf(r, x, both, sold, bought) ==
  2 * r.order + Charge(both, r.exch[x]) + Charge(both, r.sebi)
    + Gst(2 * r.order, Charge(both, r.exch[x]), Charge(both, r.sebi), r)
    + Charge(sold, r.stt) + Charge(bought, r.stamp)

SmallRates(r, x) == r.stt <= 10000 /\ r.sebi <= 10000 /\ r.gst <= 100 /\ r.exch[x] <= 10000

LEMMA RateTypes ==
  ASSUME NEW r \in ChargeRates, NEW x \in OptionExchanges
  PROVE  r.order \in Nat /\ r.stt \in Nat /\ r.sebi \in Nat /\ r.gst \in Nat /\ r.stamp \in Nat /\ r.exch[x] \in Nat
BY DEF ChargeRates

LEMMA GstGrows ==
  ASSUME NEW r, NEW b \in Nat, NEW e \in Int, NEW f \in Int, NEW s \in Int, NEW t \in Int,
         r.gst \in Nat, e <= f, s <= t
  PROVE  /\ Gst(b, e, s, r) \in Int /\ Gst(b, f, t, r) \in Int
         /\ Gst(b, e, s, r) <= Gst(b, f, t, r)
         /\ r.gst <= 100 => Gst(b, f, t, r) - Gst(b, e, s, r) <= (f - e) + (t - s) + 1
<1> DEFINE E == (b + e + s) * r.gst
<1> DEFINE F == (b + f + t) * r.gst
<1>1. E \in Int /\ F \in Int /\ E <= F
  BY ProductsGrow
<1>2. r.gst <= 100 => F - E <= 100 * ((f - e) + (t - s))
  <2> DEFINE up == (f - e) + (t - s)
  <2>1. F - E = r.gst * up /\ up \in Nat
    OBVIOUS
  <2>2. r.gst <= 100 => r.gst * up <= 100 * up
    BY <2>1, ProductsGrow
  <2> QED
    BY <2>1, <2>2, <1>1
<1>3. Gst(b, e, s, r) = HalfUp(E, 100) /\ Gst(b, f, t, r) = HalfUp(F, 100)
  BY DEF Gst
<1> HIDE DEF E, F
<1>4. HalfUp(E, 100) \in Int /\ HalfUp(F, 100) \in Int
  BY <1>1, HalfUpType
<1> QED
  BY <1>1, <1>2, <1>3, <1>4, HundredsRound

LEMMA ChargesGrow ==
  ASSUME NEW r \in ChargeRates, NEW x \in OptionExchanges,
         NEW both \in Int, NEW both2 \in Int, NEW sold \in Int, NEW sold2 \in Int,
         NEW bought \in Int, NEW bought2 \in Int,
         both <= both2, sold <= sold2, bought <= bought2
  PROVE  /\ ChargesOf(r, x, both, sold, bought) \in Int /\ ChargesOf(r, x, both2, sold2, bought2) \in Int
         /\ ChargesOf(r, x, both, sold, bought) <= ChargesOf(r, x, both2, sold2, bought2)
         /\ SmallRates(r, x) /\ bought = bought2 /\ both2 - both = sold2 - sold
              => 2 * (ChargesOf(r, x, both2, sold2, bought2) - ChargesOf(r, x, both, sold, bought)) <= (sold2 - sold) + 12
<1> DEFINE exch == r.exch[x]
<1> DEFINE sebi == r.sebi
<1> DEFINE stt == r.stt
<1> DEFINE stamp == r.stamp
<1> DEFINE e == Charge(both, exch)
<1> DEFINE f == Charge(both2, exch)
<1> DEFINE s == Charge(both, sebi)
<1> DEFINE t == Charge(both2, sebi)
<1> DEFINE g == Gst(2 * r.order, e, s, r)
<1> DEFINE h == Gst(2 * r.order, f, t, r)
<1> DEFINE k == Charge(sold, stt)
<1> DEFINE l == Charge(sold2, stt)
<1> DEFINE m == Charge(bought, stamp)
<1> DEFINE n == Charge(bought2, stamp)
<1>1. r.order \in Nat /\ stt \in Nat /\ sebi \in Nat /\ r.gst \in Nat /\ stamp \in Nat /\ exch \in Nat
  BY RateTypes
<1>2. /\ ChargesOf(r, x, both, sold, bought) = 2 * r.order + e + s + g + k + m
      /\ ChargesOf(r, x, both2, sold2, bought2) = 2 * r.order + f + t + h + l + n
  BY DEF ChargesOf
<1>0. SmallRates(r, x) => exch <= 10000 /\ sebi <= 10000 /\ stt <= 10000 /\ r.gst <= 100
  BY DEF SmallRates
<1> HIDE DEF exch, sebi, stt, stamp
<1>3. e \in Int /\ f \in Int /\ e <= f /\ (exch <= 10000 => RisesSlowly(e, f, both, both2))
  <2>0. exch \in Nat
    BY <1>1
  <2>1. e \in Int /\ f \in Int
    BY <2>0, ChargeGrows
  <2>2. e <= f
    BY <2>0, ChargeGrows
  <2>3. exch <= 10000 => RisesSlowly(e, f, both, both2)
    BY <2>0, ChargeGrows
  <2> QED
    BY <2>1, <2>2, <2>3
<1>4. s \in Int /\ t \in Int /\ s <= t /\ (sebi <= 10000 => RisesSlowly(s, t, both, both2))
  <2>0. sebi \in Nat
    BY <1>1
  <2>1. s \in Int /\ t \in Int
    BY <2>0, ChargeGrows
  <2>2. s <= t
    BY <2>0, ChargeGrows
  <2>3. sebi <= 10000 => RisesSlowly(s, t, both, both2)
    BY <2>0, ChargeGrows
  <2> QED
    BY <2>1, <2>2, <2>3
<1>5. k \in Int /\ l \in Int /\ k <= l /\ (stt <= 10000 => RisesSlowly(k, l, sold, sold2))
  <2>0. stt \in Nat
    BY <1>1
  <2>1. k \in Int /\ l \in Int
    BY <2>0, ChargeGrows
  <2>2. k <= l
    BY <2>0, ChargeGrows
  <2>3. stt <= 10000 => RisesSlowly(k, l, sold, sold2)
    BY <2>0, ChargeGrows
  <2> QED
    BY <2>1, <2>2, <2>3
<1>6. m \in Int /\ n \in Int /\ m <= n /\ (bought = bought2 => m = n)
  BY <1>1, ChargeGrows
<1>7. 2 * r.order \in Nat
  BY <1>1
<1> HIDE DEF e, f, s, t
<1>8. g \in Int /\ h \in Int /\ g <= h /\ (r.gst <= 100 => h - g <= (f - e) + (t - s) + 1)
  BY <1>1, <1>3, <1>4, <1>7, GstGrows
<1> HIDE DEF g, h, k, l, m, n
<1>9. /\ ChargesOf(r, x, both, sold, bought) \in Int /\ ChargesOf(r, x, both2, sold2, bought2) \in Int
      /\ ChargesOf(r, x, both, sold, bought) <= ChargesOf(r, x, both2, sold2, bought2)
  BY <1>1, <1>2, <1>3, <1>4, <1>5, <1>6, <1>8
<1>10. ASSUME SmallRates(r, x), bought = bought2, both2 - both = sold2 - sold
       PROVE  2 * ((f - e) + (t - s) + (h - g) + (l - k)) <= (sold2 - sold) + 12
  BY <1>0, <1>3, <1>4, <1>5, <1>8, <1>10 DEF RisesSlowly
<1>11. ASSUME SmallRates(r, x), bought = bought2, both2 - both = sold2 - sold
       PROVE  2 * (ChargesOf(r, x, both2, sold2, bought2) - ChargesOf(r, x, both, sold, bought)) <= (sold2 - sold) + 12
  BY <1>1, <1>2, <1>3, <1>4, <1>5, <1>6, <1>8, <1>10, <1>11
<1> QED
  BY <1>9, <1>11

LEMMA RoundTripIsOfTheTurnover ==
  ASSUME NEW r, NEW x, NEW bought \in Int, NEW sold \in Int, NEW qty \in Int
  PROVE  RoundTrip(r, x, bought, sold, qty) = ChargesOf(r, x, (bought + sold) * qty, sold * qty, bought * qty)
BY DEF RoundTrip, ChargesOf

(* A better exit costs no less, and never the whole of what it brings.      *)
LEMMA BetterExitsCostMore ==
  ASSUME NEW r \in ChargeRates, NEW x \in OptionExchanges, NEW p \in Nat, NEW a \in Int, NEW b \in Int,
         NEW qty \in Nat, a <= b
  PROVE  /\ RoundTrip(r, x, p, a, qty) \in Int /\ RoundTrip(r, x, p, b, qty) \in Int
         /\ RoundTrip(r, x, p, a, qty) <= RoundTrip(r, x, p, b, qty)
         /\ SmallRates(r, x) =>
              2 * (RoundTrip(r, x, p, b, qty) - RoundTrip(r, x, p, a, qty)) <= (b - a) * qty + 12
<1> DEFINE A == a * qty
<1> DEFINE B == b * qty
<1> DEFINE P == p * qty
<1>1. A \in Int /\ B \in Int /\ P \in Int /\ A <= B /\ (p + a) * qty = P + A /\ (p + b) * qty = P + B /\ (b - a) * qty = B - A
  BY ProductsGrow
<1>2. /\ RoundTrip(r, x, p, a, qty) = ChargesOf(r, x, P + A, A, P)
      /\ RoundTrip(r, x, p, b, qty) = ChargesOf(r, x, P + B, B, P)
  BY <1>1, RoundTripIsOfTheTurnover
<1> HIDE DEF A, B, P
<1>3. P + A \in Int /\ P + B \in Int /\ P + A <= P + B /\ (P + B) - (P + A) = B - A
  BY <1>1
<1> DEFINE C == ChargesOf(r, x, P + A, A, P)
<1> DEFINE D == ChargesOf(r, x, P + B, B, P)
<1>4. C \in Int /\ D \in Int /\ C <= D /\ (SmallRates(r, x) => 2 * (D - C) <= (B - A) + 12)
  BY <1>1, <1>3, ChargesGrow
<1> QED
  BY <1>1, <1>2, <1>4

(* More units at the same prices cost no less.                              *)
LEMMA MoreUnitsCostMore ==
  ASSUME NEW r \in ChargeRates, NEW x \in OptionExchanges, NEW p \in Nat, NEW a \in Nat,
         NEW qty \in Nat, NEW most \in Nat, qty <= most
  PROVE  RoundTrip(r, x, p, a, qty) <= RoundTrip(r, x, p, a, most)
<1>1. a * qty <= a * most /\ p * qty <= p * most /\ (p + a) * qty <= (p + a) * most
  BY ProductsGrow
<1>2. a * qty \in Int /\ p * qty \in Int /\ (p + a) * qty \in Int /\ a * most \in Int /\ p * most \in Int /\ (p + a) * most \in Int
  OBVIOUS
<1> QED
  BY <1>1, <1>2, ChargesGrow, RoundTripIsOfTheTurnover

LEMMA QuotientFits ==
  ASSUME NEW a \in Int, NEW b \in Nat, b > 0
  PROVE  a \div b \in Int /\ (a \div b) * b <= a /\ a < (a \div b) * b + b
OBVIOUS

LEMMA QuotientGrows ==
  ASSUME NEW a \in Int, NEW c \in Int, NEW b \in Nat, b > 0, a <= c
  PROVE  a \div b <= c \div b
<1> DEFINE A == a \div b
<1> DEFINE C == c \div b
<1>1. A \in Int /\ A * b <= a /\ C \in Int /\ c < C * b + b
  BY QuotientFits
<1> HIDE DEF A, C
<1>2. SUFFICES ASSUME A > C PROVE FALSE
  BY <1>1
<1>3. C + 1 <= A /\ C + 1 \in Int
  BY <1>1, <1>2
<1>4. (C + 1) * b <= A * b
  BY <1>1, <1>3, ProductsGrow
<1>5. (C + 1) * b = C * b + b
  BY <1>1
<1> QED
  BY <1>1, <1>4, <1>5

(* Of two quotients the greater one is reached.                             *)
LEMMA QuotientReaches ==
  ASSUME NEW a \in Int, NEW c \in Int, NEW b \in Nat, b > 0, c * b <= a
  PROVE  c <= a \div b
<1>1. (c * b) \div b = c
  <2> DEFINE C == (c * b) \div b
  <2>1. C \in Int /\ C * b <= c * b /\ c * b < C * b + b
    BY QuotientFits
  <2> HIDE DEF C
  <2>2. ~ (C > c)
    <3>1. SUFFICES ASSUME c + 1 <= C PROVE FALSE
      BY <2>1
    <3>2. (c + 1) * b <= C * b
      BY <2>1, <3>1, ProductsGrow
    <3> QED
      BY <2>1, <3>2
  <2>3. ~ (C < c)
    <3>1. SUFFICES ASSUME C + 1 <= c PROVE FALSE
      BY <2>1
    <3>2. (C + 1) * b <= c * b
      BY <2>1, <3>1, ProductsGrow
    <3>3. (C + 1) * b = C * b + b
      BY <2>1
    <3> QED
      BY <2>1, <3>2, <3>3
  <2> QED
    BY <2>1, <2>2, <2>3 DEF C
<1>2. c * b \in Int
  OBVIOUS
<1> QED
  BY <1>1, <1>2, QuotientGrows

LEMMA SettingsTypes ==
  /\ MaxLoss \in Nat /\ MaxLoss > 0 /\ TargetMultiple \in Nat /\ TargetMultiple > 0 /\ MaxLots \in Nat /\ MaxLots > 0
  /\ RiskPct \in Nat /\ PositionPct \in Nat /\ EdgePct \in Nat /\ StopPoints \in Nat /\ TargetPoints \in Nat
  /\ StopPct \in Nat /\ TargetPct \in Nat /\ LockPct \in Nat /\ LockPct < TargetPct /\ ThrottlePct \in 0 .. 100
BY SizingAssumption DEF RiskSettings, RupeeSettings, PointSettings, PercentSettings, LockSettings, ThrottleSettings

LEMMA InputTypes ==
  /\ \A r \in RateTable : r \in ChargeRates
  /\ \A r \in RateTable, x \in OptionExchanges : SmallRates(r, x)
  /\ \A p \in Premiums : p \in Nat /\ p >= 100
  /\ \A lot \in LotSizes : lot \in Nat /\ lot >= 6
  /\ \A e \in Equities : e \in Nat
  /\ \A f \in FreezeQtys : f \in Nat
  /\ \A m \in MlMultipliers : m \in 0 .. 100
BY SizingAssumption DEF RatesAreSmall, SmallRates, InputsAreSane

(* geometry.py: the distance the three passes arrive at.                    *)
LEMMA CloserGrows ==
  ASSUME NEW r \in ChargeRates, NEW x \in OptionExchanges, NEW p \in Nat, NEW qty \in Nat, qty > 0,
         NEW d \in Int, NEW e \in Int, d <= e
  PROVE  /\ Closer(r, x, p, qty, d) \in Int
         /\ Closer(r, x, p, qty, d) <= Closer(r, x, p, qty, e)
         /\ RoundTrip(r, x, p, p - e, qty) <= RoundTrip(r, x, p, p - d, qty)
         /\ RoundTrip(r, x, p, p - d, qty) \in Int
         /\ Closer(r, x, p, qty, d) * qty <= MaxLoss - RoundTrip(r, x, p, p - d, qty)
         /\ MaxLoss - RoundTrip(r, x, p, p - d, qty) < Closer(r, x, p, qty, d) * qty + qty
<1> DEFINE A == RoundTrip(r, x, p, p - d, qty)
<1> DEFINE B == RoundTrip(r, x, p, p - e, qty)
<1>1. A \in Int /\ B \in Int /\ B <= A
  <2>1. p - d \in Int /\ p - e \in Int /\ p - e <= p - d
    OBVIOUS
  <2> QED
    BY <2>1, BetterExitsCostMore
<1>2. Closer(r, x, p, qty, d) = (MaxLoss - A) \div qty /\ Closer(r, x, p, qty, e) = (MaxLoss - B) \div qty
  BY DEF Closer
<1> HIDE DEF A, B
<1>3. MaxLoss - A \in Int /\ MaxLoss - B \in Int /\ MaxLoss - A <= MaxLoss - B
  BY <1>1, SettingsTypes
<1>4. (MaxLoss - A) \div qty <= (MaxLoss - B) \div qty
  BY <1>3, QuotientGrows
<1>5. /\ (MaxLoss - A) \div qty \in Int
      /\ ((MaxLoss - A) \div qty) * qty <= MaxLoss - A
      /\ MaxLoss - A < ((MaxLoss - A) \div qty) * qty + qty
  BY <1>3, QuotientFits
<1> QED
  BY <1>1, <1>2, <1>4, <1>5 DEF A, B

LEMMA StopIsNet ==
  ASSUME NEW r \in RateTable, NEW x \in OptionExchanges, NEW p \in Premiums, NEW lot \in LotSizes
  PROVE  LET most == lot * MaxLots
             d == NetDistance(r, x, p, most)
         IN  d \in Int /\ d * most + RoundTrip(r, x, p, p - d, most) <= MaxLoss
<1> DEFINE q == lot * MaxLots
<1> DEFINE R(d) == RoundTrip(r, x, p, p - d, q)
<1> DEFINE d0 == MaxLoss \div q
<1> DEFINE d1 == Closer(r, x, p, q, d0)
<1> DEFINE d2 == Closer(r, x, p, q, d1)
<1> DEFINE d3 == Closer(r, x, p, q, d2)
<1>1. q \in Nat /\ q > 0
  BY InputTypes, SettingsTypes
<1>2. R(d2) <= R(d0) + q
  BY CostCurveIsFlat DEF TwicePassed
<1>3. d3 = NetDistance(r, x, p, q)
  BY DEF NetDistance, TwicePassed
<1>4. r \in ChargeRates /\ p \in Nat
  BY InputTypes
<1> HIDE DEF q
<1>5. d0 \in Int
  BY <1>1, SettingsTypes, QuotientFits
<1> HIDE DEF d0
<1>6. \A d \in Int : /\ Closer(r, x, p, q, d) \in Int /\ R(d) \in Int
                     /\ Closer(r, x, p, q, d) * q <= MaxLoss - R(d)
                     /\ MaxLoss - R(d) < Closer(r, x, p, q, d) * q + q
  BY <1>1, <1>4, CloserGrows
<1>7. \A d, e \in Int : d <= e => Closer(r, x, p, q, d) <= Closer(r, x, p, q, e) /\ R(e) <= R(d)
  BY <1>1, <1>4, CloserGrows
<1> HIDE DEF R
<1>8. d1 \in Int
  BY <1>5, <1>6
<1>9. R(d0) \in Int /\ d1 * q <= MaxLoss - R(d0)
  BY <1>5, <1>6
<1>10. d0 <= d1 => d1 <= d2
  BY <1>5, <1>7, <1>8
<1>11. d1 <= d0 => d2 <= d1
  BY <1>5, <1>7, <1>8
<1> HIDE DEF d1
<1>12. d2 \in Int
  BY <1>6, <1>8
<1>13. d1 <= d2 => d2 <= d3
  BY <1>7, <1>8, <1>12
<1>14. d2 <= d1 => d3 <= d2
  BY <1>7, <1>8, <1>12
<1>15. d2 = d1 => d3 = d2
  OBVIOUS
<1> HIDE DEF d2
<1>16. d3 \in Int /\ R(d2) \in Int /\ d3 * q <= MaxLoss - R(d2) /\ MaxLoss - R(d2) < d3 * q + q
  BY <1>6, <1>12
<1> HIDE DEF d3
<1>17. R(d3) \in Int /\ (d2 <= d3 => R(d3) <= R(d2))
  BY <1>6, <1>7, <1>12, <1>16
<1>18. d2 <= d3
  <2>1. CASE d0 <= d1
    BY <2>1, <1>10, <1>13
  <2>2. CASE d1 < d0 /\ d2 = d1
    BY <2>2, <1>12, <1>15, <1>16
  <2>3. CASE d1 < d0 /\ d2 < d1
    <3>1. d2 + 1 <= d1 /\ d2 + 1 \in Int
      BY <2>3, <1>8, <1>12
    <3>2. (d2 + 1) * q <= d1 * q
      BY <3>1, <1>1, <1>8, ProductsGrow
    <3>3. (d2 + 1) * q = d2 * q + q
      BY <1>1, <1>12
    <3> DEFINE u == d1 * q
    <3> DEFINE v == d2 * q
    <3> DEFINE w == d3 * q
    <3>4. u \in Int /\ v \in Int /\ w \in Int
      BY <1>1, <1>8, <1>12, <1>16
    <3>5. v + q <= u /\ u <= MaxLoss - R(d0) /\ MaxLoss - R(d2) < w + q
      BY <3>2, <3>3, <1>9, <1>16
    <3> HIDE DEF u, v, w
    <3>6. v < w + q
      BY <3>4, <3>5, <1>1, <1>2, <1>9, <1>16, SettingsTypes
    <3>7. ~ (d3 + 1 <= d2)
      <4>1. SUFFICES ASSUME d3 + 1 <= d2 PROVE FALSE
        OBVIOUS
      <4>2. (d3 + 1) * q <= d2 * q
        BY <4>1, <1>1, <1>12, <1>16, ProductsGrow
      <4>3. (d3 + 1) * q = d3 * q + q
        BY <1>1, <1>16
      <4> QED
        BY <4>2, <4>3, <3>4, <3>6, <1>1 DEF v, w
    <3> QED
      BY <3>7, <1>12, <1>16
  <2> QED
    BY <2>1, <2>2, <2>3, <1>5, <1>8, <1>11, <1>12
<1>19. R(d3) <= R(d2)
  BY <1>17, <1>18
<1>20. d3 * q + R(d3) <= MaxLoss
  <2> DEFINE w == d3 * q
  <2>1. w \in Int /\ w <= MaxLoss - R(d2)
    BY <1>1, <1>16
  <2> HIDE DEF w
  <2>2. w + R(d3) <= MaxLoss
    BY <2>1, <1>16, <1>17, <1>19, SettingsTypes
  <2> QED
    BY <2>2 DEF w
<1> QED
  BY <1>3, <1>16, <1>20 DEF R, q

LEMMA PercentGrows ==
  ASSUME NEW n \in Nat, NEW a \in Nat, NEW b \in Nat
  PROVE  /\ Percent(n, a) \in Nat
         /\ n >= 100 /\ a < b => Percent(n, a) < Percent(n, b)
<1> DEFINE A == n * a
<1> DEFINE B == n * b
<1>1. A \in Nat /\ B \in Nat
  OBVIOUS
<1>2. n >= 100 /\ a < b => A + 100 <= B
  <2>1. SUFFICES ASSUME n >= 100, a + 1 <= b PROVE A + 100 <= B
    OBVIOUS
  <2>2. (a + 1) * n <= b * n
    BY <2>1, ProductsGrow
  <2>3. (a + 1) * n = A + n /\ b * n = B
    OBVIOUS
  <2> QED
    BY <2>1, <2>2, <2>3, <1>1
<1>3. Percent(n, a) = A \div 100 /\ Percent(n, b) = B \div 100
  BY DEF Percent
<1> HIDE DEF A, B
<1> QED
  BY <1>1, <1>2, <1>3

(* geometry.py: what the levels of a plan are, by the form that made them.  *)
NetLevels(l, r, x, p, qty) ==
  LET d == NetDistance(r, x, p, qty)
  IN  0 < d /\ d < p /\ l.stop = p - d /\ l.target = p + d * TargetMultiple

LEMMA LevelsStand ==
  ASSUME NEW g \in {"rupee", "percent", "points"}, NEW r \in RateTable, NEW x \in OptionExchanges,
         NEW p \in Premiums, NEW lot \in LotSizes, NEW qty \in Nat,
         g = "rupee" => qty = lot * MaxLots,
         Levels(g, r, x, p, qty).why = "ok"
  PROVE  LET l == Levels(g, r, x, p, qty)
         IN  /\ l.stop \in Int /\ l.target \in Int
             /\ l.stop < p /\ p < l.target => PlanAccepted(p, l)
             /\ g = "rupee" => NetLevels(l, r, x, p, qty)
<1> DEFINE l == Levels(g, r, x, p, qty)
<1>1. p \in Nat /\ p >= 100
  BY InputTypes
<1>2. /\ Percent(p, LockPct) \in Nat /\ Percent(p, StopPct) \in Nat /\ Percent(p, TargetPct) \in Nat
      /\ Percent(p, LockPct) < Percent(p, TargetPct)
  BY <1>1, PercentGrows, SettingsTypes
<1> DEFINE gain == Percent(p, LockPct)
<1> DEFINE reach == Percent(p, TargetPct)
<1> DEFINE fall == Percent(p, StopPct)
<1>3. CASE g = "percent"
  <2>1. l = [why |-> "ok", stop |-> p - fall, target |-> p + reach, lock |-> p + gain]
    BY <1>3 DEF Levels, PercentLevels
  <2> HIDE DEF l, gain, reach, fall
  <2>2. l.stop = p - fall /\ l.target = p + reach /\ l.lock = p + gain
    BY <2>1
  <2>3. gain \in Nat /\ fall \in Nat /\ reach \in Nat /\ gain < reach
    BY <1>2 DEF gain, reach, fall
  <2>4. l.stop \in Int /\ l.target \in Int /\ l.lock \in Int /\ l.lock < l.target /\ p <= l.lock
    BY <2>2, <2>3, <1>1
  <2>5. l.stop < p /\ p < l.target => PlanAccepted(p, l)
    BY <2>4, <1>1 DEF PlanAccepted
  <2> QED
    BY <2>4, <2>5, <1>3 DEF l
<1>4. CASE g = "points"
  <2>1. l = [why |-> "ok", stop |-> p - StopPoints, target |-> p + TargetPoints, lock |-> Unset]
    BY <1>4 DEF Levels, PointLevels, NoLevels
  <2> HIDE DEF l
  <2>2. l.stop \in Int /\ l.target \in Int /\ l.lock = Unset
    BY <2>1, <1>1, SettingsTypes
  <2>3. l.stop < p /\ p < l.target => PlanAccepted(p, l)
    BY <2>2 DEF PlanAccepted
  <2> QED
    BY <2>2, <2>3, <1>4 DEF l
<1>5. CASE g = "rupee"
  <2> DEFINE d == NetDistance(r, x, p, qty)
  <2> DEFINE target == p + d * TargetMultiple
  <2> DEFINE lock == p + gain
  <2>1. d \in Int
    BY <1>5, StopIsNet
  <2>2. l = RupeeLevels(r, x, p, qty)
    BY <1>5 DEF Levels
  <2>3. 0 < d /\ d < p /\ l = [why |-> "ok", stop |-> p - d, target |-> target, lock |-> IF lock < target THEN lock ELSE Unset]
    <3>1. l.why = "ok"
      OBVIOUS
    <3> HIDE DEF l, d
    <3>2. ~ (d <= 0) /\ ~ (d >= p)
      BY <3>1, <2>2 DEF RupeeLevels, NoLevels, d
    <3> QED
      BY <3>2, <2>1, <2>2, <1>1 DEF RupeeLevels, d
  <2>4. d * TargetMultiple \in Int
    BY <2>1, SettingsTypes
  <2>5. lock \in Nat /\ p <= lock /\ target \in Int
    BY <1>1, <1>2, <2>4
  <2> HIDE DEF l, d, target, lock
  <2>6. l.stop = p - d /\ l.target = target /\ ((l.lock = lock /\ lock < target) \/ l.lock = Unset)
    BY <2>3
  <2>7. l.stop < p /\ p < l.target => PlanAccepted(p, l)
    BY <2>1, <2>3, <2>5, <2>6, <1>1 DEF PlanAccepted, Unset
  <2>8. NetLevels(l, r, x, p, qty)
    BY <2>3, <2>6 DEF NetLevels, d, target
  <2>9. l.stop \in Int /\ l.target \in Int
    BY <2>1, <2>5, <2>6, <1>1
  <2> QED
    BY <2>7, <2>8, <2>9 DEF l
<1> QED
  BY <1>3, <1>4, <1>5

(* sizing.py: what is bought fits each of the caps.                         *)
LEMMA LotsFit ==
  ASSUME NEW a \in Nat, NEW per \in Nat, NEW n \in Nat, per > 0, n <= LotsIn(a, per)
  PROVE  per * n <= a
<1>1. LotsIn(a, per) = a \div per
  BY DEF LotsIn
<1>2. a \div per \in Int /\ (a \div per) * per <= a
  BY QuotientFits
<1> DEFINE Q == a \div per
<1> HIDE DEF Q
<1>3. Q \in Int /\ Q * per <= a /\ n <= Q
  BY <1>1, <1>2 DEF Q
<1>4. n * per <= Q * per
  BY <1>3, ProductsGrow
<1>5. n * per = per * n
  OBVIOUS
<1> QED
  BY <1>3, <1>4, <1>5

LEMMA SizeFits ==
  ASSUME NEW r, NEW x, NEW capital \in Nat, NEW p \in Nat, NEW stop \in Int, NEW target \in Int,
         NEW lot \in Nat, NEW ceiling \in BOOLEAN, NEW sized, NEW n \in Nat,
         p > 0, lot > 0, sized = SizePosition(r, x, capital, p, stop, target, lot, ceiling), sized # 0
  PROVE  /\ stop < p /\ p < target /\ sized \in Nat
         /\ n <= sized => /\ ((p - stop) * lot) * n <= Percent(capital, RiskPct)
                          /\ (p * lot) * n <= Percent(capital, PositionPct)
                          /\ ceiling => n <= MaxLots
<1> DEFINE edge == (target - p) * lot
<1> DEFINE risk == (p - stop) * lot
<1> DEFINE price == p * lot
<1> DEFINE dare == Percent(capital, RiskPct)
<1> DEFINE share == Percent(capital, PositionPct)
<1> DEFINE byRisk == LotsIn(dare, risk)
<1> DEFINE byCapital == LotsIn(capital, price)
<1> DEFINE byPosition == LotsIn(share, price)
<1>1. dare \in Nat /\ share \in Nat
  BY PercentGrows, SettingsTypes
<1>2. edge \in Int /\ risk \in Int /\ price \in Nat /\ price > 0
  BY ProductsGrow
<1>3. ~ (edge <= 0) /\ ~ (risk <= 0) /\ ~ (byRisk < 1) /\ ~ (byCapital < 1) /\ ~ (byPosition < 1)
  BY DEF SizePosition
<1>4. sized = Capped(Least(byRisk, Least(byCapital, byPosition)), ceiling)
  BY <1>3 DEF SizePosition
<1>5. stop < p /\ p < target
  <2>1. ~ (target - p <= 0)
    <3>1. SUFFICES ASSUME target - p <= 0 PROVE FALSE
      OBVIOUS
    <3>2. (target - p) * lot <= 0 * lot
      BY <3>1, ProductsGrow
    <3> QED
      BY <3>2, <1>3
  <2>2. ~ (p - stop <= 0)
    <3>1. SUFFICES ASSUME p - stop <= 0 PROVE FALSE
      OBVIOUS
    <3>2. (p - stop) * lot <= 0 * lot
      BY <3>1, ProductsGrow
    <3> QED
      BY <3>2, <1>3
  <2> QED
    BY <2>1, <2>2
<1>6. risk \in Nat /\ risk > 0
  BY <1>2, <1>3
<1> HIDE DEF edge, risk, price, dare, share
<1>7. byRisk \in Int /\ byCapital \in Int /\ byPosition \in Int
  BY <1>1, <1>2, <1>6, QuotientFits DEF LotsIn
<1>8. ASSUME n <= byRisk PROVE risk * n <= dare
  BY <1>1, <1>6, <1>8, LotsFit
<1>9. ASSUME n <= byPosition PROVE price * n <= share
  BY <1>1, <1>2, <1>9, LotsFit
<1> HIDE DEF byRisk, byCapital, byPosition
<1>10. sized \in Nat /\ sized <= byRisk /\ sized <= byPosition /\ (ceiling => sized <= MaxLots)
  BY <1>3, <1>4, <1>7, SettingsTypes DEF Capped, Least
<1>11. n <= sized => n <= byRisk /\ n <= byPosition /\ (ceiling => n <= MaxLots)
  BY <1>7, <1>10, SettingsTypes
<1> QED
  BY <1>5, <1>8, <1>9, <1>10, <1>11 DEF risk, price, dare, share

(* pnl.py: at neither exit is more lost than the rupees of the settings.    *)
LEMMA LossIsCapped ==
  ASSUME NEW l, NEW r \in RateTable, NEW x \in OptionExchanges, NEW p \in Premiums, NEW lot \in LotSizes,
         NEW n \in Nat, n > 0, n <= MaxLots,
         NetLevels(l, r, x, p, lot * MaxLots)
  PROVE  /\ NetPnl(r, x, p, l.stop, n * lot) >= -MaxLoss
         /\ NetPnl(r, x, p, l.target, n * lot) >= -MaxLoss
<1> DEFINE most == lot * MaxLots
<1> DEFINE q == n * lot
<1> DEFINE d == NetDistance(r, x, p, most)
<1> DEFINE S == RoundTrip(r, x, p, p - d, q)
<1> DEFINE T == RoundTrip(r, x, p, p + d * TargetMultiple, q)
<1>1. r \in ChargeRates /\ SmallRates(r, x) /\ p \in Nat /\ lot \in Nat /\ lot >= 6
  BY InputTypes
<1>2. d \in Int /\ 0 < d /\ d < p /\ l.stop = p - d /\ l.target = p + d * TargetMultiple
  BY StopIsNet DEF NetLevels
<1>3. d * most + RoundTrip(r, x, p, p - d, most) <= MaxLoss
  BY StopIsNet
<1>4. most \in Nat /\ q \in Nat /\ q <= most /\ q >= 6
  <2>1. n * lot <= MaxLots * lot /\ 1 * lot <= n * lot
    BY <1>1, SettingsTypes, ProductsGrow
  <2>2. MaxLots * lot = lot * MaxLots /\ most \in Nat /\ q \in Nat
    BY <1>1, SettingsTypes
  <2> QED
    BY <2>1, <2>2, <1>1
<1>5. NetPnl(r, x, p, l.stop, q) = ((p - d) - p) * q - S
  BY <1>2 DEF NetPnl
<1>6. NetPnl(r, x, p, l.target, q) = ((p + d * TargetMultiple) - p) * q - T
  BY <1>2 DEF NetPnl
<1> HIDE DEF most, q, d
<1> DEFINE M == RoundTrip(r, x, p, p - d, most)
<1> DEFINE reach == d * TargetMultiple
<1>7. p - d \in Nat /\ reach \in Int /\ d <= reach /\ p + reach \in Int
  <2>1. 1 * d <= TargetMultiple * d /\ TargetMultiple * d = reach /\ reach \in Int
    BY <1>2, SettingsTypes, ProductsGrow
  <2> QED
    BY <2>1, <1>1, <1>2
<1>8. T = RoundTrip(r, x, p, p + reach, q)
  OBVIOUS
<1> HIDE DEF reach
<1>9. S <= M
  BY <1>1, <1>4, <1>7, MoreUnitsCostMore
<1>10. S \in Int /\ T \in Int /\ M \in Int /\ 2 * (T - S) <= ((p + reach) - (p - d)) * q + 12
  <2>1. p - d <= p + reach /\ p - d \in Int
    BY <1>1, <1>2, <1>7
  <2>2. /\ S \in Int /\ RoundTrip(r, x, p, p + reach, q) \in Int
        /\ 2 * (RoundTrip(r, x, p, p + reach, q) - S) <= ((p + reach) - (p - d)) * q + 12
    BY <2>1, <1>1, <1>4, <1>7, BetterExitsCostMore
  <2>3. M \in Int
    BY <2>1, <1>1, <1>4, <1>7, BetterExitsCostMore
  <2> QED
    BY <2>2, <2>3, <1>8
<1> HIDE DEF S, T, M
<1> DEFINE D == d * q
<1> DEFINE E == reach * q
<1>11. /\ D \in Int /\ E \in Int /\ ((p - d) - p) * q = -D /\ ((p + reach) - p) * q = E
       /\ ((p + reach) - (p - d)) * q = E + D
  BY <1>1, <1>2, <1>4, <1>7
<1>12. D <= d * most /\ 6 <= D /\ D <= E
  <2>1. q * d <= most * d /\ 1 * q <= d * q /\ d * q <= reach * q
    BY <1>2, <1>4, <1>7, ProductsGrow
  <2>2. q * d = d * q /\ most * d = d * most
    BY <1>2, <1>4
  <2>3. 1 * q = q /\ q >= 6
    BY <1>4
  <2> HIDE DEF E
  <2> DEFINE G == d * most
  <2>4. G \in Int /\ D <= G /\ q <= D
    BY <2>1, <2>2, <2>3, <1>2, <1>4
  <2>5. D <= E
    BY <2>1 DEF E
  <2> HIDE DEF D, G
  <2> QED
    BY <2>3, <2>4, <2>5, <1>4, <1>11 DEF G
<1> DEFINE F == d * most
<1>13. F \in Int /\ F + M <= MaxLoss /\ D <= F
  BY <1>2, <1>3, <1>4, <1>12 DEF M
<1>14. NetPnl(r, x, p, l.stop, q) = -D - S /\ NetPnl(r, x, p, l.target, q) = E - T /\ 2 * (T - S) <= E + D + 12
  BY <1>5, <1>6, <1>10, <1>11 DEF reach
<1> HIDE DEF D, E, F
<1>15. D + S <= MaxLoss
  BY <1>9, <1>10, <1>11, <1>13, SettingsTypes
<1>16. NetPnl(r, x, p, l.stop, q) >= -MaxLoss
  BY <1>10, <1>11, <1>14, <1>15, SettingsTypes
<1>17. NetPnl(r, x, p, l.target, q) >= -MaxLoss
  BY <1>10, <1>11, <1>12, <1>14, <1>15, SettingsTypes
<1> QED
  BY <1>16, <1>17 DEF q

(* costs.py: a day the table reaches back to has a row in force.            *)
LEMMA RateIsThere ==
  ASSUME NEW on \in TradeDays
  PROVE  RatesFor(on) \in RateTable
<1> DEFINE Due == {row \in RateTable : row.from <= on}
<1> DEFINE Ages == {on - row.from : row \in Due}
<1>1. on \in Nat /\ \A row \in RateTable : row.from \in Nat
  BY SizingAssumption, InputTypes DEF ChargeRates
<1>2. Ages \subseteq Nat /\ Ages # {}
  <2>1. PICK row \in RateTable : row.from <= on
    BY SizingAssumption DEF RatesReachBack
  <2>2. on - row.from \in Ages
    BY <2>1
  <2>3. \A due \in Due : on - due.from \in Nat
    BY <1>1
  <2> QED
    BY <2>2, <2>3
<1>3. PICK age \in Ages : \A other \in Ages : age <= other
  <2> HIDE DEF Ages
  <2> QED
    BY <1>2, LeastElement
<1>4. PICK row \in Due : age = on - row.from
  OBVIOUS
<1>5. \A other \in RateTable : other.from <= on => other.from <= row.from
  <2>1. SUFFICES ASSUME NEW other \in RateTable, other.from <= on PROVE other.from <= row.from
    OBVIOUS
  <2>2. on - other.from \in Ages
    BY <2>1
  <2>3. on - row.from <= on - other.from
    BY <2>2, <1>3, <1>4
  <2> QED
    BY <2>3, <1>1
<1> QED
  BY <1>5 DEF RatesFor

(* cycle.py: an order that goes out keeps its word, and so does its close.  *)
LEMMA TicketStands ==
  ASSUME NEW in \in Inputs, ConfigAccepted(in), NEW t, t = Ticket(in), t.lots > 0
  PROVE  /\ t.in = in /\ t.lots \in Nat
         /\ PlanAccepted(in.premium, t.levels)
         /\ LET qty == t.lots * in.lot
            IN  /\ (in.premium - t.levels.stop) * qty <= Percent(in.equity, RiskPct)
                /\ in.premium * qty <= Percent(in.equity, PositionPct)
                /\ in.freeze >= in.lot => qty <= in.freeze
         /\ in.rupees =>
              \A exit \in {t.levels.stop, t.levels.target} :
                NetPnl(RatesFor(in.on), in.exchange, in.premium, exit, t.lots * in.lot) >= -MaxLoss
<1> DEFINE r == RatesFor(in.on)
<1> DEFINE x == in.exchange
<1> DEFINE p == in.premium
<1> DEFINE lot == in.lot
<1> DEFINE most == IF in.ceiling THEN lot * MaxLots ELSE lot
<1> DEFINE g == ExitGeometry(in.rupees, in.percents)
<1> DEFINE l == Levels(g, r, x, p, most)
<1> DEFINE sized == SizePosition(r, x, in.equity, p, l.stop, l.target, lot, in.ceiling)
<1> DEFINE share == Composed(IF in.throttled THEN ThrottlePct ELSE 100, in.ml)
<1> DEFINE lots == (sized * share) \div 10000
<1>1. /\ in.on \in TradeDays /\ x \in OptionExchanges /\ p \in Premiums /\ lot \in LotSizes
      /\ in.ceiling \in BOOLEAN /\ in.rupees \in BOOLEAN /\ in.percents \in BOOLEAN
      /\ in.equity \in Nat /\ in.freeze \in Nat /\ in.ml \in 0 .. 100
  BY InputTypes DEF Inputs
<1>2. r \in RateTable
  BY <1>1, RateIsThere
<1>3. p \in Nat /\ p > 0 /\ lot \in Nat /\ lot > 0
  BY <1>1, InputTypes
<1>4. most \in Nat /\ (g = "rupee" => most = lot * MaxLots) /\ g \in {"rupee", "percent", "points"} /\ (in.rupees => g = "rupee")
  BY <1>1, <1>3, SettingsTypes DEF ConfigAccepted, ExitGeometry
<1>5. /\ l.why = "ok" /\ sized # 0 /\ ~ (lots < 1)
      /\ t = [lots |-> FreezeCapped(lots, lot, in.freeze), why |-> "ok", in |-> in, levels |-> l]
  <2> HIDE DEF l
  <2>1. ~ (l.why # "ok")
    <3>1. ASSUME l.why # "ok" PROVE t = [lots |-> 0, why |-> l.why]
      BY <3>1 DEF Ticket, l
    <3> QED
      BY <3>1
  <2> HIDE DEF sized
  <2>2. sized # 0
    <3>1. ASSUME sized = 0 PROVE t = [lots |-> 0, why |-> "sizing"]
      BY <3>1, <2>1 DEF Ticket, l, sized
    <3> QED
      BY <3>1
  <2> HIDE DEF lots
  <2>3. ~ (lots < 1)
    <3>1. ASSUME lots < 1 PROVE t = [lots |-> 0, why |-> "multiplier"]
      BY <3>1, <2>1, <2>2 DEF Ticket, l, sized, lots
    <3> QED
      BY <3>1
  <2>4. t = [lots |-> FreezeCapped(lots, lot, in.freeze), why |-> "ok", in |-> in, levels |-> l]
    BY <2>1, <2>2, <2>3 DEF Ticket, l, sized, lots
  <2> QED
    BY <2>1, <2>2, <2>3, <2>4
<1>6. t.in = in /\ t.levels = l /\ t.lots = FreezeCapped(lots, lot, in.freeze)
  BY <1>5
<1>7. /\ l.stop \in Int /\ l.target \in Int
      /\ l.stop < p /\ p < l.target => PlanAccepted(p, l)
      /\ g = "rupee" => NetLevels(l, r, x, p, most)
  <2> HIDE DEF r, x, p, lot, most, g
  <2> QED
    BY <1>1, <1>2, <1>4, <1>5, LevelsStand DEF l
<1> HIDE DEF l
<1>8. share \in 0 .. 10000
  <2> DEFINE a == IF in.throttled THEN ThrottlePct ELSE 100
  <2>1. a \in 0 .. 100
    BY SettingsTypes
  <2> HIDE DEF a
  <2>2. a * in.ml <= 100 * in.ml /\ 0 * in.ml <= a * in.ml /\ a * in.ml \in Int
    BY <2>1, <1>1, ProductsGrow
  <2> DEFINE b == a * in.ml
  <2>3. share = b
    BY DEF Composed, a
  <2>4. b \in Int /\ 0 <= b /\ b <= 100 * in.ml
    BY <2>2, <1>1
  <2> HIDE DEF share, b
  <2>5. b <= 10000
    BY <2>4, <1>1
  <2> QED
    BY <2>3, <2>4, <2>5
<1> HIDE DEF share, r, x, p, lot, most, g
<1>9. \A n \in Nat : /\ l.stop < p /\ p < l.target /\ sized \in Nat
                     /\ n <= sized => /\ ((p - l.stop) * lot) * n <= Percent(in.equity, RiskPct)
                                      /\ (p * lot) * n <= Percent(in.equity, PositionPct)
                                      /\ in.ceiling => n <= MaxLots
  BY <1>1, <1>3, <1>5, <1>7, SizeFits
<1>10. l.stop < p /\ p < l.target /\ sized \in Nat
  BY <1>9
<1> HIDE DEF sized
<1>11. lots \in Int /\ lots <= sized
  <2> DEFINE A == sized * share
  <2>1. A \in Int /\ share * sized <= 10000 * sized /\ share * sized = A
    BY <1>8, <1>10, ProductsGrow
  <2>2. lots = A \div 10000
    OBVIOUS
  <2> HIDE DEF A, lots
  <2> QED
    BY <2>1, <2>2, <1>10
<1> HIDE DEF lots
<1> DEFINE n == t.lots
<1> DEFINE most2 == in.freeze \div lot
<1>12. most2 \in Int /\ most2 * lot <= in.freeze
  BY <1>1, <1>3, QuotientFits
<1>13. n = lots \/ n = Least(lots, most2)
  BY <1>6 DEF FreezeCapped
<1>14. in.freeze >= lot => n = Least(lots, most2)
  BY <1>1, <1>3, <1>6 DEF FreezeCapped
<1>15. n > 0
  OBVIOUS
<1> HIDE DEF n, most2
<1>16. n \in Nat /\ n <= sized /\ (in.freeze >= lot => n <= most2)
  BY <1>10, <1>11, <1>12, <1>13, <1>14, <1>15 DEF Least
<1>17. in.freeze >= lot => n * lot <= in.freeze
  <2>1. SUFFICES ASSUME in.freeze >= lot PROVE n * lot <= in.freeze
    OBVIOUS
  <2>2. n * lot <= most2 * lot
    BY <2>1, <1>3, <1>12, <1>16, ProductsGrow
  <2> DEFINE a == n * lot
  <2> DEFINE b == most2 * lot
  <2>3. a \in Int /\ b \in Int /\ a <= b /\ b <= in.freeze
    BY <2>2, <1>3, <1>12, <1>16
  <2> HIDE DEF a, b
  <2>4. a <= in.freeze
    BY <2>3, <1>1
  <2> QED
    BY <2>4 DEF a
<1>18. (p - l.stop) * (n * lot) = ((p - l.stop) * lot) * n /\ p * (n * lot) = (p * lot) * n
  BY <1>3, <1>7, <1>16
<1>19. /\ (p - l.stop) * (n * lot) <= Percent(in.equity, RiskPct)
       /\ p * (n * lot) <= Percent(in.equity, PositionPct)
       /\ in.ceiling => n <= MaxLots
  BY <1>9, <1>16, <1>18
<1>20. PlanAccepted(p, l)
  BY <1>7, <1>10
<1>21. ASSUME in.rupees
       PROVE  NetPnl(r, x, p, l.stop, n * lot) >= -MaxLoss /\ NetPnl(r, x, p, l.target, n * lot) >= -MaxLoss
  <2>1. NetLevels(l, r, x, p, lot * MaxLots) /\ n <= MaxLots
    BY <1>4, <1>7, <1>19, <1>21 DEF ConfigAccepted
  <2> QED
    BY <2>1, <1>1, <1>2, <1>15, <1>16, LossIsCapped DEF x, p, lot
<1> QED
  BY <1>6, <1>16, <1>17, <1>19, <1>20, <1>21 DEF n, p, lot, x, r

TicketIsOfInputs == ticket = NoTicket \/ \E in \in Inputs : ConfigAccepted(in) /\ ticket = Ticket(in)
PnlIsOfAnExit ==
  pnl = 0 \/ (ticket.lots > 0 /\ \E exit \in {ticket.levels.stop, ticket.levels.target} :
                pnl = NetPnl(RatesFor(ticket.in.on), ticket.in.exchange, ticket.in.premium, exit, ticket.lots * ticket.in.lot))
SizingInv == TicketIsOfInputs /\ PnlIsOfAnExit

LEMMA SizingInvariant == SizingSpec => []SizingInv
<1>1. SizingInit => SizingInv
  BY DEF SizingInit, SizingInv, TicketIsOfInputs, PnlIsOfAnExit
<1>2. SizingInv /\ [SizingNext]_sizingVars => SizingInv'
  <2>1. SUFFICES ASSUME SizingInv, [SizingNext]_sizingVars PROVE SizingInv'
    OBVIOUS
  <2>2. ASSUME Enters PROVE SizingInv'
    <3>1. TicketIsOfInputs'
      BY <2>2 DEF Enters, TicketIsOfInputs
    <3>2. pnl = 0
      BY <2>1, <2>2 DEF Enters, SizingInv, PnlIsOfAnExit, NoTicket
    <3> QED
      BY <2>2, <3>1, <3>2 DEF Enters, SizingInv, PnlIsOfAnExit
  <2>3. ASSUME Leaves PROVE SizingInv'
    BY <2>1, <2>3 DEF Leaves, SizingInv, TicketIsOfInputs, PnlIsOfAnExit
  <2>4. ASSUME UNCHANGED sizingVars PROVE SizingInv'
    BY <2>1, <2>4 DEF sizingVars, SizingInv, TicketIsOfInputs, PnlIsOfAnExit
  <2> QED
    BY <2>1, <2>2, <2>3, <2>4 DEF SizingNext
<1> QED
  BY <1>1, <1>2, PTL DEF SizingSpec

(* sizing.py, geometry.py, cycle.py: an order that goes out has a plan that *)
(* will be accepted, is within the budget, the share of one position and    *)
(* the freeze quantity, and loses no more than the rupees of the settings,  *)
(* charges included, at any premium, lot, capital and table of charges.     *)
THEOREM OrdersKeepTheirWord == SizingSpec => []EntryKeepsItsWord
<1>1. SizingInv => EntryKeepsItsWord
  <2>1. SUFFICES ASSUME SizingInv, ticket.lots > 0 PROVE PlanStands /\ WithinBudget /\ CapIsNet
    BY DEF EntryKeepsItsWord
  <2>2. PICK in \in Inputs : ConfigAccepted(in) /\ ticket = Ticket(in)
    BY <2>1 DEF SizingInv, TicketIsOfInputs, NoTicket
  <2>3. /\ ticket.in = in
        /\ PlanAccepted(in.premium, ticket.levels)
        /\ (in.premium - ticket.levels.stop) * (ticket.lots * in.lot) <= Percent(in.equity, RiskPct)
        /\ in.premium * (ticket.lots * in.lot) <= Percent(in.equity, PositionPct)
        /\ in.freeze >= in.lot => ticket.lots * in.lot <= in.freeze
        /\ in.rupees =>
             \A exit \in {ticket.levels.stop, ticket.levels.target} :
               NetPnl(RatesFor(in.on), in.exchange, in.premium, exit, ticket.lots * in.lot) >= -MaxLoss
    BY <2>1, <2>2, TicketStands
  <2>4. PlanStands /\ WithinBudget
    BY <2>3 DEF PlanStands, WithinBudget
  <2>5. CapIsNet
    <3>1. CASE pnl = 0
      BY <3>1, SettingsTypes DEF CapIsNet
    <3>2. CASE pnl # 0
      BY <3>2, <2>1, <2>3 DEF CapIsNet, SizingInv, PnlIsOfAnExit
    <3> QED
      BY <3>1, <3>2
  <2> QED
    BY <2>4, <2>5
<1> QED
  BY <1>1, SizingInvariant, PTL

-----------------------------------------------------------------------------
(* Training.                                                                *)

(* train.py, trials.py, registry.py: the sample is in the order of its      *)
(* firings and the life of a label has a bound; the ledger has a row for    *)
(* every fit that was scored; a version is the number of its row; and what  *)
(* the provider holds is what it looked up.                                 *)
LabelledEntry == [p : Nat, e : Nat, y : {0, 1}]
SampleInv ==
  /\ sample \in Seq(LabelledEntry) /\ Len(sample) <= MaxRows
  /\ \A i \in 1 .. Len(sample) : sample[i].p < sample[i].e
  /\ \A i, j \in 1 .. Len(sample) : i < j => sample[i].p <= sample[j].p
  /\ \E most \in Nat : \A i \in 1 .. Len(sample) : sample[i].e <= sample[i].p + most
JobInv ==
  /\ training \in [at : {"idle", "search"}, frame : 0 .. Len(sample), done : Nat, backend : ModelBackend]
  /\ training.at = "idle" => training = Asleep
  /\ nights \in 0 .. MaxNights
CountInv ==
  /\ ledger \in Seq(0 .. MaxRows) /\ tried \in [0 .. MaxRows -> Nat]
  /\ \A n \in 0 .. MaxRows : NTrials(n) \in Nat /\ NTrials(n) >= tried[n]
ModelsInv ==
  /\ models \in Seq(ModelRecord)
  /\ \A i \in 1 .. Len(models) : models[i].version = i /\ models[i].trials >= models[i].fits
ServeInv ==
  /\ shadow \in [id : 0 .. Len(models), model : 0 .. Len(models)] /\ shadow.model = shadow.id
  /\ call \in [at : {"idle", "load"}, asked : 0 .. Len(models), found : 0 .. Len(models)] /\ call.asked = call.found
  /\ \A s \in served : s.model # 0 => s.model >= s.asked
TrainingInv == SampleInv /\ JobInv /\ CountInv /\ ModelsInv /\ ServeInv

LEMMA RowTypes ==
  ASSUME SampleInv
  PROVE  /\ Len(sample) \in Nat /\ DOMAIN sample = 1 .. Len(sample) /\ sample \in Seq(LabelledEntry)
         /\ \A i \in 1 .. Len(sample) : sample[i] \in LabelledEntry /\ sample[i].p \in Nat /\ sample[i].e \in Nat
                                       /\ sample[i].p < sample[i].e
<1>1. sample \in Seq(LabelledEntry)
  BY DEF SampleInv
<1>2. \A i \in 1 .. Len(sample) : sample[i] \in LabelledEntry
  BY <1>1
<1>3. \A r \in LabelledEntry : r.p \in Nat /\ r.e \in Nat
  BY DEF LabelledEntry
<1>4. \A i \in 1 .. Len(sample) : sample[i].p < sample[i].e
  BY DEF SampleInv
<1> QED
  BY <1>1, <1>2, <1>3, <1>4

(* One more row of the ledger is one more trial of its frame.               *)
LEMMA RecordedOnce ==
  ASSUME ledger \in Seq(0 .. MaxRows), NEW f \in 0 .. MaxRows, NEW n \in 0 .. MaxRows,
         ledger' = RecordedTrial(f)
  PROVE  /\ NTrials(n) \in Nat
         /\ NTrials(n)' = NTrials(n) + (IF n = f THEN 1 ELSE 0)
<1> DEFINE Old == {i \in DOMAIN ledger : ledger[i] = n}
<1> DEFINE New == {i \in DOMAIN ledger' : ledger'[i] = n}
<1> DEFINE last == Len(ledger) + 1
<1>1. /\ Len(ledger) \in Nat /\ DOMAIN ledger = 1 .. Len(ledger)
      /\ DOMAIN ledger' = 1 .. last /\ ledger'[last] = f
      /\ \A i \in 1 .. Len(ledger) : ledger'[i] = ledger[i]
  BY DEF RecordedTrial
<1>2. IsFiniteSet(Old)
  <2>1. IsFiniteSet(1 .. Len(ledger))
    BY <1>1, FS_Interval
  <2>2. Old \subseteq 1 .. Len(ledger)
    BY <1>1
  <2> QED
    BY <2>1, <2>2, FS_Subset
<1>3. ~ (last \in Old)
  BY <1>1
<1>4. n = f => New = Old \cup {last}
  BY <1>1
<1>5. n # f => New = Old
  BY <1>1
<1>6. NTrials(n) = Cardinality(Old) /\ NTrials(n)' = Cardinality(New)
  BY DEF NTrials
<1> HIDE DEF Old, New, last
<1>7. Cardinality(Old) \in Nat
  BY <1>2, FS_CardinalityType
<1>8. Cardinality(Old \cup {last}) = Cardinality(Old) + 1
  BY <1>2, <1>3, FS_AddElement
<1>9. CASE n = f
  BY <1>4, <1>6, <1>7, <1>8, <1>9
<1>10. CASE n # f
  BY <1>5, <1>6, <1>7, <1>10
<1> QED
  BY <1>9, <1>10

LEMMA TrainingStarts == TrainingInit => TrainingInv
<1> SUFFICES ASSUME TrainingInit PROVE TrainingInv
  OBVIOUS
<1>1. SampleInv
  <2>1. sample = <<>>
    BY DEF TrainingInit
  <2>2. Len(sample) = 0 /\ sample \in Seq(LabelledEntry) /\ 0 <= MaxRows
    BY <2>1, TrainingAssumption
  <2>3. \A i \in 1 .. Len(sample) : FALSE
    BY <2>2
  <2>4. \E most \in Nat : \A i \in 1 .. Len(sample) : sample[i].e <= sample[i].p + most
    <3>1. 0 \in Nat
      OBVIOUS
    <3> QED
      BY <2>3, <3>1
  <2> QED
    BY <2>2, <2>3, <2>4 DEF SampleInv
<1>2. JobInv
  BY <1>1, TrainingAssumption DEF TrainingInit, JobInv, Asleep, ModelBackend, SampleInv
<1>3. CountInv
  <2>1. ledger = <<>> /\ tried = [n \in 0 .. MaxRows |-> 0]
    BY DEF TrainingInit
  <2>2. \A n : {i \in DOMAIN ledger : ledger[i] = n} = {}
    BY <2>1
  <2>3. Cardinality({}) = 0
    BY FS_EmptySet
  <2>4. \A n : NTrials(n) = 0
    BY <2>2, <2>3 DEF NTrials
  <2> QED
    BY <2>1, <2>4 DEF CountInv
<1>4. ModelsInv
  <2>1. models = <<>>
    BY DEF TrainingInit
  <2> QED
    BY <2>1 DEF ModelsInv
<1>5. ServeInv
  BY DEF TrainingInit, ServeInv, NoShadow, NoCall
<1> QED
  BY <1>1, <1>2, <1>3, <1>4, <1>5 DEF TrainingInv

LEMMA SampleGrows ==
  ASSUME SampleInv, NEW s \in NextRows, Len(sample) < MaxRows,
         sample' = Append(sample, [p |-> (IF sample = <<>> THEN 0 ELSE Last(sample).p) + s.later,
                                   e |-> ((IF sample = <<>> THEN 0 ELSE Last(sample).p) + s.later) + s.lasts, y |-> s.y])
  PROVE  SampleInv' /\ Len(sample') = Len(sample) + 1
<1> DEFINE before == IF sample = <<>> THEN 0 ELSE Last(sample).p
<1> DEFINE p == before + s.later
<1> DEFINE row == [p |-> p, e |-> p + s.lasts, y |-> s.y]
<1> DEFINE n == Len(sample)
<1>1. s.later \in Nat /\ s.lasts \in Nat /\ s.lasts > 0 /\ s.y \in {0, 1}
  BY TrainingAssumption
<1>2. /\ sample \in Seq(LabelledEntry) /\ n \in Nat /\ n < MaxRows /\ MaxRows \in Nat
      /\ \A i \in 1 .. n : sample[i] \in LabelledEntry /\ sample[i].p \in Nat /\ sample[i].e \in Nat
  BY RowTypes, TrainingAssumption
<1>3. before \in Nat /\ \A i \in 1 .. n : sample[i].p <= before
  <2>1. CASE sample = <<>>
    BY <2>1
  <2>2. CASE sample # <<>>
    <3>1. n \in 1 .. n /\ Last(sample) = sample[n]
      BY <1>2, <2>2 DEF Last
    <3>2. \A i \in 1 .. n : i = n \/ i < n
      BY <1>2
    <3>3. before = sample[n].p
      BY <2>2, <3>1
    <3> QED
      BY <1>2, <3>1, <3>2, <3>3 DEF SampleInv
  <2> QED
    BY <2>1, <2>2
<1> HIDE DEF before
<1>4. p \in Nat /\ row \in LabelledEntry /\ row.p = p /\ row.e = p + s.lasts /\ before <= p
  BY <1>1, <1>3 DEF LabelledEntry
<1>5. sample' = Append(sample, row)
  BY DEF before
<1> HIDE DEF row, p
<1>6. /\ sample' \in Seq(LabelledEntry) /\ Len(sample') = n + 1 /\ sample'[n + 1] = row
      /\ \A i \in 1 .. n : sample'[i] = sample[i]
  BY <1>2, <1>4, <1>5
<1>7. \A i \in 1 .. Len(sample') : i = n + 1 \/ i \in 1 .. n
  BY <1>2, <1>6
<1>8. \A i \in 1 .. Len(sample') : sample'[i].p < sample'[i].e
  BY <1>1, <1>4, <1>6, <1>7 DEF SampleInv
<1>9. \A i, j \in 1 .. Len(sample') : i < j => sample'[i].p <= sample'[j].p
  <2>1. SUFFICES ASSUME NEW i \in 1 .. Len(sample'), NEW j \in 1 .. Len(sample'), i < j
                 PROVE  sample'[i].p <= sample'[j].p
    OBVIOUS
  <2>2. i \in 1 .. n
    BY <2>1, <1>2, <1>6
  <2>3. CASE j \in 1 .. n
    BY <2>1, <2>2, <2>3, <1>6 DEF SampleInv
  <2>4. CASE j = n + 1
    <3>1. sample'[i].p = sample[i].p /\ sample'[j].p = p
      BY <2>2, <2>4, <1>4, <1>6
    <3>2. sample[i].p \in Nat /\ sample[i].p <= before
      BY <2>2, <1>2, <1>3
    <3> QED
      BY <3>1, <3>2, <1>3, <1>4
  <2> QED
    BY <2>3, <2>4, <1>7
<1>10. \E most \in Nat : \A i \in 1 .. Len(sample') : sample'[i].e <= sample'[i].p + most
  <2>1. PICK most \in Nat : \A i \in 1 .. n : sample[i].e <= sample[i].p + most
    BY DEF SampleInv
  <2>2. most + s.lasts \in Nat
    BY <2>1, <1>1
  <2>3. \A i \in 1 .. Len(sample') : sample'[i].e <= sample'[i].p + (most + s.lasts)
    <3>1. SUFFICES ASSUME NEW i \in 1 .. Len(sample') PROVE sample'[i].e <= sample'[i].p + (most + s.lasts)
      OBVIOUS
    <3>2. CASE i \in 1 .. n
      BY <3>2, <2>1, <1>1, <1>2, <1>6
    <3>3. CASE i = n + 1
      BY <3>3, <2>1, <1>1, <1>4, <1>6
    <3> QED
      BY <3>2, <3>3, <1>7
  <2> QED
    BY <2>2, <2>3
<1>11. Len(sample') <= MaxRows
  BY <1>2, <1>6
<1> QED
  BY <1>6, <1>8, <1>9, <1>10, <1>11 DEF SampleInv

LEMMA TrainingSteps == TrainingInv /\ [TrainingNext]_trainingVars => TrainingInv'
<1> SUFFICES ASSUME TrainingInv, [TrainingNext]_trainingVars PROVE TrainingInv'
  OBVIOUS
<1> USE DEF TrainingInv
<1>1. Len(sample) \in Nat /\ Len(models) \in Nat /\ MaxRows \in Nat
  BY TrainingAssumption DEF SampleInv, ModelsInv
<1>2. CASE Firing
  <2>1. /\ training = Asleep /\ Len(sample) < MaxRows
        /\ UNCHANGED <<ledger, models, training, nights, shadow, call, served, tried>>
    BY <1>2 DEF Firing
  <2>2. PICK s \in NextRows :
          sample' = Append(sample, [p |-> (IF sample = <<>> THEN 0 ELSE Last(sample).p) + s.later,
                                    e |-> ((IF sample = <<>> THEN 0 ELSE Last(sample).p) + s.later) + s.lasts, y |-> s.y])
    BY <1>2 DEF Firing
  <2>3. SampleInv' /\ Len(sample') = Len(sample) + 1
    BY <2>1, <2>2, SampleGrows
  <2>4. JobInv'
    <3>1. 0 .. Len(sample) \subseteq 0 .. Len(sample')
      BY <2>3, <1>1
    <3> QED
      BY <2>1, <3>1 DEF JobInv
  <2> QED
    BY <2>1, <2>3, <2>4 DEF CountInv, NTrials, ModelsInv, ServeInv
<1>3. CASE Night
  <2>1. UNCHANGED <<sample, ledger, models, shadow, call, served, tried>> /\ nights < MaxNights /\ nights' = nights + 1
    BY <1>3 DEF Night
  <2>2. nights' \in 0 .. MaxNights
    BY <2>1, TrainingAssumption DEF JobInv
  <2>3. \/ training' = training
        \/ \E b \in DOMAIN Grids : training' = [at |-> "search", frame |-> Len(sample), done |-> 0, backend |-> b]
    BY <1>3 DEF Night
  <2>4. JobInv'
    BY <2>1, <2>2, <2>3, <1>1, TrainingAssumption DEF JobInv
  <2> QED
    BY <2>1, <2>4 DEF SampleInv, CountInv, NTrials, ModelsInv, ServeInv
<1>4. CASE Trial
  <2>1. /\ training.at = "search" /\ training' = [training EXCEPT !.done = @ + 1]
        /\ ledger' = RecordedTrial(training.frame)
        /\ tried' = [tried EXCEPT ![training.frame] = @ + 1]
        /\ UNCHANGED <<sample, models, nights, shadow, call, served>>
    BY <1>4 DEF Trial, Records
  <2>2. training.frame \in 0 .. MaxRows
    BY <1>1 DEF JobInv, SampleInv
  <2>3. JobInv'
    BY <2>1 DEF JobInv
  <2>4. ledger' \in Seq(0 .. MaxRows) /\ tried' \in [0 .. MaxRows -> Nat]
    BY <2>1, <2>2 DEF RecordedTrial, CountInv
  <2>5. ASSUME NEW n \in 0 .. MaxRows PROVE NTrials(n)' \in Nat /\ NTrials(n)' >= tried'[n]
    <3>1. NTrials(n) \in Nat /\ NTrials(n)' = NTrials(n) + (IF n = training.frame THEN 1 ELSE 0)
      BY <2>1, <2>2, RecordedOnce DEF CountInv
    <3>2. NTrials(n) >= tried[n] /\ tried[n] \in Nat /\ tried'[n] = tried[n] + (IF n = training.frame THEN 1 ELSE 0)
      BY <2>1, <2>2 DEF CountInv
    <3> QED
      BY <3>1, <3>2
  <2>6. CountInv'
    BY <2>4, <2>5 DEF CountInv
  <2> QED
    BY <2>1, <2>3, <2>6 DEF SampleInv, ModelsInv, ServeInv
<1>5. CASE RefuseModel
  <2>1. training' = Asleep /\ UNCHANGED <<sample, ledger, models, nights, shadow, call, served, tried>>
    BY <1>5 DEF RefuseModel
  <2>2. JobInv'
    BY <2>1, <1>1 DEF JobInv, Asleep, ModelBackend
  <2> QED
    BY <2>1, <2>2 DEF SampleInv, CountInv, NTrials, ModelsInv, ServeInv
<1>6. CASE Register
  <2> DEFINE n == Len(models)
  <2> DEFINE f == training.frame
  <2> DEFINE record == [version |-> IF models = <<>> THEN 1 ELSE Last(models).version + 1,
                        frame |-> f, trials |-> NTrials(f), fits |-> tried[f]]
  <2>1. training' = Asleep /\ models' = Append(models, record) /\ UNCHANGED <<sample, ledger, nights, shadow, call, served, tried>>
    BY <1>6 DEF Register, Registered
  <2>2. f \in 0 .. MaxRows
    BY <1>1 DEF JobInv, SampleInv
  <2>3. record.version = n + 1
    <3>1. CASE models = <<>>
      BY <3>1
    <3>2. CASE models # <<>>
      <4>1. n \in 1 .. n /\ Last(models) = models[n]
        BY <3>2, <1>1 DEF Last, ModelsInv
      <4> QED
        BY <3>2, <4>1 DEF ModelsInv
    <3> QED
      BY <3>1, <3>2
  <2>4. record.trials \in Nat /\ record.fits \in Nat /\ record.trials >= record.fits
    BY <2>2 DEF CountInv
  <2>5. record \in ModelRecord
    BY <2>2, <2>3, <2>4, <1>1 DEF ModelRecord
  <2> HIDE DEF record
  <2>6. models' \in Seq(ModelRecord) /\ Len(models') = n + 1 /\ models'[n + 1] = record /\ \A i \in 1 .. n : models'[i] = models[i]
    BY <2>1, <2>5 DEF ModelsInv
  <2>7. ModelsInv'
    <3>1. \A i \in 1 .. Len(models') : i = n + 1 \/ i \in 1 .. n
      BY <2>6, <1>1
    <3> QED
      BY <3>1, <2>3, <2>4, <2>6 DEF ModelsInv
  <2>8. JobInv'
    BY <2>1, <1>1 DEF JobInv, Asleep, ModelBackend
  <2>9. ServeInv'
    <3>1. 0 .. Len(models) \subseteq 0 .. Len(models')
      BY <2>6, <1>1
    <3> QED
      BY <2>1, <3>1 DEF ServeInv
  <2> QED
    BY <2>1, <2>7, <2>8, <2>9 DEF SampleInv, CountInv, NTrials
<1>7. CASE Look
  <2>1. /\ call' = [at |-> "load", asked |-> Len(models), found |-> Len(models)]
        /\ UNCHANGED <<sample, ledger, models, training, nights, shadow, served, tried>>
    BY <1>7 DEF Look
  <2>2. ServeInv'
    BY <2>1, <1>1 DEF ServeInv
  <2> QED
    BY <2>1, <2>2 DEF SampleInv, JobInv, CountInv, NTrials, ModelsInv
<1>8. CASE Load
  <2>1. /\ call.at = "load" /\ call' = NoCall
        /\ UNCHANGED <<sample, ledger, models, training, nights, tried>>
    BY <1>8 DEF Load
  <2>2. \/ Answer(0) /\ shadow' = shadow
        \/ call.found = shadow.id /\ Answer(shadow.model) /\ shadow' = shadow
        \/ shadow' = [id |-> call.found, model |-> call.found] /\ Answer(call.found)
    BY <1>8 DEF Load, AfterFailure
  <2>3. ServeInv'
    <3>1. shadow' \in [id : 0 .. Len(models), model : 0 .. Len(models)] /\ shadow'.model = shadow'.id
      BY <2>2 DEF ServeInv
    <3>2. \A s \in served' : s.model # 0 => s.model >= s.asked
      BY <2>2, <1>1 DEF ServeInv, Answer
    <3>3. call' \in [at : {"idle", "load"}, asked : 0 .. Len(models), found : 0 .. Len(models)] /\ call'.asked = call'.found
      BY <2>1, <1>1 DEF NoCall
    <3> QED
      BY <2>1, <3>1, <3>2, <3>3 DEF ServeInv
  <2> QED
    BY <2>1, <2>3 DEF SampleInv, JobInv, CountInv, NTrials, ModelsInv
<1>9. CASE Crash
  <2>1. /\ nights < MaxNights /\ nights' = nights + 1
        /\ training' = Asleep /\ shadow' = NoShadow /\ call' = NoCall
        /\ UNCHANGED <<sample, ledger, models, served, tried>>
    BY <1>9 DEF Crash
  <2>2. JobInv'
    BY <2>1, <1>1, TrainingAssumption DEF JobInv, Asleep, ModelBackend
  <2>3. ServeInv'
    BY <2>1, <1>1 DEF ServeInv, NoShadow, NoCall
  <2> QED
    BY <2>1, <2>2, <2>3 DEF SampleInv, CountInv, NTrials, ModelsInv
<1>10. CASE UNCHANGED trainingVars
  BY <1>10 DEF trainingVars, SampleInv, JobInv, CountInv, NTrials, ModelsInv, ServeInv
<1> QED
  BY <1>2, <1>3, <1>4, <1>5, <1>6, <1>7, <1>8, <1>9, <1>10 DEF TrainingNext

(* The longest life of the labels, when there are any.                      *)
LEMMA HorizonIsPositive ==
  ASSUME SampleInv, sample # <<>>
  PROVE  Horizon(sample) \in Nat /\ Horizon(sample) > 0
<1> DEFINE lives == {sample[i].e - sample[i].p : i \in DOMAIN sample}
<1>1. /\ Len(sample) \in Nat /\ Len(sample) > 0 /\ DOMAIN sample = 1 .. Len(sample)
      /\ \A i \in 1 .. Len(sample) : sample[i].p \in Nat /\ sample[i].e \in Nat /\ sample[i].p < sample[i].e
  <2>1. Len(sample) # 0
    BY RowTypes
  <2> QED
    BY <2>1, RowTypes
<1>2. PICK most \in Nat : \A i \in 1 .. Len(sample) : sample[i].e <= sample[i].p + most
  BY DEF SampleInv
<1>3. \A g \in lives : g \in Nat /\ g > 0 /\ g <= most
  <2>1. SUFFICES ASSUME NEW i \in 1 .. Len(sample)
                 PROVE  LET g == sample[i].e - sample[i].p IN g \in Nat /\ g > 0 /\ g <= most
    BY <1>1
  <2> QED
    BY <1>1, <1>2
<1>4. lives # {}
  <2>1. 1 \in DOMAIN sample
    BY <1>1
  <2> QED
    BY <2>1
<1>5. Horizon(sample) = CHOOSE h \in lives : \A g \in lives : g <= h
  BY DEF Horizon
<1> HIDE DEF lives
<1> DEFINE short == {most - g : g \in lives}
<1>6. short \in SUBSET Nat /\ short # {}
  BY <1>3, <1>4
<1>7. \E least \in short : \A other \in short : least <= other
  <2> HIDE DEF short
  <2> QED
    BY <1>6, LeastElement
<1>8. \E h \in lives : \A g \in lives : g <= h
  <2>1. PICK h \in lives : \A other \in short : most - h <= other
    BY <1>7
  <2>2. \A g \in lives : most - h <= most - g
    BY <2>1
  <2> QED
    BY <2>1, <2>2, <1>3
<1>9. Horizon(sample) \in lives
  BY <1>5, <1>8
<1> QED
  BY <1>3, <1>9

(* cv.py: whatever the blocks, a row before the test rows that is not       *)
(* purged ends before them.                                                 *)
LEMMA PurgedIsBefore ==
  ASSUME SampleInv, NEW i \in 1 .. Len(sample), NEW j \in 1 .. Len(sample), i < j,
         NEW gap \in Nat, gap > 0,
         sample[i].e <= sample[j].p - gap \/ sample[i].p >= sample[j].e + gap
  PROVE  sample[i].e + 1 <= sample[j].p
<1>1. /\ sample[i].p \in Nat /\ sample[i].e \in Nat /\ sample[j].p \in Nat /\ sample[j].e \in Nat
      /\ sample[j].p < sample[j].e
  BY RowTypes
<1>2. sample[i].p <= sample[j].p
  BY DEF SampleInv
<1> QED
  BY <1>1, <1>2

LEMMA EndsAreNumbers ==
  ASSUME NEW n \in Nat, NEW k \in Nat, k > 0, NEW b \in Int
  PROVE  BlockEnd(n, k, b) \in Int
<1>1. n \div k \in Int /\ n % k \in Int
  OBVIOUS
<1> QED
  BY <1>1 DEF BlockEnd

(* A block ends inside the sample.                                          *)
LEMMA BlocksFit ==
  ASSUME NEW n \in Nat, NEW k \in Nat, k > 0, NEW b \in 1 .. k
  PROVE  BlockEnd(n, k, b) <= n
<1> DEFINE q == n \div k
<1> DEFINE over == n % k
<1>1. q \in Nat /\ over \in Nat /\ k * q + over = n /\ b \in Nat /\ b <= k
  OBVIOUS
<1>2. BlockEnd(n, k, b) = b * q + (IF b < over THEN b ELSE over)
  BY DEF BlockEnd
<1> HIDE DEF q, over
<1>3. b * q <= k * q
  BY <1>1, ProductsGrow
<1> DEFINE B == b * q
<1> DEFINE K == k * q
<1>4. B \in Nat /\ K \in Nat /\ B <= K /\ K + over = n
  BY <1>1, <1>3
<1> HIDE DEF B, K
<1>5. B + (IF b < over THEN b ELSE over) <= n
  BY <1>1, <1>4
<1> QED
  BY <1>2, <1>5 DEF B

LEMMA TestIsAfter ==
  ASSUME SampleInv, sample # <<>>, NEW f \in Folds(sample), NEW i \in f.train, NEW j \in f.test
  PROVE  sample[i].e + 1 <= sample[j].p
<1> DEFINE n == Len(sample)
<1> DEFINE h == Horizon(sample)
<1>1. PICK b \in Blocks(n, OuterSplits) \ {1} :
         f = [train |-> Purged(sample, 1 .. BlockEnd(n, OuterSplits, b - 1), Block(n, OuterSplits, b), h, h),
              test |-> Block(n, OuterSplits, b)]
  BY DEF Folds
<1> DEFINE until == BlockEnd(n, OuterSplits, b - 1)
<1>2. n \in Nat /\ OuterSplits \in Nat /\ OuterSplits > 0 /\ b \in Int
  BY <1>1, RowTypes, TrainingAssumption DEF Blocks
<1>3. until \in Int
  BY <1>2, EndsAreNumbers
<1>4. /\ i \in 1 .. until
      /\ sample[i].e <= sample[j].p - h \/ sample[i].p >= sample[j].e + h
  BY <1>1 DEF Purged
<1>5. j \in (until + 1) .. BlockEnd(n, OuterSplits, b)
  BY <1>1 DEF Block
<1> HIDE DEF until, h
<1>6. BlockEnd(n, OuterSplits, b) \in Int /\ BlockEnd(n, OuterSplits, b) <= n
  BY <1>1, <1>2, EndsAreNumbers, BlocksFit DEF Blocks
<1>8. i < j /\ i \in 1 .. n /\ j \in 1 .. n
  BY <1>2, <1>3, <1>4, <1>5, <1>6
<1>7. h \in Nat /\ h > 0
  BY HorizonIsPositive DEF h
<1> QED
  BY <1>4, <1>7, <1>8, PurgedIsBefore

LEMMA TrainingInvariant == TrainingSpec => []TrainingInv
<1> QED
  BY TrainingStarts, TrainingSteps, PTL DEF TrainingSpec

(* train.py, cv.py, trials.py, nightly.py: no row a fold trains on ends     *)
(* after a row it is tested on is predicted, however long labels live and   *)
(* rows overlap; every fit is counted, those of runs that died included;    *)
(* and the cycle gets the newest model there was when it asked, or none.    *)
THEOREM TrainingStaysHonest == TrainingSpec => []TrainingIsHonest
<1>1. TrainingInv => TrainingIsHonest
  <2>1. SUFFICES ASSUME TrainingInv PROVE TrainingIsHonest
    OBVIOUS
  <2>2. TrainingTypeOK
    <3>1. \A i \in DOMAIN sample : sample[i].p < sample[i].e /\ sample[i].y \in {0, 1}
      BY <2>1, RowTypes DEF TrainingInv, LabelledEntry
    <3> QED
      BY <2>1, <3>1 DEF TrainingTypeOK, TrainingInv, JobInv, ModelsInv, ServeInv
  <2>3. TestIsUnseen
    BY <2>1, TestIsAfter DEF TestIsUnseen, TrainingInv
  <2>4. TrialsAreCounted
    <3>1. training.frame \in 0 .. MaxRows
      BY <2>1, RowTypes, TrainingAssumption DEF TrainingInv, JobInv, SampleInv
    <3>2. DOMAIN models = 1 .. Len(models)
      BY <2>1 DEF TrainingInv, ModelsInv
    <3> QED
      BY <2>1, <3>1, <3>2 DEF TrialsAreCounted, TrainingInv, CountInv, ModelsInv
  <2>5. ServedIsLatest
    <3>1. DOMAIN models = 1 .. Len(models)
      BY <2>1 DEF TrainingInv, ModelsInv
    <3> QED
      BY <2>1, <3>1 DEF ServedIsLatest, TrainingInv, ModelsInv, ServeInv
  <2> QED
    BY <2>2, <2>3, <2>4, <2>5 DEF TrainingIsHonest
<1> QED
  BY <1>1, TrainingInvariant, PTL

-----------------------------------------------------------------------------
(* Structures.                                                              *)

(* The first and the last of some minutes.                                  *)
LEMMA FirstIsFirst ==
  ASSUME NEW T \in SUBSET Nat, T # {}
  PROVE  FirstOf(T) \in T /\ \A j \in T : FirstOf(T) <= j
BY LeastElement DEF FirstOf

LEMMA LastIsLast ==
  ASSUME NEW n \in Nat, NEW T \in SUBSET (1 .. n), T # {}
  PROVE  LastOf(T) \in T /\ \A j \in T : j <= LastOf(T)
<1> DEFINE U == {m \in 0 .. n : \E i \in T : m + i = n}
<1>1. U \in SUBSET Nat /\ U # {}
  <2>1. PICK i \in T : TRUE
    OBVIOUS
  <2>2. (n - i) \in 0 .. n /\ (n - i) + i = n
    OBVIOUS
  <2> QED
    BY <2>2
<1>2. PICK x \in U : \A y \in U : x <= y
  BY <1>1, LeastElement
<1>3. PICK i \in T : x + i = n
  OBVIOUS
<1>4. \A j \in T : j <= i
  <2> SUFFICES ASSUME NEW j \in T PROVE j <= i
    OBVIOUS
  <2>1. (n - j) \in 0 .. n /\ (n - j) + j = n
    OBVIOUS
  <2>2. x <= n - j
    BY <2>1, <1>2
  <2> QED
    BY <2>2, <1>3
<1> QED
  BY <1>4 DEF LastOf

LEMMA FirstIsOne ==
  ASSUME NEW T \in SUBSET Nat, NEW i \in T, \A j \in T : i <= j
  PROVE  FirstOf(T) = i
<1>1. FirstOf(T) \in T /\ \A j \in T : FirstOf(T) <= j
  BY FirstIsFirst
<1>2. FirstOf(T) \in Nat /\ i \in Nat /\ FirstOf(T) <= i /\ i <= FirstOf(T)
  BY <1>1
<1> QED
  BY <1>2

LegNames == {"call", "put", "callWing", "putWing"}
Tape == Seq(OfLegs(Nat))

LEMMA LegPrice ==
  ASSUME NEW minutes \in Tape, NEW i \in DOMAIN minutes, NEW leg \in LegNames
  PROVE  minutes[i][leg] \in Nat
<1>1. minutes[i] \in OfLegs(Nat)
  BY DEF Tape
<1> QED
  BY <1>1 DEF OfLegs, LegNames

LEMMA TapeMinutes ==
  ASSUME NEW minutes \in Tape, NEW a, NEW b
  PROVE  /\ Len(minutes) \in Nat /\ DOMAIN minutes = 1 .. Len(minutes)
         /\ Closes(minutes, a) \subseteq 1 .. Len(minutes)
         /\ Both(minutes, a, b) \subseteq 1 .. Len(minutes)
         /\ Both(minutes, a, b) \subseteq Nat
BY DEF Tape, Closes, Both

(* A wing has a price at every minute, a short at every minute both traded. *)
LEMMA WingPrice ==
  ASSUME NEW minutes \in Tape, NEW wing \in LegNames, NEW i \in 1 .. Len(minutes), NEW opened \in OfLegs(Nat)
  PROVE  WingAt(minutes, wing, i, opened) \in Nat
<1> DEFINE traded == Closes(minutes, wing) \cap 1 .. i
<1>1. CASE traded = {}
  BY <1>1 DEF WingAt, OfLegs, LegNames
<1>2. CASE traded # {}
  <2>1. traded \subseteq 1 .. Len(minutes) /\ Len(minutes) \in Nat
    BY TapeMinutes
  <2>2. LastOf(traded) \in traded
    BY <2>1, <1>2, LastIsLast
  <2>3. minutes[LastOf(traded)][wing] \in Nat
    BY <2>1, <2>2, TapeMinutes, LegPrice
  <2> QED
    BY <2>3, <1>2 DEF WingAt
<1> QED
  BY <1>1, <1>2

LEMMA StopMinutes ==
  ASSUME NEW minutes \in Tape, NEW opened, NEW f, NEW s, NEW i
  PROVE  StopsBy(minutes, opened, f, s, i) \subseteq Both(minutes, "call", "put") /\ StopsBy(minutes, opened, f, s, i) \subseteq Nat
BY TapeMinutes DEF StopsBy

LEMMA ShortPrice ==
  ASSUME NEW minutes \in Tape, NEW s \in Sides, NEW i \in 1 .. Len(minutes), NEW opened, NEW f
  PROVE  ShortAt(minutes, opened, f, s, i) \in Nat
<1> DEFINE stops == StopsBy(minutes, opened, f, s, i)
           at == IF stops = {} THEN i ELSE FirstOf(stops)
<1>0. stops \subseteq 1 .. Len(minutes) /\ stops \subseteq Nat
  BY StopMinutes, TapeMinutes
<1>1. at \in 1 .. Len(minutes)
  <2>1. CASE stops = {}
    BY <2>1
  <2>2. CASE stops # {}
    <3>1. FirstOf(stops) \in stops
      BY <2>2, <1>0, FirstIsFirst
    <3> QED
      BY <2>2, <3>1, <1>0
  <2> QED
    BY <2>1, <2>2
<1> HIDE DEF at
<1>2. minutes[at][s] \in Nat
  BY <1>1, TapeMinutes, LegPrice DEF Sides, LegNames
<1> QED
  BY <1>2 DEF ShortAt, at

LEMMA ExitPrices ==
  ASSUME NEW minutes \in Tape, NEW i \in 1 .. Len(minutes), NEW opened \in OfLegs(Nat), NEW f
  PROVE  ExitsAt(minutes, opened, f, i) \in OfLegs(Nat)
<1>1. /\ ShortAt(minutes, opened, f, "call", i) \in Nat
      /\ ShortAt(minutes, opened, f, "put", i) \in Nat
  BY ShortPrice DEF Sides
<1>2. /\ WingAt(minutes, "callWing", i, opened) \in Nat
      /\ WingAt(minutes, "putWing", i, opened) \in Nat
  BY WingPrice DEF LegNames
<1> QED
  BY <1>1, <1>2 DEF ExitsAt, OfLegs

-----------------------------------------------------------------------------
(* The beginning of a tape: up to a minute of it nothing is different.      *)
Begins(cut, minutes, k) ==
  /\ cut \in Tape /\ minutes \in Tape /\ k \in Nat /\ Len(cut) = k /\ k <= Len(minutes)
  /\ \A i \in 1 .. k : cut[i] = minutes[i]

LEMMA CutBegins ==
  ASSUME NEW minutes \in Tape, NEW k \in 1 .. Len(minutes)
  PROVE  Begins(SubSeq(minutes, 1, k), minutes, k)
BY DEF Begins, Tape

LEMMA SameCloses ==
  ASSUME NEW cut, NEW minutes, NEW k, Begins(cut, minutes, k), NEW leg
  PROVE  Closes(cut, leg) = Closes(minutes, leg) \cap 1 .. k
<1>1. DOMAIN cut = 1 .. k /\ DOMAIN minutes = 1 .. Len(minutes) /\ Len(minutes) \in Nat /\ k \in Nat /\ k <= Len(minutes)
  BY DEF Begins, Tape
<1>2. \A i \in 1 .. k : cut[i] = minutes[i] /\ i \in DOMAIN minutes
  BY <1>1 DEF Begins
<1> QED
  BY <1>1, <1>2 DEF Closes

LEMMA SameBoth ==
  ASSUME NEW cut, NEW minutes, NEW k, Begins(cut, minutes, k), NEW a, NEW b
  PROVE  Both(cut, a, b) = Both(minutes, a, b) \cap 1 .. k
BY SameCloses DEF Both

LEMMA SameWing ==
  ASSUME NEW cut, NEW minutes, NEW k, Begins(cut, minutes, k), NEW i \in 1 .. k, NEW wing, NEW opened
  PROVE  WingAt(cut, wing, i, opened) = WingAt(minutes, wing, i, opened)
<1> DEFINE traded == Closes(minutes, wing) \cap 1 .. i
<1>0. k \in Nat /\ Len(minutes) \in Nat /\ k <= Len(minutes) /\ minutes \in Tape
  BY DEF Begins, Tape
<1>1. Closes(cut, wing) \cap 1 .. i = traded
  BY SameCloses, <1>0
<1>2. CASE traded = {}
  BY <1>1, <1>2 DEF WingAt
<1>3. CASE traded # {}
  <2>1. traded \in SUBSET (1 .. k)
    BY <1>0
  <2>2. LastOf(traded) \in 1 .. k
    BY <2>1, <1>0, <1>3, LastIsLast
  <2>3. cut[LastOf(traded)] = minutes[LastOf(traded)]
    BY <2>2 DEF Begins
  <2> QED
    BY <2>3, <1>1, <1>3 DEF WingAt
<1> QED
  BY <1>2, <1>3

LEMMA SameStops ==
  ASSUME NEW cut, NEW minutes, NEW k, Begins(cut, minutes, k), NEW i \in 1 .. k, NEW s, NEW opened, NEW f
  PROVE  StopsBy(cut, opened, f, s, i) = StopsBy(minutes, opened, f, s, i)
<1>0. k \in Nat /\ Len(minutes) \in Nat /\ k <= Len(minutes) /\ minutes \in Tape
  BY DEF Begins, Tape
<1>1. Both(cut, "call", "put") = Both(minutes, "call", "put") \cap 1 .. k
  BY SameBoth
<1>2. \A j \in Both(minutes, "call", "put") : j <= i => j \in 1 .. k /\ cut[j] = minutes[j]
  BY TapeMinutes, <1>0 DEF Begins
<1> QED
  BY <1>1, <1>2 DEF StopsBy

LEMMA SameShort ==
  ASSUME NEW cut, NEW minutes, NEW k, Begins(cut, minutes, k), NEW i \in 1 .. k, NEW s, NEW opened, NEW f
  PROVE  ShortAt(cut, opened, f, s, i) = ShortAt(minutes, opened, f, s, i)
<1> DEFINE stops == StopsBy(minutes, opened, f, s, i)
           at == IF stops = {} THEN i ELSE FirstOf(stops)
<1>0. k \in Nat /\ Len(minutes) \in Nat /\ k <= Len(minutes) /\ minutes \in Tape
  BY DEF Begins, Tape
<1>1. StopsBy(cut, opened, f, s, i) = stops
  BY SameStops
<1>2. at \in 1 .. k
  <2>1. CASE stops = {}
    BY <2>1
  <2>2. CASE stops # {}
    <3>1. FirstOf(stops) \in stops /\ stops \subseteq Nat
      BY <2>2, <1>0, StopMinutes, FirstIsFirst
    <3>2. FirstOf(stops) <= i /\ FirstOf(stops) \in 1 .. Len(minutes)
      BY <3>1, <1>0, StopMinutes, TapeMinutes DEF StopsBy
    <3> QED
      BY <2>2, <3>2, <1>0
  <2> QED
    BY <2>1, <2>2
<1>3. cut[at] = minutes[at]
  BY <1>2 DEF Begins
<1>4. ShortAt(cut, opened, f, s, i) = cut[at][s]
  BY <1>1 DEF ShortAt
<1>5. ShortAt(minutes, opened, f, s, i) = minutes[at][s]
  BY DEF ShortAt
<1> QED
  BY <1>3, <1>4, <1>5

LEMMA SameExits ==
  ASSUME NEW cut, NEW minutes, NEW k, Begins(cut, minutes, k), NEW i \in 1 .. k, NEW opened, NEW f
  PROVE  /\ ExitsAt(cut, opened, f, i) = ExitsAt(minutes, opened, f, i)
         /\ BothStopped(cut, opened, f, i) <=> BothStopped(minutes, opened, f, i)
<1>1. \A s \in Sides : ShortAt(cut, opened, f, s, i) = ShortAt(minutes, opened, f, s, i)
                       /\ StopsBy(cut, opened, f, s, i) = StopsBy(minutes, opened, f, s, i)
  BY SameShort, SameStops
<1>2. /\ WingAt(cut, "callWing", i, opened) = WingAt(minutes, "callWing", i, opened)
      /\ WingAt(cut, "putWing", i, opened) = WingAt(minutes, "putWing", i, opened)
  BY SameWing
<1> QED
  BY <1>1, <1>2 DEF ExitsAt, BothStopped, Sides

LEMMA SameEnd ==
  ASSUME NEW k \in Nat, NEW E \in SUBSET (Nat \ {0}), NEW C, C = E \cap 1 .. k, C # {}, NEW shared, NEW all
  PROVE  WalkEnd(C, shared) = WalkEnd(E, all) /\ WalkEnd(C, shared) \in C /\ E # {}
<1>1. FirstOf(C) \in C /\ \A j \in C : FirstOf(C) <= j
  BY FirstIsFirst
<1>2. \A j \in E : FirstOf(C) <= j
  <2> SUFFICES ASSUME NEW j \in E PROVE FirstOf(C) <= j
    OBVIOUS
  <2>1. CASE j \in C
    BY <2>1, <1>1
  <2>2. CASE j \notin C
    BY <2>2, <1>1
  <2> QED
    BY <2>1, <2>2
<1>3. FirstOf(E) = FirstOf(C)
  BY <1>1, <1>2, FirstIsOne
<1> QED
  BY <1>1, <1>3 DEF WalkEnd

LEMMA SameFlyEnds ==
  ASSUME NEW cut, NEW minutes, NEW k, Begins(cut, minutes, k), NEW opened, NEW f
  PROVE  FlyEnds(cut, opened, f) = FlyEnds(minutes, opened, f) \cap 1 .. k
<1>1. Both(cut, "call", "put") = Both(minutes, "call", "put") \cap 1 .. k
  BY SameBoth
<1>2. \A i \in 1 .. k : /\ ExitsAt(cut, opened, f, i) = ExitsAt(minutes, opened, f, i)
                        /\ BothStopped(cut, opened, f, i) <=> BothStopped(minutes, opened, f, i)
  BY SameExits
<1> QED
  BY <1>1, <1>2 DEF FlyEnds

(* What a walk says that took place.                                        *)
Early(minutes, opened, f, end) == \E s \in Sides : \E j \in StopsBy(minutes, opened, f, s, end) : j < end
FlyReason(minutes, opened, f, end) ==
  IF FlyEnds(minutes, opened, f) = {}
  THEN IF \E s \in Sides : StopsBy(minutes, opened, f, s, end) # {} THEN "one_leg_stopped" ELSE "time"
  ELSE IF BothStopped(minutes, opened, f, end) THEN "both_legs_stopped" ELSE "target"
FlyAt(minutes, opened, f) == WalkEnd(FlyEnds(minutes, opened, f), Both(minutes, "call", "put"))

LEMMA FlyWalked ==
  ASSUME NEW minutes, NEW opened, NEW f, NEW end, end = FlyAt(minutes, opened, f), Both(minutes, "call", "put") # {}
  PROVE  WalkFly(minutes, opened, f) =
           [reason |-> FlyReason(minutes, opened, f, end), at |-> end, exits |-> ExitsAt(minutes, opened, f, end),
            early |-> Early(minutes, opened, f, end)]
<1>1. Closes(minutes, "call") # {}
  BY DEF Both
<1> QED
  BY <1>1, Zenon DEF WalkFly, FlyAt, FlyReason, Early

LEMMA WalkOfFields ==
  ASSUME NEW reason \in {"target", "time", "one_leg_stopped", "both_legs_stopped"}, NEW at \in 1 .. MaxMinutes,
         NEW exits \in OfLegs(Nat), NEW early \in BOOLEAN
  PROVE  [reason |-> reason, at |-> at, exits |-> exits, early |-> early] \in Walks
BY DEF Walks

LEMMA FlyIsCausal ==
  ASSUME NEW cut, NEW minutes, NEW k, Begins(cut, minutes, k), NEW opened, NEW f,
         WalkFly(cut, opened, f).reason \in {"target", "both_legs_stopped"}
  PROVE  WalkFly(cut, opened, f) = WalkFly(minutes, opened, f)
<1> DEFINE C == FlyEnds(cut, opened, f)
           E == FlyEnds(minutes, opened, f)
           end == FlyAt(cut, opened, f)
<1>1. C = E \cap 1 .. k /\ k \in Nat
  BY SameFlyEnds DEF Begins
<1>2. Both(cut, "call", "put") # {}
  <2>1. SUFFICES ASSUME Both(cut, "call", "put") = {} PROVE FALSE
    OBVIOUS
  <2>2. \/ WalkFly(cut, opened, f) = [reason |-> "no_bars_after_entry"]
        \/ WalkFly(cut, opened, f) = [reason |-> "shorts_never_traded_together"]
    BY <2>1 DEF WalkFly
  <2>3. \/ WalkFly(cut, opened, f).reason = "no_bars_after_entry"
        \/ WalkFly(cut, opened, f).reason = "shorts_never_traded_together"
    BY <2>2
  <2> QED
    BY <2>3
<1>3. WalkFly(cut, opened, f) =
        [reason |-> FlyReason(cut, opened, f, end), at |-> end, exits |-> ExitsAt(cut, opened, f, end),
         early |-> Early(cut, opened, f, end)]
  BY <1>2, FlyWalked
<1>4. C # {}
  <2>1. WalkFly(cut, opened, f).reason = FlyReason(cut, opened, f, end)
    BY <1>3, SMTT(20)
  <2> QED
    BY <2>1 DEF FlyReason
<1>5. E \in SUBSET (Nat \ {0}) /\ E \subseteq Both(minutes, "call", "put")
  <2>1. E \subseteq Both(minutes, "call", "put") /\ minutes \in Tape
    BY DEF FlyEnds, Begins
  <2>2. Both(minutes, "call", "put") \subseteq 1 .. Len(minutes) /\ Len(minutes) \in Nat
    BY <2>1, TapeMinutes
  <2> QED
    BY <2>1, <2>2
<1>6. FlyAt(minutes, opened, f) = end /\ end \in C /\ E # {}
  BY <1>1, <1>4, <1>5, SameEnd DEF FlyAt
<1>7. Both(minutes, "call", "put") # {}
  BY <1>5, <1>6
<1>8. WalkFly(minutes, opened, f) =
        [reason |-> FlyReason(minutes, opened, f, end), at |-> end, exits |-> ExitsAt(minutes, opened, f, end),
         early |-> Early(minutes, opened, f, end)]
  BY <1>6, <1>7, FlyWalked
<1> HIDE DEF end, C, E
<1>9. end \in 1 .. k
  BY <1>1, <1>6
<1>10. /\ ExitsAt(cut, opened, f, end) = ExitsAt(minutes, opened, f, end)
       /\ BothStopped(cut, opened, f, end) <=> BothStopped(minutes, opened, f, end)
       /\ \A s \in Sides : StopsBy(cut, opened, f, s, end) = StopsBy(minutes, opened, f, s, end)
  BY <1>9, SameExits, SameStops
<1>11. Early(cut, opened, f, end) = Early(minutes, opened, f, end)
  BY <1>10 DEF Early
<1>12. FlyReason(cut, opened, f, end) = FlyReason(minutes, opened, f, end)
  BY <1>4, <1>6, <1>10 DEF FlyReason, C, E
<1> QED
  BY <1>3, <1>8, <1>10, <1>11, <1>12, Zenon

LEMMA SpreadIsCausal ==
  ASSUME NEW cut, NEW minutes, NEW k, Begins(cut, minutes, k), NEW opened,
         WalkSpread(cut, opened).reason \in {"target", "stop"}
  PROVE  WalkSpread(cut, opened) = WalkSpread(minutes, opened)
<1> DEFINE credit == opened.call - opened.callWing
           C == SpreadEnds(cut, credit)
           E == SpreadEnds(minutes, credit)
           all == Both(minutes, "call", "callWing")
           some == Both(cut, "call", "callWing")
           end == WalkEnd(C, some)
<1>0. k \in Nat /\ minutes \in Tape /\ all \subseteq 1 .. Len(minutes) /\ Len(minutes) \in Nat
  BY TapeMinutes DEF Begins
<1>1. some = all \cap 1 .. k
  BY SameBoth
<1>2. \A i \in 1 .. k : cut[i] = minutes[i]
  BY DEF Begins
<1>3. C = E \cap 1 .. k
  BY <1>1, <1>2 DEF SpreadEnds, SpreadToClose, SpreadHitsTarget
<1>4. ~ (opened.call = 0 \/ opened.callWing = 0 \/ credit <= 0 \/ some = {}) /\ C # {}
  BY DEF WalkSpread
<1>5. E \in SUBSET (Nat \ {0}) /\ all # {}
  BY <1>0, <1>1, <1>4 DEF SpreadEnds
<1>6. WalkEnd(E, all) = end /\ end \in C /\ E # {}
  BY <1>0, <1>3, <1>4, <1>5, SameEnd
<1>7. cut[end] = minutes[end]
  BY <1>2, <1>3, <1>6
<1>8. SpreadToClose(cut, end) = SpreadToClose(minutes, end)
      /\ (SpreadHitsTarget(cut, credit, end) <=> SpreadHitsTarget(minutes, credit, end))
  BY <1>7 DEF SpreadToClose, SpreadHitsTarget
<1>9. WalkSpread(cut, opened) =
        [reason |-> IF SpreadHitsTarget(cut, credit, end) THEN "target" ELSE "stop",
         at |-> end, toClose |-> SpreadToClose(cut, end)]
  BY <1>4, Zenon DEF WalkSpread
<1>10. WalkSpread(minutes, opened) =
        [reason |-> IF SpreadHitsTarget(minutes, credit, end) THEN "target" ELSE "stop",
         at |-> end, toClose |-> SpreadToClose(minutes, end)]
  BY <1>4, <1>5, <1>6, Zenon DEF WalkSpread
<1> HIDE DEF end, credit
<1> QED
  BY <1>8, <1>9, <1>10

-----------------------------------------------------------------------------
(* A strike nearest to a level is a listed one.                             *)
LEMMA NearestIsListed ==
  ASSUME NEW strikes \in SUBSET Nat, strikes # {}, NEW level \in Int
  PROVE  NearestTo(strikes, level) \in strikes
<1> DEFINE gaps == {d \in Nat : \E k \in strikes : Distance(k, level) = d}
<1>1. \A k \in strikes : Distance(k, level) \in Nat
  BY DEF Distance
<1>2. PICK d \in gaps : \A g \in gaps : d <= g
  <2>1. gaps \in SUBSET Nat /\ gaps # {}
    BY <1>1
  <2> QED
    BY <2>1, LeastElement
<1> DEFINE best == {k \in strikes : Distance(k, level) = d}
<1>3. PICK k \in best : \A j \in best : k <= j
  <2>1. best \in SUBSET Nat /\ best # {}
    OBVIOUS
  <2> QED
    BY <2>1, LeastElement
<1>4. \A j \in strikes : Distance(k, level) < Distance(j, level) \/ (Distance(k, level) = Distance(j, level) /\ k <= j)
  <2> SUFFICES ASSUME NEW j \in strikes
               PROVE  Distance(k, level) < Distance(j, level) \/ (Distance(k, level) = Distance(j, level) /\ k <= j)
    OBVIOUS
  <2>1. Distance(j, level) \in gaps /\ Distance(k, level) = d
    BY <1>1
  <2>2. d <= Distance(j, level) /\ d \in Nat /\ Distance(j, level) \in Nat
    BY <1>2, <2>1
  <2>3. CASE Distance(j, level) = d
    BY <2>1, <2>3, <1>3
  <2>4. CASE Distance(j, level) # d
    BY <2>1, <2>2, <2>4
  <2> QED
    BY <2>3, <2>4
<1>5. k \in strikes
  OBVIOUS
<1> HIDE DEF gaps, best
<1> QED
  BY <1>4, <1>5 DEF NearestTo

LEMMA PointsAreListed ==
  ASSUME NEW chain \in Chains, NEW type \in {"calls", "puts"}, NEW level \in Int,
         NEW x \in AtPoints(chain, type, level)
  PROVE  x.strike \in Nat
<1> DEFINE days == {d \in DOMAIN chain : d \in LeastDays..MostDays /\ chain[d][type] # {}}
           soonest == CHOOSE d \in days : \A e \in days : d <= e
<1>1. days # {}
  BY DEF AtPoints
<1>2. days \in SUBSET Nat
  BY StructureAssumption DEF StructureAssumption, MarketData
<1>3. soonest \in days
  BY <1>1, <1>2, LeastElement
<1>4. chain[soonest] \in [calls : SUBSET Nat, puts : SUBSET Nat]
  BY <1>3, StructureAssumption DEF StructureAssumption, MarketData
<1>5. chain[soonest][type] \in SUBSET Nat /\ chain[soonest][type] # {}
  BY <1>3, <1>4
<1>6. NearestTo(chain[soonest][type], level) \in chain[soonest][type]
  BY <1>5, NearestIsListed
<1>7. x = [strike |-> NearestTo(chain[soonest][type], level), days |-> soonest]
  BY DEF AtPoints
<1> QED
  BY <1>5, <1>6, <1>7

LEMMA LegsAreStrikes ==
  ASSUME NEW chain \in Chains, NEW level \in Int, ResolveLegs(chain, level).from = "resolved"
  PROVE  ResolveLegs(chain, level) \in ResolvedLegs
<1> DEFINE calls == AtPoints(chain, "calls", level)
           puts == AtPoints(chain, "puts", level)
           c == CHOOSE x \in calls : TRUE
           p == CHOOSE x \in puts : TRUE
           callWing == AtPoints(chain, "calls", c.strike + Wing)
           putWing == AtPoints(chain, "puts", p.strike - Wing)
           cw == (CHOOSE x \in callWing : TRUE).strike
           pw == (CHOOSE x \in putWing : TRUE).strike
<1>0. Wing \in Nat
  BY StructureAssumption DEF StructureAssumption
<1>1. calls # {} /\ puts # {}
  BY DEF ResolveLegs
<1>2. c \in calls /\ p \in puts
  BY <1>1
<1>3. c.strike \in Nat /\ p.strike \in Nat
  BY <1>2, PointsAreListed
<1>4. callWing # {} /\ putWing # {}
  BY <1>1 DEF ResolveLegs
<1>5. cw \in Nat /\ pw \in Nat
  BY <1>4, <1>3, <1>0, PointsAreListed
<1>6. ResolveLegs(chain, level) =
        [from |-> "resolved", call |-> c.strike, put |-> p.strike, callWing |-> cw, putWing |-> pw]
  BY <1>1, <1>4 DEF ResolveLegs
<1> QED
  BY <1>3, <1>5, <1>6 DEF ResolvedLegs

-----------------------------------------------------------------------------
(* What a walk says of a session with its legs priced.                      *)
LEMMA WalkEndIsShared ==
  ASSUME NEW n \in Nat, NEW all \in SUBSET (1 .. n), all # {}, NEW E \in SUBSET all
  PROVE  WalkEnd(E, all) \in all
<1>1. CASE E = {}
  BY <1>1, LastIsLast DEF WalkEnd
<1>2. CASE E # {}
  <2>1. E \in SUBSET Nat
    OBVIOUS
  <2> QED
    BY <2>1, <1>2, FirstIsFirst DEF WalkEnd
<1> QED
  BY <1>1, <1>2

LEMMA FlyEndIsShared ==
  ASSUME NEW minutes \in Tape, NEW opened, NEW f, Both(minutes, "call", "put") # {}
  PROVE  /\ FlyAt(minutes, opened, f) \in Both(minutes, "call", "put")
         /\ FlyAt(minutes, opened, f) \in 1 .. Len(minutes)
<1>1. Both(minutes, "call", "put") \subseteq 1 .. Len(minutes) /\ Len(minutes) \in Nat
  BY TapeMinutes
<1>2. FlyEnds(minutes, opened, f) \in SUBSET Both(minutes, "call", "put")
  BY DEF FlyEnds
<1> QED
  BY <1>1, <1>2, WalkEndIsShared DEF FlyAt

LEMMA FlyReasons ==
  ASSUME NEW minutes, NEW opened, NEW f, NEW end, end = FlyAt(minutes, opened, f)
  PROVE  FlyReason(minutes, opened, f, end) \in {"target", "time", "one_leg_stopped", "both_legs_stopped"}
BY DEF FlyReason

LEMMA WalkTypes ==
  ASSUME SessionPosition, MaxMinutes \in Nat, Both(path, "call", "put") # {}
  PROVE  WalkFly(path, entry, fraction) \in Walks
<1> DEFINE end == FlyAt(path, entry, fraction)
<1>1. path \in Tape /\ entry \in OfLegs(Nat) /\ Len(path) <= MaxMinutes /\ Len(path) \in Nat
  BY DEF SessionPosition, Tape, OfLegs
<1>2. end \in 1 .. Len(path)
  BY <1>1, FlyEndIsShared
<1>3. end \in 1 .. MaxMinutes
  BY <1>1, <1>2
<1>4. WalkFly(path, entry, fraction) =
        [reason |-> FlyReason(path, entry, fraction, end), at |-> end, exits |-> ExitsAt(path, entry, fraction, end),
         early |-> Early(path, entry, fraction, end)]
  BY FlyWalked
<1>5. ExitsAt(path, entry, fraction, end) \in OfLegs(Nat)
  BY <1>1, <1>2, ExitPrices
<1>6. FlyReason(path, entry, fraction, end) \in {"target", "time", "one_leg_stopped", "both_legs_stopped"}
  BY FlyReasons
<1>7. Early(path, entry, fraction, end) \in BOOLEAN
  BY DEF Early
<1> QED
  BY <1>3, <1>4, <1>5, <1>6, <1>7, WalkOfFields, Zenon

-----------------------------------------------------------------------------
(* The bounds of the losses.                                                *)

(* What a walk does not buy back early it closes at the prices of its end.  *)
LEMMA ShortOfTheEnd ==
  ASSUME NEW minutes \in Tape, NEW s \in Sides, NEW opened, NEW f, NEW end \in 1 .. Len(minutes),
         ~ Early(minutes, opened, f, end)
  PROVE  ShortAt(minutes, opened, f, s, end) = minutes[end][s]
<1> DEFINE stops == StopsBy(minutes, opened, f, s, end)
<1>1. CASE stops = {}
  BY <1>1 DEF ShortAt
<1>2. CASE stops # {}
  <2>1. stops \in SUBSET Nat /\ Len(minutes) \in Nat
    BY StopMinutes, TapeMinutes
  <2>2. FirstOf(stops) \in stops
    BY <2>1, <1>2, FirstIsFirst
  <2>3. FirstOf(stops) <= end /\ ~ (FirstOf(stops) < end)
    BY <2>2 DEF StopsBy, Early
  <2>4. FirstOf(stops) = end
    BY <2>1, <2>2, <2>3
  <2> QED
    BY <2>4, <1>2 DEF ShortAt
<1> QED
  BY <1>1, <1>2

LEMMA WingOfTheEnd ==
  ASSUME NEW minutes \in Tape, NEW wing \in LegNames, NEW opened, NEW end \in 1 .. Len(minutes), minutes[end][wing] # 0
  PROVE  WingAt(minutes, wing, end, opened) = minutes[end][wing]
<1> DEFINE traded == Closes(minutes, wing) \cap 1 .. end
<1>0. Len(minutes) \in Nat /\ DOMAIN minutes = 1 .. Len(minutes)
  BY TapeMinutes
<1>1. end \in traded
  BY <1>0 DEF Closes
<1>2. traded \in SUBSET (1 .. end) /\ end \in Nat
  BY <1>0
<1>3. LastOf(traded) \in traded /\ end <= LastOf(traded)
  BY <1>1, <1>2, LastIsLast
<1>4. LastOf(traded) = end
  BY <1>2, <1>3
<1> QED
  BY <1>1, <1>4 DEF WingAt

LEMMA WidthsAreWhole ==
  ASSUME SessionPosition
  PROVE  Widths.call \in Int /\ Widths.put \in Int
<1>1. legs.call \in Nat /\ legs.put \in Nat /\ legs.callWing \in Nat /\ legs.putWing \in Nat
  BY DEF SessionPosition, ResolvedLegs
<1> QED
  BY <1>1 DEF Widths

LEMMA MinuteOfTape ==
  ASSUME NEW minutes \in Tape, NEW i \in DOMAIN minutes
  PROVE  minutes[i].call \in Nat /\ minutes[i].put \in Nat /\ minutes[i].callWing \in Nat /\ minutes[i].putWing \in Nat
<1>1. minutes[i] \in OfLegs(Nat)
  BY DEF Tape
<1> QED
  BY <1>1 DEF OfLegs

LEMMA FlyLosesItsWings ==
  ASSUME SessionPosition, path # <<>>, \A i \in DOMAIN path : Worth(i),
         ~ WalkFly(path, entry, fraction).early, LegCharge \in Nat
  PROVE  NetOfFly(entry, WalkFly(path, entry, fraction).exits) + 8 * LegCharge >= - MaxLossOfFly(entry)
<1> DEFINE end == FlyAt(path, entry, fraction)
           x == ExitsAt(path, entry, fraction, end)
<1>1. path \in Tape /\ entry \in OfLegs(Nat) /\ DOMAIN path = 1 .. Len(path) /\ Len(path) \in Nat /\ 1 \in DOMAIN path
  BY DEF SessionPosition, Tape, OfLegs
<1>2. Both(path, "call", "put") # {}
  BY <1>1 DEF Both, Closes, Worth, Sides
<1>3. WalkFly(path, entry, fraction) =
        [reason |-> FlyReason(path, entry, fraction, end), at |-> end, exits |-> x,
         early |-> Early(path, entry, fraction, end)]
  BY <1>2, FlyWalked
<1>4. end \in 1 .. Len(path) /\ Worth(end)
  BY <1>1, <1>2, FlyEndIsShared
<1> HIDE DEF end
<1>5. ~ Early(path, entry, fraction, end) /\ WalkFly(path, entry, fraction).exits = x
  BY <1>3, SMTT(20)
<1>6. x = [call |-> path[end].call, put |-> path[end].put, callWing |-> path[end].callWing, putWing |-> path[end].putWing]
  <2>1. ShortAt(path, entry, fraction, "call", end) = path[end].call
    BY <1>1, <1>4, <1>5, ShortOfTheEnd DEF Sides
  <2>2. ShortAt(path, entry, fraction, "put", end) = path[end].put
    BY <1>1, <1>4, <1>5, ShortOfTheEnd DEF Sides
  <2>3. path[end].callWing # 0 /\ path[end].putWing # 0
    <3>1. path[end][WingOf["call"]] # 0 /\ path[end][WingOf["put"]] # 0
      BY <1>4 DEF Worth, Sides
    <3> QED
      BY <3>1 DEF WingOf
  <2>4. WingAt(path, "callWing", end, entry) = path[end].callWing
    BY <1>1, <1>4, <2>3, WingOfTheEnd DEF LegNames
  <2>5. WingAt(path, "putWing", end, entry) = path[end].putWing
    BY <1>1, <1>4, <2>3, WingOfTheEnd DEF LegNames
  <2> QED
    BY <2>1, <2>2, <2>4, <2>5 DEF ExitsAt
<1>7. /\ path[end].call - path[end].callWing <= Widths.call
      /\ path[end].put - path[end].putWing <= Widths.put
  <2>1. /\ Widths.call \in Int /\ Widths.put \in Int
        /\ path[end].call \in Nat /\ path[end].put \in Nat /\ path[end].callWing \in Nat /\ path[end].putWing \in Nat
    BY <1>1, <1>4, WidthsAreWhole, MinuteOfTape
  <2>2. /\ path[end]["call"] - path[end][WingOf["call"]] \in 0 .. Widths["call"]
        /\ path[end]["put"] - path[end][WingOf["put"]] \in 0 .. Widths["put"]
    BY <1>4 DEF Worth, Sides
  <2>3. WingOf["call"] = "callWing" /\ WingOf["put"] = "putWing"
    BY DEF WingOf
  <2>4. /\ path[end].call - path[end].callWing \in 0 .. Widths.call
        /\ path[end].put - path[end].putWing \in 0 .. Widths.put
    BY <2>2, <2>3
  <2> QED
    BY <2>1, <2>4
<1>8. /\ path[end].call \in Nat /\ path[end].put \in Nat /\ path[end].callWing \in Nat /\ path[end].putWing \in Nat
      /\ CreditOf(entry) \in Int /\ Widths.call \in Int /\ Widths.put \in Int
  BY <1>1, <1>4, WidthsAreWhole, MinuteOfTape DEF CreditOf, OfLegs
<1>9. CreditOf(x) = path[end].call + path[end].put - path[end].callWing - path[end].putWing
  BY <1>6 DEF CreditOf
<1> HIDE DEF x
<1>10. NetOfFly(entry, x) + 8 * LegCharge = CreditOf(entry) - CreditOf(x)
  BY <1>8, <1>9 DEF NetOfFly, GrossOf
<1>11. CreditOf(x) \in Int /\ CreditOf(x) <= Widths.call + Widths.put
  <2>1. \A a, b, c, d, v, w \in Int : a - c <= v /\ b - d <= w => a + b - c - d \in Int /\ a + b - c - d <= v + w
    OBVIOUS
  <2>2. /\ path[end].call \in Int /\ path[end].put \in Int /\ path[end].callWing \in Int /\ path[end].putWing \in Int
        /\ Widths.call \in Int /\ Widths.put \in Int
    BY <1>8
  <2>3. /\ path[end].call + path[end].put - path[end].callWing - path[end].putWing \in Int
        /\ path[end].call + path[end].put - path[end].callWing - path[end].putWing <= Widths.call + Widths.put
    BY <2>1, <2>2, <1>7, Zenon
  <2> QED
    BY <2>3, <1>9, Zenon
<1>12. \A c, w, v, o \in Int : o <= w + v => c - o >= - (w + v - c)
  OBVIOUS
<1>13. CreditOf(entry) - CreditOf(x) >= - (Widths.call + Widths.put - CreditOf(entry))
  BY <1>8, <1>11, <1>12
<1> QED
  BY <1>5, <1>10, <1>13 DEF MaxLossOfFly

LEMMA SpreadWalked ==
  ASSUME NEW minutes \in Tape, NEW opened, WalkSpread(minutes, opened).reason # "unresolved"
  PROVE  \E end \in Both(minutes, "call", "callWing") : WalkSpread(minutes, opened).toClose = SpreadToClose(minutes, end)
<1> DEFINE credit == opened.call - opened.callWing
           shared == Both(minutes, "call", "callWing")
           ends == SpreadEnds(minutes, credit)
           end == WalkEnd(ends, shared)
<1>1. ~ (opened.call = 0 \/ opened.callWing = 0 \/ credit <= 0 \/ shared = {})
  BY DEF WalkSpread
<1>2. shared \subseteq 1 .. Len(minutes) /\ Len(minutes) \in Nat
  BY TapeMinutes
<1>3. end \in shared
  BY <1>1, <1>2, WalkEndIsShared DEF SpreadEnds
<1>4. WalkSpread(minutes, opened).toClose = SpreadToClose(minutes, end)
  BY <1>1 DEF WalkSpread
<1> QED
  BY <1>3, <1>4

LEMMA SpreadLosesItsWing ==
  ASSUME SessionPosition, \A i \in DOMAIN path : Worth(i), LegCharge \in Nat,
         WalkSpread(path, entry).reason # "unresolved"
  PROVE  LET credit == entry.call - entry.callWing
         IN NetOfSpread(credit, WalkSpread(path, entry).toClose) + 4 * LegCharge >= - MaxLossOfSpread(credit)
<1> DEFINE credit == entry.call - entry.callWing
           cost == WalkSpread(path, entry).toClose
<1>1. path \in Tape /\ entry \in OfLegs(Nat) /\ DOMAIN path = 1 .. Len(path)
  BY DEF SessionPosition, Tape, OfLegs
<1>2. PICK end \in Both(path, "call", "callWing") : cost = SpreadToClose(path, end)
  BY <1>1, SpreadWalked
<1>3. end \in DOMAIN path
  BY <1>1, <1>2, TapeMinutes
<1>4. /\ path[end].call \in Nat /\ path[end].callWing \in Nat /\ credit \in Int /\ Widths.call \in Int
  BY <1>1, <1>3, WidthsAreWhole, MinuteOfTape DEF OfLegs
<1>5. path[end].call - path[end].callWing \in 0 .. Widths.call
  <2>1. path[end]["call"] - path[end][WingOf["call"]] \in 0 .. Widths["call"]
    BY <1>3 DEF Worth, Sides
  <2>2. WingOf["call"] = "callWing"
    BY DEF WingOf
  <2> QED
    BY <2>1, <2>2
<1>6. cost \in Int /\ cost <= Widths.call
  BY <1>2, <1>4, <1>5 DEF SpreadToClose
<1> HIDE DEF cost, credit
<1>7. NetOfSpread(credit, cost) + 4 * LegCharge = credit - cost
  BY <1>4, <1>6 DEF NetOfSpread
<1>8. MaxLossOfSpread(credit) \in Int /\ Widths.call - credit <= MaxLossOfSpread(credit)
  BY <1>4 DEF MaxLossOfSpread, GreaterOf
<1>9. credit - cost >= - MaxLossOfSpread(credit)
  BY <1>4, <1>6, <1>8
<1> QED
  BY <1>7, <1>9 DEF cost, credit

-----------------------------------------------------------------------------
(* The session as it opens, goes on and is counted.                         *)
StructureInv ==
  /\ fraction \in StopFractions
  /\ tally \in [sessions : Nat, trades : Nat, unresolved : Nat, exceeded : Nat]
  /\ legs # NoLegs => SessionPosition
  /\ legs = NoLegs => path = <<>>
  /\ SessionsAreCounted

LEMMA StructureInvInit == StructureInit => StructureInv
BY DEF StructureInit, StructureInv, SessionsAreCounted

LEMMA OpenKeepsCount == StructureInv /\ OpenSession => StructureInv'
<1> SUFFICES ASSUME StructureInv, OpenSession PROVE StructureInv'
  OBVIOUS
<1> USE DEF StructureInv
<1>1. legs = NoLegs /\ path = <<>> /\ path' = path /\ fraction' = fraction
  BY DEF OpenSession
<1>2. PICK days \in Chains, level \in IndexLevels \cup {NoBar}, q \in LegQuotes :
        LET chosen == IF IndexLevelAt(level) THEN ResolveLegs(days, level) ELSE [from |-> "no_index_bar_at_entry"]
        IN IF chosen.from = "resolved" /\ Refusal(q) = "none"
           THEN /\ legs' = chosen /\ entry' = q
                /\ tally' = [tally EXCEPT !.sessions = @ + 1]
           ELSE /\ UNCHANGED <<legs, entry>>
                /\ tally' = [tally EXCEPT !.sessions = @ + 1, !.unresolved = @ + 1]
  BY DEF OpenSession
<1> DEFINE chosen == IF IndexLevelAt(level) THEN ResolveLegs(days, level) ELSE [from |-> "no_index_bar_at_entry"]
<1>3. CASE chosen.from = "resolved" /\ Refusal(q) = "none"
  <2>1. legs' = chosen /\ entry' = q /\ tally' = [tally EXCEPT !.sessions = @ + 1]
    BY <1>2, <1>3
  <2>2. level \in Int /\ chosen = ResolveLegs(days, level)
    BY <1>3, StructureAssumption DEF StructureAssumption, MarketData, NoBar
  <2>3. legs' \in ResolvedLegs
    BY <2>1, <2>2, <1>3, LegsAreStrikes
  <2>4. legs' # NoLegs
    <3>1. legs'.from = "resolved"
      BY <2>3 DEF ResolvedLegs
    <3>2. NoLegs.from = "no session"
      BY DEF NoLegs
    <3> QED
      BY <3>1, <3>2
  <2>5. entry' \in OfLegs(Nat \ {0})
    <3>1. q \in OfLegs(Nat)
      BY StructureAssumption DEF StructureAssumption, MarketData
    <3>2. 0 \notin Range(q)
      BY <1>3 DEF Refusal
    <3>3. q.call # 0 /\ q.put # 0 /\ q.callWing # 0 /\ q.putWing # 0
      BY <3>1, <3>2 DEF Range, OfLegs
    <3> QED
      BY <2>1, <3>1, <3>3 DEF OfLegs
  <2>6. path' \in Seq(OfLegs(Nat)) /\ Len(path') <= MaxMinutes
    BY <1>1, StructureAssumption DEF StructureAssumption
  <2>7. SessionPosition'
    BY <2>3, <2>5, <2>6 DEF SessionPosition
  <2>8. tally' \in [sessions : Nat, trades : Nat, unresolved : Nat, exceeded : Nat]
    BY <2>1
  <2>9. SessionsAreCounted'
    BY <2>1, <2>4, <1>1 DEF SessionsAreCounted
  <2> QED
    BY <1>1, <2>4, <2>7, <2>8, <2>9
<1>4. CASE ~ (chosen.from = "resolved" /\ Refusal(q) = "none")
  <2>1. UNCHANGED <<legs, entry>> /\ tally' = [tally EXCEPT !.sessions = @ + 1, !.unresolved = @ + 1]
    BY <1>2, <1>4
  <2>2. legs' = NoLegs
    BY <1>1, <2>1
  <2>3. tally' \in [sessions : Nat, trades : Nat, unresolved : Nat, exceeded : Nat]
    <3>1. tally' = [tally EXCEPT !.sessions = tally.sessions + 1, !.unresolved = tally.unresolved + 1]
      BY <2>1
    <3>2. tally.sessions + 1 \in Nat /\ tally.unresolved + 1 \in Nat
      OBVIOUS
    <3> QED
      BY <3>1, <3>2
  <2>4. SessionsAreCounted'
    BY <1>1, <2>1, <2>2 DEF SessionsAreCounted
  <2> QED
    BY <1>1, <2>2, <2>3, <2>4
<1> QED
  BY <1>3, <1>4

LEMMA MinuteKeepsCount == StructureInv /\ Minute => StructureInv'
<1> SUFFICES ASSUME StructureInv, Minute PROVE StructureInv'
  OBVIOUS
<1>1. PICK m \in Prints : path' = Append(path, m)
  BY DEF Minute
<1>2. legs # NoLegs /\ Len(path) < MaxMinutes /\ UNCHANGED <<legs, entry, fraction, tally>>
  BY DEF Minute
<1>3. m \in OfLegs(Nat) /\ MaxMinutes \in Nat
  BY StructureAssumption DEF StructureAssumption, MarketData
<1>4. path' \in Seq(OfLegs(Nat)) /\ Len(path') <= MaxMinutes
  BY <1>1, <1>2, <1>3 DEF StructureInv, SessionPosition
<1> QED
  BY <1>2, <1>4 DEF StructureInv, SessionPosition, SessionsAreCounted

LEMMA LabelKeepsCount == StructureInv /\ LabelSession => StructureInv'
<1> SUFFICES ASSUME StructureInv, LabelSession PROVE StructureInv'
  OBVIOUS
<1>1. legs # NoLegs /\ legs' = NoLegs /\ path' = <<>> /\ fraction' = fraction
  BY DEF LabelSession
<1>2. \/ tally' = [tally EXCEPT !.unresolved = @ + 1]
      \/ tally' = [tally EXCEPT !.trades = @ + 1, !.exceeded = @ + 1, !.unresolved = @ + 1]
      \/ tally' = [tally EXCEPT !.trades = @ + 1, !.exceeded = @ + 0, !.unresolved = @ + 0]
  BY DEF LabelSession
<1>3. tally \in [sessions : Nat, trades : Nat, unresolved : Nat, exceeded : Nat]
  BY DEF StructureInv
<1>4. tally' \in [sessions : Nat, trades : Nat, unresolved : Nat, exceeded : Nat]
  <2>1. CASE tally' = [tally EXCEPT !.unresolved = @ + 1]
    BY <1>3, <2>1
  <2>2. CASE tally' = [tally EXCEPT !.trades = @ + 1, !.exceeded = @ + 1, !.unresolved = @ + 1]
    <3>1. tally.trades + 1 \in Nat /\ tally.exceeded + 1 \in Nat /\ tally.unresolved + 1 \in Nat
      BY <1>3
    <3> QED
      BY <1>3, <2>2, <3>1
  <2>3. CASE tally' = [tally EXCEPT !.trades = @ + 1, !.exceeded = @ + 0, !.unresolved = @ + 0]
    <3>1. tally.trades + 1 \in Nat /\ tally.exceeded + 0 \in Nat /\ tally.unresolved + 0 \in Nat
      BY <1>3
    <3> QED
      BY <1>3, <2>3, <3>1
  <2> QED
    BY <1>2, <2>1, <2>2, <2>3
<1>5. tally'.trades + tally'.unresolved - tally'.exceeded = tally.trades + tally.unresolved - tally.exceeded + 1
  <2>1. CASE tally' = [tally EXCEPT !.unresolved = @ + 1]
    BY <1>3, <2>1
  <2>2. CASE tally' = [tally EXCEPT !.trades = @ + 1, !.exceeded = @ + 1, !.unresolved = @ + 1]
    BY <1>3, <2>2
  <2>3. CASE tally' = [tally EXCEPT !.trades = @ + 1, !.exceeded = @ + 0, !.unresolved = @ + 0]
    BY <1>3, <2>3
  <2> QED
    BY <1>2, <2>1, <2>2, <2>3
<1>6. tally'.sessions = tally.sessions
  BY <1>2, <1>3
<1>7. SessionsAreCounted'
  BY <1>1, <1>3, <1>4, <1>5, <1>6 DEF StructureInv, SessionsAreCounted
<1> QED
  BY <1>1, <1>4, <1>7 DEF StructureInv

LEMMA StructureInvariant == StructureSpec => []StructureInv
<1>1. StructureInv /\ [StructureNext]_structureVars => StructureInv'
  <2> SUFFICES ASSUME StructureInv, [StructureNext]_structureVars PROVE StructureInv'
    OBVIOUS
  <2>1. CASE UNCHANGED structureVars
    BY <2>1 DEF StructureInv, SessionPosition, SessionsAreCounted, structureVars
  <2> QED
    BY <2>1, OpenKeepsCount, MinuteKeepsCount, LabelKeepsCount DEF StructureNext
<1> QED
  BY <1>1, StructureInvInit, PTL DEF StructureSpec

LEMMA StructureTypes ==
  ASSUME StructureInv
  PROVE  StructureTypeOK
<1>1. tally \in [DOMAIN tally -> Nat]
  BY DEF StructureInv
<1>2. ASSUME legs # NoLegs, Both(path, "call", "put") # {} PROVE WalkFly(path, entry, fraction) \in Walks
  BY <1>2, WalkTypes, StructureAssumption DEF StructureInv, StructureAssumption
<1> QED
  BY <1>1, <1>2 DEF StructureInv, StructureTypeOK

(* straddle_lab.py, spread_lab.py: for any chains, prices and session every *)
(* walk that ends before the session is blind to the rest, a fly whose      *)
(* legs end together loses no more than its wings, a spread that traded has *)
(* an outcome, and every session is one trade or one reason.                *)
THEOREM StructuresStayHonest == StructureSpec => []StructuresAreHonest
<1>1. ASSUME StructureInv PROVE StructuresAreHonest
  <2> USE <1>1
  <2>0. LegCharge \in Nat
    BY StructureAssumption DEF StructureAssumption
  <2>1. StructureTypeOK
    BY StructureTypes
  <2>2. WalksAreCausal
    <3> SUFFICES ASSUME legs # NoLegs, NEW k \in 1 .. Len(path)
                 PROVE  /\ WalkFly(SubSeq(path, 1, k), entry, fraction).reason \in {"target", "both_legs_stopped"} =>
                              WalkFly(SubSeq(path, 1, k), entry, fraction) = WalkFly(path, entry, fraction)
                        /\ WalkSpread(SubSeq(path, 1, k), entry).reason \in {"target", "stop"} =>
                              WalkSpread(SubSeq(path, 1, k), entry) = WalkSpread(path, entry)
      BY Zenon DEF WalksAreCausal
    <3>1. path \in Tape
      BY DEF StructureInv, SessionPosition, Tape
    <3>2. Begins(SubSeq(path, 1, k), path, k)
      BY <3>1, CutBegins
    <3> QED
      BY <3>2, FlyIsCausal, SpreadIsCausal
  <2>3. LossWithinWings
    <3> SUFFICES ASSUME legs # NoLegs, path # <<>>, \A i \in DOMAIN path : Worth(i)
                 PROVE  /\ ~ WalkFly(path, entry, fraction).early =>
                              NetOfFly(entry, WalkFly(path, entry, fraction).exits) + 8 * LegCharge >= - MaxLossOfFly(entry)
                        /\ WalkSpread(path, entry).reason # "unresolved" =>
                              NetOfSpread(entry.call - entry.callWing, WalkSpread(path, entry).toClose) + 4 * LegCharge
                                >= - MaxLossOfSpread(entry.call - entry.callWing)
      BY Zenon DEF LossWithinWings
    <3>1. SessionPosition
      BY DEF StructureInv
    <3> QED
      BY <2>0, <3>1, FlyLosesItsWings, SpreadLosesItsWing
  <2>4. NoSurvivorship
    <3> SUFFICES ASSUME legs # NoLegs, entry.call > entry.callWing,
                        NEW i \in DOMAIN path, path[i].call # 0, path[i].callWing # 0
                 PROVE  WalkSpread(path, entry).reason # "unresolved"
      BY DEF NoSurvivorship
    <3>1. i \in Both(path, "call", "callWing")
      BY DEF Both, Closes
    <3>2. entry.call \in Nat \ {0} /\ entry.callWing \in Nat \ {0}
      BY DEF StructureInv, SessionPosition, OfLegs
    <3>3. ~ (entry.call = 0 \/ entry.callWing = 0 \/ entry.call - entry.callWing <= 0 \/ Both(path, "call", "callWing") = {})
      BY <3>1, <3>2
    <3> QED
      BY <3>3 DEF WalkSpread
  <2>5. SessionsAreCounted
    BY DEF StructureInv
  <2> QED
    BY <2>1, <2>2, <2>3, <2>4, <2>5 DEF StructuresAreHonest
<1> QED
  BY <1>1, StructureInvariant, PTL

-----------------------------------------------------------------------------
(* Features.                                                                *)

(* The row that a past gives a day, whoever asks and when.                  *)
PastWindow(past, s, on, n) == LastBars({bar \in past.closes[s] : bar[1] >= on - Lookback(n)}, n)
DteFrom(past, on) ==
  LET ahead == {e \in past.expiries : e >= on}
  IN (IF ahead = {} THEN ExpiryCalendar[on] ELSE Min(ahead)) - on
RowFrom(past, on) ==
  [level |-> LevelOf(PastWindow(past, "vix", on, 1)),
   rank |-> RankOf(PastWindow(past, "vix", on, RankDays)),
   spread |-> SpreadOf(PastWindow(past, "index", on, VolDays), LevelOf(PastWindow(past, "vix", on, 1))),
   dte |-> DteFrom(past, on)]

FinitePart(S) == {bars \in SUBSET S : IsFiniteSet(bars)}
DayPasts == [closes : [Series -> FinitePart(DailyBars)], expiries : SUBSET Expiries]

(* One row: the row of what its process first saw.                          *)
RowIsOfPast(r) ==
  /\ r.on \in TradingDays /\ r.past \in DayPasts /\ r.life \in 0 .. restarts
  /\ \A s \in Series : \A bar \in r.past.closes[s] : bar[1] < r.on
  /\ r.row = RowFrom(r.past, r.on)

(* What the process of a row keeps is what it first saw.                    *)
KeptIsPast(r) ==
  /\ \A w \in Windows :
       /\ KeyOfCloses(w[1], Lookback(w[2]), r.on) \in DOMAIN closesKept
       /\ closesKept[KeyOfCloses(w[1], Lookback(w[2]), r.on)] = {bar \in r.past.closes[w[1]] : bar[1] >= r.on - Lookback(w[2])}
  /\ r.on \in DOMAIN expiryKept /\ expiryKept[r.on] = r.past.expiries

FeatureStore ==
  /\ dayNow \in 1 .. LastFeatureDay /\ restarts \in Nat
  /\ listed \subseteq [base : Bases, expiry : Expiries]
  /\ daily \in [Series -> FinitePart(DailyBars)]

FeatureInv ==
  /\ FeatureStore
  /\ \A r \in built : RowIsOfPast(r)
  /\ \A r \in built : r.life = restarts => KeptIsPast(r)
  /\ \A on \in DOMAIN expiryKept : \E r \in built : r.life = restarts /\ r.on = on
  /\ \A key \in DOMAIN closesKept : \E r \in built : r.life = restarts /\ r.on = key[3]

LEMMA FeatureInvInit == FeatureInit => FeatureInv
<1> SUFFICES ASSUME FeatureInit PROVE FeatureInv
  OBVIOUS
<1>1. IsFiniteSet({})
  BY FS_EmptySet
<1>2. FeatureStore
  BY <1>1, FeatureAssumption DEF FeatureInit, FeatureStore, FinitePart
<1>3. DOMAIN closesKept = {} /\ DOMAIN expiryKept = {} /\ built = {}
  BY DEF FeatureInit
<1> QED
  BY <1>2, <1>3 DEF FeatureInv

(* Days, windows and the past are numbers and sets of them.                 *)
LEMMA DaysAreNumbers ==
  /\ TradingDays \subseteq Nat /\ IsFiniteSet(TradingDays) /\ TradingDays \subseteq 1 .. LastFeatureDay
  /\ \A n \in Nat : Lookback(n) \in Int
<1>1. IsFiniteSet(1 .. LastFeatureDay)
  BY FS_Interval, FeatureAssumption
<1>2. IsFiniteSet(TradingDays)
  BY <1>1, FS_Subset, FeatureAssumption
<1> QED
  BY <1>2, FeatureAssumption DEF Lookback

LEMMA PastIsTyped ==
  ASSUME FeatureStore, NEW on \in TradingDays
  PROVE  /\ PastOf(on) \in DayPasts
         /\ \A s \in Series : \A bar \in PastOf(on).closes[s] : bar[1] < on
<1>1. \A s \in Series : {bar \in daily[s] : bar[1] < on} \in FinitePart(DailyBars)
  <2> TAKE s \in Series
  <2>1. daily[s] \in FinitePart(DailyBars)
    BY DEF FeatureStore
  <2> QED
    BY <2>1, FS_Subset DEF FinitePart
<1>2. ExpiriesOf(AvailableOptionSymbols("index")) \subseteq Expiries
  BY DEF FeatureStore, ExpiriesOf, AvailableOptionSymbols
<1> QED
  BY <1>1, <1>2 DEF PastOf, DayPasts

(* Nothing is kept of a day that this process has not built a row of.       *)
LEMMA FirstRowSeesThePast ==
  ASSUME FeatureInv, NEW on \in TradingDays, NEW w \in Windows,
         ~ \E r \in built : r.on = on /\ r.life = restarts
  PROVE  /\ DailyCloses(w[1], on, Lookback(w[2])) = {bar \in PastOf(on).closes[w[1]] : bar[1] >= on - Lookback(w[2])}
         /\ ListedOn(on) = PastOf(on).expiries
         /\ KeyOfCloses(w[1], Lookback(w[2]), on) \notin DOMAIN closesKept /\ on \notin DOMAIN expiryKept
<1>1. KeyOfCloses(w[1], Lookback(w[2]), on)[3] = on
  BY DEF KeyOfCloses
<1>2. KeyOfCloses(w[1], Lookback(w[2]), on) \notin DOMAIN closesKept /\ on \notin DOMAIN expiryKept
  BY <1>1 DEF FeatureInv
<1>3. w[1] \in Series
  BY DEF Windows, Series
<1>4. daily[w[1]] \subseteq DailyBars
  BY <1>3 DEF FeatureInv, FeatureStore, FinitePart
<1>5. \A bar \in daily[w[1]] : KnownOn(bar) <= on <=> bar[1] < on
  <2> TAKE bar \in daily[w[1]]
  <2>1. bar[1] \in Int /\ on \in Int
    <3>1. TradingDays \subseteq Int
      BY DaysAreNumbers
    <3>2. bar \in TradingDays \X Nat
      BY <1>4 DEF DailyBars
    <3> QED
      BY <3>1, <3>2
  <2> QED
    BY <2>1 DEF KnownOn
<1>6. PastOf(on).closes[w[1]] = {bar \in daily[w[1]] : bar[1] < on} /\ PastOf(on).expiries = ExpiriesOf(AvailableOptionSymbols("index"))
  BY <1>3 DEF PastOf
<1>7. Visible(w[1], on, Lookback(w[2])) = {bar \in PastOf(on).closes[w[1]] : bar[1] >= on - Lookback(w[2])}
  BY <1>5, <1>6 DEF Visible
<1> QED
  BY <1>2, <1>6, <1>7 DEF DailyCloses, ListedOn

(* What a row is built from is the past its process first saw.              *)
LEMMA RowIsOfFirstSeen ==
  ASSUME FeatureInv, NEW on \in TradingDays
  PROVE  /\ FirstSeen(on) \in DayPasts
         /\ \A s \in Series : \A bar \in FirstSeen(on).closes[s] : bar[1] < on
         /\ \A w \in Windows : DailyCloses(w[1], on, Lookback(w[2])) = {bar \in FirstSeen(on).closes[w[1]] : bar[1] >= on - Lookback(w[2])}
         /\ ListedOn(on) = FirstSeen(on).expiries
         /\ RowOf(on) = RowFrom(FirstSeen(on), on)
<1> DEFINE earlier == {r \in built : r.on = on /\ r.life = restarts}
<1>1. /\ FirstSeen(on) \in DayPasts
      /\ \A s \in Series : \A bar \in FirstSeen(on).closes[s] : bar[1] < on
      /\ \A w \in Windows : DailyCloses(w[1], on, Lookback(w[2])) = {bar \in FirstSeen(on).closes[w[1]] : bar[1] >= on - Lookback(w[2])}
      /\ ListedOn(on) = FirstSeen(on).expiries
  <2>1. CASE earlier = {}
    <3>1. FirstSeen(on) = PastOf(on)
      BY <2>1 DEF FirstSeen
    <3>2. ~ \E r \in built : r.on = on /\ r.life = restarts
      BY <2>1
    <3>3. <<"vix", 1>> \in Windows
      BY DEF Windows
    <3>4. PastOf(on) \in DayPasts /\ \A s \in Series : \A bar \in PastOf(on).closes[s] : bar[1] < on
      BY PastIsTyped DEF FeatureInv
    <3>5. \A w \in Windows : /\ DailyCloses(w[1], on, Lookback(w[2])) = {bar \in PastOf(on).closes[w[1]] : bar[1] >= on - Lookback(w[2])}
                             /\ ListedOn(on) = PastOf(on).expiries
      BY <3>2, FirstRowSeesThePast
    <3> QED
      BY <3>1, <3>3, <3>4, <3>5
  <2>2. CASE earlier # {}
    <3>1. PICK r \in earlier : FirstSeen(on) = r.past
      BY <2>2 DEF FirstSeen
    <3>2. RowIsOfPast(r) /\ KeptIsPast(r) /\ r.on = on
      BY <3>1 DEF FeatureInv
    <3> QED
      BY <3>1, <3>2 DEF RowIsOfPast, KeptIsPast, DailyCloses, ListedOn
  <2> QED
    BY <2>1, <2>2
<1>2. \A s, n : <<s, n>> \in Windows => Trailing(s, on, n) = PastWindow(FirstSeen(on), s, on, n)
  BY <1>1 DEF Trailing, PastWindow
<1>3. /\ Trailing("vix", on, 1) = PastWindow(FirstSeen(on), "vix", on, 1)
      /\ Trailing("vix", on, RankDays) = PastWindow(FirstSeen(on), "vix", on, RankDays)
      /\ Trailing("index", on, VolDays) = PastWindow(FirstSeen(on), "index", on, VolDays)
  BY <1>2 DEF Windows
<1>4. NextExpiry(on) - on = DteFrom(FirstSeen(on), on)
  BY <1>1 DEF NextExpiry, DteFrom
<1>5. RowOf(on) = RowFrom(FirstSeen(on), on)
  BY <1>3, <1>4 DEF RowOf, RowFrom, Level, Rank, Spread
<1> QED
  BY <1>1, <1>5

LEMMA BuildKeepsFeatures ==
  ASSUME FeatureInv, BuildRow
  PROVE  FeatureInv'
<1>1. PICK on \in TradingDays :
        /\ closesKept' = [key \in DOMAIN closesKept \cup KeysOf(on) |->
                            IF key \in DOMAIN closesKept THEN closesKept[key] ELSE Visible(key[1], on, key[2])]
        /\ expiryKept' = [day \in DOMAIN expiryKept \cup {on} |-> ListedOn(day)]
        /\ built' = built \cup {[on |-> on, life |-> restarts, row |-> RowOf(on), past |-> FirstSeen(on)]}
  BY DEF BuildRow
<1>2. PICK new : new = [on |-> on, life |-> restarts, row |-> RowOf(on), past |-> FirstSeen(on)]
  OBVIOUS
<1>3. new.on = on /\ new.life = restarts /\ new.row = RowOf(on) /\ new.past = FirstSeen(on) /\ built' = built \cup {new}
  BY <1>1, <1>2
<1>4. UNCHANGED <<dayNow, daily, listed, restarts>>
  BY DEF BuildRow
<1>5. FeatureStore' /\ restarts \in Nat
  BY <1>4 DEF FeatureInv, FeatureStore
<1>6. \A r \in built' : RowIsOfPast(r)'
  <2>1. RowIsOfPast(new)
    BY <1>3, <1>5, RowIsOfFirstSeen DEF RowIsOfPast
  <2>2. \A r : RowIsOfPast(r)' <=> RowIsOfPast(r)
    BY <1>4 DEF RowIsOfPast
  <2> QED
    BY <1>3, <2>1, <2>2 DEF FeatureInv
<1>7. \A w \in Windows : /\ KeyOfCloses(w[1], Lookback(w[2]), on) \in DOMAIN closesKept'
                         /\ closesKept'[KeyOfCloses(w[1], Lookback(w[2]), on)] = DailyCloses(w[1], on, Lookback(w[2]))
  <2> TAKE w \in Windows
  <2>1. PICK key : key = KeyOfCloses(w[1], Lookback(w[2]), on)
    OBVIOUS
  <2>2. key \in KeysOf(on) /\ key[1] = w[1] /\ key[2] = Lookback(w[2])
    BY <2>1 DEF KeysOf, KeyOfCloses
  <2>3. closesKept'[key] = IF key \in DOMAIN closesKept THEN closesKept[key] ELSE Visible(w[1], on, Lookback(w[2]))
    BY <1>1, <2>2
  <2> QED
    BY <1>1, <2>1, <2>2, <2>3 DEF DailyCloses
<1>8. KeptIsPast(new)'
  <2>1. on \in DOMAIN expiryKept' /\ expiryKept'[on] = ListedOn(on)
    BY <1>1
  <2> QED
    BY <1>3, <1>7, <2>1, RowIsOfFirstSeen DEF KeptIsPast, Windows
<1>9. \A r \in built : KeptIsPast(r) => KeptIsPast(r)'
  <2> TAKE r \in built
  <2>1. DOMAIN closesKept \subseteq DOMAIN closesKept' /\ \A key \in DOMAIN closesKept : closesKept'[key] = closesKept[key]
    BY <1>1
  <2>2. DOMAIN expiryKept \subseteq DOMAIN expiryKept' /\ \A day \in DOMAIN expiryKept : expiryKept'[day] = expiryKept[day]
    BY <1>1 DEF ListedOn
  <2> QED
    BY <2>1, <2>2 DEF KeptIsPast, Windows
<1>10. \A r \in built' : r.life = restarts' => KeptIsPast(r)'
  BY <1>3, <1>4, <1>8, <1>9 DEF FeatureInv
<1>11. \A day \in DOMAIN expiryKept' : \E r \in built' : r.life = restarts' /\ r.on = day
  BY <1>1, <1>3, <1>4 DEF FeatureInv
<1>12. \A key \in DOMAIN closesKept' : \E r \in built' : r.life = restarts' /\ r.on = key[3]
  <2>1. \A key \in KeysOf(on) : key[3] = on
    BY DEF KeysOf, KeyOfCloses
  <2> QED
    BY <1>1, <1>3, <1>4, <2>1 DEF FeatureInv
<1> QED
  BY <1>5, <1>6, <1>10, <1>11, <1>12 DEF FeatureInv

(* The other steps leave the rows and what is kept of them alone.           *)
LEMMA FeatureInvNext == FeatureInv /\ [FeatureNext]_featureVars => FeatureInv'
<1> SUFFICES ASSUME FeatureInv, [FeatureNext]_featureVars PROVE FeatureInv'
  OBVIOUS
<1>1. ASSUME UNCHANGED <<closesKept, expiryKept, restarts, built>>, FeatureStore'
      PROVE  FeatureInv'
  BY <1>1 DEF FeatureInv, RowIsOfPast, KeptIsPast, Windows
<1>2. CASE FetchDaily
  <2>1. PICK from \in FetchStarts, some \in {Series, {"index"}} :
          daily' = [s \in Series |-> IF s \in some THEN daily[s] \cup {<<d, TimesFetched(s, d)>> : d \in {t \in TradingDays : from <= t /\ t <= dayNow}}
                                     ELSE daily[s]]
    BY <1>2 DEF FetchDaily
  <2>2. ASSUME NEW s \in Series
        PROVE  daily[s] \cup {<<d, TimesFetched(s, d)>> : d \in {t \in TradingDays : from <= t /\ t <= dayNow}} \in FinitePart(DailyBars)
    <3> DEFINE sent == {t \in TradingDays : from <= t /\ t <= dayNow}
               news == {<<d, TimesFetched(s, d)>> : d \in sent}
    <3>1. daily[s] \in FinitePart(DailyBars)
      BY DEF FeatureInv, FeatureStore
    <3>2. IsFiniteSet(sent)
      BY DaysAreNumbers, FS_Subset
    <3>3. IsFiniteSet(news)
      <4> DEFINE copy == [d \in sent |-> <<d, TimesFetched(s, d)>>]
      <4>1. copy \in Surjection(sent, news)
        BY DEF Surjection
      <4> QED
        BY <3>2, <4>1, FS_Surjection
    <3>4. \A d : TimesFetched(s, d) \in Nat
      BY <3>1, FS_Subset, FS_CardinalityType DEF TimesFetched, FinitePart
    <3>5. news \subseteq DailyBars
      BY <3>4 DEF DailyBars
    <3> QED
      BY <3>1, <3>3, <3>5, FS_Union DEF FinitePart
  <2>3. daily' \in [Series -> FinitePart(DailyBars)]
    BY <2>1, <2>2 DEF FeatureInv, FeatureStore
  <2> QED
    BY <1>1, <1>2, <2>3 DEF FetchDaily, FeatureInv, FeatureStore
<1>3. CASE ListContract
  BY <1>1, <1>3 DEF ListContract, FeatureInv, FeatureStore
<1>4. CASE BuildRow
  BY <1>4, BuildKeepsFeatures
<1>5. CASE RestartFeatures
  <2>1. DOMAIN closesKept' = {} /\ DOMAIN expiryKept' = {} /\ built' = built /\ restarts' = restarts + 1 /\ restarts \in Nat
    BY <1>5 DEF RestartFeatures, FeatureInv, FeatureStore
  <2>2. FeatureStore'
    BY <1>5 DEF RestartFeatures, FeatureInv, FeatureStore
  <2>3. \A r \in built' : RowIsOfPast(r)' /\ r.life # restarts'
    BY <2>1 DEF FeatureInv, RowIsOfPast
  <2> QED
    BY <2>1, <2>2, <2>3 DEF FeatureInv
<1>6. CASE NextTradingDay
  BY <1>1, <1>6, FeatureAssumption DEF NextTradingDay, FeatureInv, FeatureStore
<1>7. CASE UNCHANGED featureVars
  BY <1>1, <1>7 DEF featureVars, FeatureInv, FeatureStore
<1> QED
  BY <1>2, <1>3, <1>4, <1>5, <1>6, <1>7 DEF FeatureNext

(* Bars have an order, of which a finite set has a latest.                  *)
LEMMA BarsAreOrdered ==
  ASSUME NEW bars \in FinitePart(DailyBars), NEW x \in bars
  PROVE  /\ LaterBars(x, bars) \in FinitePart(DailyBars) /\ Cardinality(LaterBars(x, bars)) \in Nat
         /\ \A y \in LaterBars(x, bars) : /\ y \in bars /\ y # x /\ x \notin LaterBars(y, bars)
                                        /\ LaterBars(y, bars) \subseteq LaterBars(x, bars) \ {y}
                                        /\ Cardinality(LaterBars(y, bars)) < Cardinality(LaterBars(x, bars))
         /\ \A y \in bars : y \in LaterBars(x, bars) \/ x \in LaterBars(y, bars) \/ x = y
<1>1. \A y \in bars : y[1] \in Nat /\ y[2] \in Nat /\ y = <<y[1], y[2]>>
  <2> TAKE y \in bars
  <2>1. TradingDays \subseteq Nat
    BY DaysAreNumbers
  <2>2. y \in TradingDays \X Nat
    BY DEF FinitePart, DailyBars
  <2>3. y[1] \in TradingDays /\ y[2] \in Nat /\ y = <<y[1], y[2]>>
    BY <2>2
  <2> QED
    BY <2>1, <2>3
<1>2. IsFiniteSet(bars) /\ bars \subseteq DailyBars
  BY DEF FinitePart
<1>3. LaterBars(x, bars) \in SUBSET bars /\ IsFiniteSet(LaterBars(x, bars)) /\ Cardinality(LaterBars(x, bars)) \in Nat
  BY <1>2, FS_Subset, FS_CardinalityType DEF LaterBars
<1>4. ASSUME NEW y \in LaterBars(x, bars)
      PROVE  /\ y \in bars /\ y # x /\ x \notin LaterBars(y, bars)
             /\ LaterBars(y, bars) \subseteq LaterBars(x, bars) \ {y}
             /\ Cardinality(LaterBars(y, bars)) < Cardinality(LaterBars(x, bars))
  <2>1. y \in bars /\ y # x /\ x \notin LaterBars(y, bars)
    BY <1>1 DEF LaterBars
  <2>2. LaterBars(y, bars) \subseteq LaterBars(x, bars) \ {y}
    BY <1>1, <2>1 DEF LaterBars
  <2>3. Cardinality(LaterBars(y, bars)) <= Cardinality(LaterBars(x, bars)) /\ Cardinality(LaterBars(y, bars)) \in Nat
    BY <1>3, <2>2, FS_Subset, FS_CardinalityType
  <2>4. LaterBars(y, bars) # LaterBars(x, bars)
    BY <2>2
  <2>5. Cardinality(LaterBars(y, bars)) # Cardinality(LaterBars(x, bars))
    BY <1>3, <2>2, <2>4, FS_Subset
  <2> QED
    BY <1>3, <2>1, <2>2, <2>3, <2>5
<1>5. \A y \in bars : y \in LaterBars(x, bars) \/ x \in LaterBars(y, bars) \/ x = y
  BY <1>1 DEF LaterBars
<1> QED
  BY <1>2, <1>3, <1>4, <1>5 DEF FinitePart

LEMMA LatestIsThere ==
  ASSUME NEW bars \in FinitePart(DailyBars), bars # {}
  PROVE  Latest(bars) \in bars /\ LaterBars(Latest(bars), bars) = {}
<1> DEFINE counts == {Cardinality(LaterBars(x, bars)) : x \in bars}
<1>1. counts \in SUBSET Nat /\ counts # {}
  BY BarsAreOrdered
<1> HIDE DEF counts
<1>2. PICK least \in counts : \A c \in counts : least <= c
  BY <1>1, LeastElement
<1>3. PICK x \in bars : \A y \in bars : Cardinality(LaterBars(x, bars)) <= Cardinality(LaterBars(y, bars))
  BY <1>2 DEF counts
<1>4. LaterBars(x, bars) = {}
  <2> SUFFICES ASSUME NEW y \in LaterBars(x, bars) PROVE FALSE
    OBVIOUS
  <2>1. y \in bars /\ Cardinality(LaterBars(y, bars)) < Cardinality(LaterBars(x, bars))
    BY BarsAreOrdered
  <2>2. Cardinality(LaterBars(y, bars)) \in Nat /\ Cardinality(LaterBars(x, bars)) \in Nat
    BY <2>1, BarsAreOrdered
  <2> QED
    BY <1>3, <2>1, <2>2
<1> QED
  BY <1>4 DEF Latest

(* The last n of at least n bars are n.                                     *)
LEMMA LastBarsAreMany ==
  ASSUME NEW bars \in FinitePart(DailyBars), NEW n \in Nat, n <= Cardinality(bars)
  PROVE  Cardinality(LastBars(bars, n)) = n
<1> DEFINE wrong == {k \in 0 .. n : Cardinality(LastBars(bars, k)) # k}
<1> SUFFICES ASSUME wrong # {} PROVE FALSE
  OBVIOUS
<1>1. wrong \in SUBSET Nat
  OBVIOUS
<1> HIDE DEF wrong
<1>2. PICK k \in wrong : \A j \in wrong : k <= j
  BY <1>1, LeastElement
<1> USE DEF wrong
<1>3. IsFiniteSet(bars) /\ Cardinality(bars) \in Nat /\ k \in 0 .. n
  BY FS_CardinalityType DEF FinitePart
<1>4. \A x \in bars : Cardinality(LaterBars(x, bars)) \in Nat
  BY BarsAreOrdered
<1>5. CASE k = 0
  <2>1. LastBars(bars, 0) = {}
    BY <1>4 DEF LastBars
  <2> QED
    BY <1>5, <2>1, FS_EmptySet
<1>6. CASE k # 0
  <2> DEFINE before == LastBars(bars, k - 1)
             rest == bars \ before
  <2>1. Cardinality(before) = k - 1 /\ k - 1 \in Nat /\ before \in SUBSET bars
    BY <1>2, <1>3, <1>6 DEF LastBars
  <2>2. IsFiniteSet(before) /\ rest \in FinitePart(DailyBars)
    BY <1>3, <2>1, FS_Subset DEF FinitePart
  <2>3. rest # {}
    <3>1. before # bars
      BY <1>3, <2>1
    <3> QED
      BY <2>1, <3>1
  <2> DEFINE x == Latest(rest)
  <2>4. x \in rest /\ LaterBars(x, rest) = {}
    BY <2>2, <2>3, LatestIsThere
  <2> HIDE DEF x, rest
  <2>5. x \in bars /\ x \notin before
    BY <2>4 DEF rest
  <2>6. LaterBars(x, bars) \subseteq before
    BY <2>4 DEF rest, LaterBars
  <2>7. before \subseteq LaterBars(x, bars)
    <3> SUFFICES ASSUME NEW y \in before, y \notin LaterBars(x, bars) PROVE FALSE
      OBVIOUS
    <3>1. y \in bars /\ y # x /\ Cardinality(LaterBars(y, bars)) < k - 1
      BY <2>5 DEF LastBars
    <3>2. x \in LaterBars(y, bars)
      BY <2>5, <3>1, BarsAreOrdered
    <3>3. Cardinality(LaterBars(x, bars)) < Cardinality(LaterBars(y, bars))
      BY <3>1, <3>2, BarsAreOrdered
    <3>4. Cardinality(LaterBars(x, bars)) < k - 1
      BY <1>4, <2>1, <2>5, <3>1, <3>3
    <3> QED
      BY <2>5, <3>4 DEF LastBars
  <2>8. Cardinality(LaterBars(x, bars)) = k - 1
    BY <2>1, <2>6, <2>7
  <2>9. LastBars(bars, k) = before \cup {x}
    <3>1. \A y \in before : y \in LastBars(bars, k)
      BY <1>3, <1>4 DEF LastBars
    <3>2. x \in LastBars(bars, k)
      BY <1>3, <2>5, <2>8 DEF LastBars
    <3>3. ASSUME NEW y \in LastBars(bars, k), y \notin before, y # x
          PROVE  FALSE
      <4>1. y \in bars /\ Cardinality(LaterBars(y, bars)) < k
        BY <3>3 DEF LastBars
      <4>2. y \notin LaterBars(x, bars)
        BY <2>6, <3>3
      <4>3. x \in LaterBars(y, bars)
        BY <2>5, <3>3, <4>1, <4>2, BarsAreOrdered
      <4>4. Cardinality(LaterBars(x, bars)) < Cardinality(LaterBars(y, bars))
        BY <4>1, <4>3, BarsAreOrdered
      <4> QED
        BY <1>3, <1>4, <2>8, <4>1, <4>4
    <3> QED
      BY <3>1, <3>2, <3>3
  <2>10. Cardinality(LastBars(bars, k)) = k
    BY <1>3, <2>1, <2>2, <2>5, <2>9, FS_AddElement
  <2> QED
    BY <1>2, <2>10
<1> QED
  BY <1>5, <1>6

LEMMA WindowIsFinite ==
  ASSUME NEW past \in DayPasts, NEW s \in Series, NEW on, NEW n
  PROVE  PastWindow(past, s, on, n) \in FinitePart(DailyBars)
<1>1. past.closes[s] \in FinitePart(DailyBars)
  BY DEF DayPasts
<1>2. PastWindow(past, s, on, n) \in SUBSET past.closes[s]
  BY DEF PastWindow, LastBars
<1> QED
  BY <1>1, <1>2, FS_Subset DEF FinitePart

LEMMA LevelsAreTyped ==
  ASSUME NEW bars \in FinitePart(DailyBars)
  PROVE  LevelOf(bars) \in {NaN} \cup Seq(Nat)
<1>1. CASE bars = {}
  BY <1>1 DEF LevelOf
<1>2. CASE bars # {}
  <2>1. Latest(bars) \in DailyBars
    BY <1>2, LatestIsThere DEF FinitePart
  <2>2. Latest(bars)[1] \in TradingDays
    BY <2>1 DEF DailyBars
  <2>3. CloseOf["vix"][Latest(bars)[1]] \in Nat
    BY <2>2, ClosesAssumption DEF Series
  <2> QED
    BY <1>2, <2>3 DEF LevelOf
<1> QED
  BY <1>1, <1>2

LEMMA RanksAreTyped ==
  ASSUME NEW bars \in FinitePart(DailyBars)
  PROVE  RankOf(bars) \in {NaN} \cup Seq(Nat)
<1> DEFINE below == {bar \in bars : CloseOf["vix"][bar[1]] <= CloseOf["vix"][Latest(bars)[1]]}
<1>1. below \in SUBSET bars /\ IsFiniteSet(bars)
  BY DEF FinitePart
<1>2. Cardinality(below) \in Nat /\ Cardinality(bars) \in Nat
  BY <1>1, FS_Subset, FS_CardinalityType
<1> QED
  BY <1>2 DEF RankOf

LEMMA DteIsTyped ==
  ASSUME NEW past \in DayPasts, NEW on \in TradingDays
  PROVE  DteFrom(past, on) \in Nat
<1> DEFINE ahead == {e \in past.expiries : e >= on}
<1>1. ahead \in SUBSET Nat /\ on \in Nat /\ on \in 1 .. LastFeatureDay
  BY ExpiryAssumption, DaysAreNumbers DEF DayPasts
<1>2. CASE ahead = {}
  BY <1>1, <1>2, ExpiryAssumption DEF DteFrom
<1>3. CASE ahead # {}
  <2>1. \E x \in ahead : \A y \in ahead : x <= y
    BY <1>1, <1>3, LeastElement
  <2>2. Min(ahead) \in ahead
    BY <2>1 DEF Min
  <2>3. Min(ahead) >= on /\ Min(ahead) \in Nat
    BY <1>1, <2>2
  <2> QED
    BY <1>1, <1>3, <2>3 DEF DteFrom
<1> QED
  BY <1>2, <1>3

LEMMA RowsAreTyped ==
  ASSUME NEW past \in DayPasts, NEW on \in TradingDays
  PROVE  RowFrom(past, on) \in FeatureRows
<1>1. \A s \in Series, n \in Nat : PastWindow(past, s, on, n) \in FinitePart(DailyBars)
  BY WindowIsFinite
<1>2. "vix" \in Series /\ "index" \in Series /\ RankDays \in Nat /\ VolDays \in Nat /\ 1 \in Nat
  BY FeatureAssumption DEF Series
<1> DEFINE level == LevelOf(PastWindow(past, "vix", on, 1))
           rank == RankOf(PastWindow(past, "vix", on, RankDays))
           spread == SpreadOf(PastWindow(past, "index", on, VolDays), level)
<1>3. level \in {NaN} \cup Seq(Nat)
  BY <1>1, <1>2, LevelsAreTyped
<1>4. rank \in {NaN} \cup Seq(Nat)
  BY <1>1, <1>2, RanksAreTyped
<1>5. spread \in {NaN} \cup ((SUBSET DailyBars) \X Seq(Nat))
  <2>1. PastWindow(past, "index", on, VolDays) \in SUBSET DailyBars
    BY <1>1, <1>2 DEF FinitePart
  <2> QED
    BY <1>3, <2>1 DEF SpreadOf
<1>6. DteFrom(past, on) \in Nat
  BY DteIsTyped
<1>7. RowFrom(past, on) = [level |-> level, rank |-> rank, spread |-> spread, dte |-> DteFrom(past, on)]
  BY DEF RowFrom
<1> HIDE DEF level, rank, spread
<1> QED
  BY <1>3, <1>4, <1>5, <1>6, <1>7 DEF FeatureRows

(* The window by the calendar loses none of the last sessions.              *)
LEMMA SessionsAreFinite ==
  ASSUME NEW on \in TradingDays
  PROVE  Sessions(on) \in FinitePart(DailyBars)
<1> DEFINE days == {t \in TradingDays : t < on}
           copy == [d \in days |-> <<d, 0>>]
<1>1. IsFiniteSet(days)
  BY DaysAreNumbers, FS_Subset
<1>2. copy \in Surjection(days, Sessions(on))
  BY DEF Surjection, Sessions
<1>3. IsFiniteSet(Sessions(on))
  BY <1>1, <1>2, FS_Surjection
<1> QED
  BY <1>3 DEF Sessions, FinitePart, DailyBars

LEMMA WindowsLoseNothing ==
  ASSUME NEW past \in DayPasts, NEW on \in TradingDays, NEW s \in Series, NEW n \in {1, RankDays, VolDays},
         past.closes[s] = Sessions(on)
  PROVE  PastWindow(past, s, on, n) = LastBars(Sessions(on), n)
<1> DEFINE bars == Sessions(on)
           seen == {bar \in bars : bar[1] >= on - Lookback(n)}
<1>1. TradingDays \subseteq Nat /\ n \in Nat /\ Lookback(n) \in Int
  BY DaysAreNumbers, FeatureAssumption
<1>2. \A bar \in bars : bar[1] \in TradingDays /\ bar[1] < on /\ bar[2] = 0 /\ bar = <<bar[1], 0>>
  BY DEF Sessions
<1>3. \A bar \in seen : LaterBars(bar, seen) = LaterBars(bar, bars)
  <2> TAKE bar \in seen
  <2>1. \A b \in bars : b[1] > bar[1] => b[1] >= on - Lookback(n)
    BY <1>1, <1>2
  <2> QED
    BY <1>2, <2>1 DEF LaterBars
<1>4. ASSUME NEW bar \in bars, Cardinality(LaterBars(bar, bars)) < n
      PROVE  bar \in seen
  <2> DEFINE days == {t \in TradingDays : bar[1] < t /\ t < on}
             day == [b \in LaterBars(bar, bars) |-> b[1]]
  <2>1. \A b \in LaterBars(bar, bars) : b[1] \in days
    BY <1>1, <1>2 DEF LaterBars
  <2>2. \A t \in days : <<t, 0>> \in LaterBars(bar, bars)
    BY <1>1, <1>2 DEF LaterBars, Sessions
  <2>3. day \in Surjection(LaterBars(bar, bars), days)
    BY <2>1, <2>2 DEF Surjection
  <2>4. IsFiniteSet(LaterBars(bar, bars)) /\ Cardinality(LaterBars(bar, bars)) \in Nat
    BY SessionsAreFinite, BarsAreOrdered DEF FinitePart
  <2>5. Cardinality(days) <= Cardinality(LaterBars(bar, bars)) /\ IsFiniteSet(days)
    BY <2>3, <2>4, FS_Surjection
  <2>6. Cardinality(days) \in Nat
    BY <2>5, FS_CardinalityType
  <2>7. Cardinality(days) < n
    BY <1>1, <1>4, <2>4, <2>5, <2>6
  <2>8. bar[1] >= on - Lookback(n)
    BY <1>2, <2>7, CushionAssumption
  <2> QED
    BY <2>8
<1>5. PastWindow(past, s, on, n) = LastBars(seen, n)
  BY DEF PastWindow
<1> HIDE DEF seen
<1>6. seen \subseteq bars
  BY DEF seen
<1> QED
  BY <1>3, <1>4, <1>5, <1>6 DEF LastBars

LEMMA WholePastWholeRow ==
  ASSUME NEW past \in DayPasts, NEW on \in TradingDays, NEW row, row = RowFrom(past, on),
         past.closes["vix"] = Sessions(on), past.closes["index"] = Sessions(on)
  PROVE  LET bars == Sessions(on)
         IN /\ \A d \in TradingDays : d < on /\ (\A t \in TradingDays : t < on => t <= d) => row.level = <<CloseOf["vix"][d]>>
            /\ Cardinality(bars) >= 2 => row.rank[2] = (IF Cardinality(bars) > RankDays THEN RankDays ELSE Cardinality(bars))
            /\ Cardinality(LastBars(bars, VolDays)) >= 3 => row.spread[1] = LastBars(bars, VolDays)
<1> DEFINE bars == Sessions(on)
           level == LevelOf(LastBars(bars, 1))
<1>1. bars \in FinitePart(DailyBars) /\ IsFiniteSet(bars) /\ Cardinality(bars) \in Nat
  BY SessionsAreFinite, FS_CardinalityType DEF FinitePart
<1>2. /\ PastWindow(past, "vix", on, 1) = LastBars(bars, 1)
      /\ PastWindow(past, "vix", on, RankDays) = LastBars(bars, RankDays)
      /\ PastWindow(past, "index", on, VolDays) = LastBars(bars, VolDays)
  BY WindowsLoseNothing DEF Series
<1>3. row.level = level /\ row.rank = RankOf(LastBars(bars, RankDays)) /\ row.spread = SpreadOf(LastBars(bars, VolDays), level)
  BY <1>2 DEF RowFrom
<1>4. RankDays \in Nat /\ VolDays \in Nat /\ RankDays >= 2
  BY FeatureAssumption
<1>5. ASSUME NEW d \in TradingDays, d < on, \A t \in TradingDays : t < on => t <= d
      PROVE  level = <<CloseOf["vix"][d]>>
  <2>1. <<d, 0>> \in bars
    BY <1>5 DEF Sessions
  <2>2. LaterBars(<<d, 0>>, bars) = {}
    BY <1>5, DaysAreNumbers DEF LaterBars, Sessions
  <2>3. <<d, 0>> \in LastBars(bars, 1)
    BY <2>1, <2>2, FS_EmptySet DEF LastBars
  <2>4. ASSUME NEW x \in LastBars(bars, 1), x # <<d, 0>>
        PROVE  FALSE
    <3>1. x \in bars /\ Cardinality(LaterBars(x, bars)) < 1
      BY <2>4 DEF LastBars
    <3>2. <<d, 0>> \in LaterBars(x, bars)
      BY <1>1, <2>1, <2>2, <2>4, <3>1, BarsAreOrdered
    <3>3. Cardinality(LaterBars(<<d, 0>>, bars)) < Cardinality(LaterBars(x, bars)) /\ Cardinality(LaterBars(<<d, 0>>, bars)) \in Nat
          /\ Cardinality(LaterBars(x, bars)) \in Nat
      BY <1>1, <2>1, <3>1, <3>2, BarsAreOrdered
    <3> QED
      BY <3>1, <3>3
  <2>5. LastBars(bars, 1) = {<<d, 0>>}
    BY <2>3, <2>4
  <2>6. LastBars(bars, 1) \in FinitePart(DailyBars) /\ LastBars(bars, 1) # {}
    BY <1>1, <2>5, <2>3, FS_Subset DEF LastBars, FinitePart
  <2>7. Latest(LastBars(bars, 1)) = <<d, 0>>
    BY <2>5, <2>6, LatestIsThere
  <2>8. Latest(LastBars(bars, 1))[1] = d
    BY <2>7
  <2> QED
    BY <2>6, <2>8 DEF LevelOf
<1>6. ASSUME Cardinality(bars) >= 2
      PROVE  row.rank[2] = (IF Cardinality(bars) > RankDays THEN RankDays ELSE Cardinality(bars))
  <2>1. CASE Cardinality(bars) > RankDays
    <3>1. Cardinality(LastBars(bars, RankDays)) = RankDays
      BY <1>1, <1>4, <2>1, LastBarsAreMany
    <3> QED
      BY <1>3, <1>4, <2>1, <3>1 DEF RankOf
  <2>2. CASE ~ (Cardinality(bars) > RankDays)
    <3>1. ASSUME NEW x \in bars
          PROVE  Cardinality(LaterBars(x, bars)) < RankDays
      <4>1. LaterBars(x, bars) \in SUBSET bars /\ x \notin LaterBars(x, bars)
        BY <1>1, BarsAreOrdered DEF LaterBars
      <4>2. Cardinality(LaterBars(x, bars)) <= Cardinality(bars) /\ Cardinality(LaterBars(x, bars)) # Cardinality(bars)
        BY <1>1, <3>1, <4>1, FS_Subset
      <4>3. Cardinality(LaterBars(x, bars)) \in Nat
        BY <1>1, BarsAreOrdered
      <4> QED
        BY <1>1, <1>4, <2>2, <4>2, <4>3
    <3>2. LastBars(bars, RankDays) = bars
      BY <3>1 DEF LastBars
    <3> QED
      BY <1>1, <1>3, <1>6, <2>2, <3>2 DEF RankOf
  <2> QED
    BY <2>1, <2>2
<1>7. ASSUME Cardinality(LastBars(bars, VolDays)) >= 3
      PROVE  row.spread[1] = LastBars(bars, VolDays)
  <2>1. LastBars(bars, VolDays) # {}
    BY <1>7, FS_EmptySet
  <2>2. bars # {}
    BY <2>1 DEF LastBars
  <2>3. Latest(bars) \in bars /\ LaterBars(Latest(bars), bars) = {}
    BY <1>1, <2>2, LatestIsThere
  <2>4. Latest(bars) \in LastBars(bars, 1)
    BY <2>3, FS_EmptySet DEF LastBars
  <2>5. level # NaN
    BY <2>4 DEF LevelOf, NaN
  <2>6. Cardinality(LastBars(bars, VolDays)) \in Nat
    BY <1>1, FS_Subset, FS_CardinalityType DEF LastBars
  <2>7. row.spread = <<LastBars(bars, VolDays), level>>
    BY <1>3, <1>7, <2>5, <2>6 DEF SpreadOf
  <2> QED
    BY <2>7
<1> QED
  BY <1>3, <1>5, <1>6, <1>7

(* A listed contract's expiry, if it is the next, is the row's.             *)
LEMMA ListedIsTaken ==
  ASSUME NEW past \in DayPasts, NEW on \in TradingDays, NEW next \in past.expiries,
         next >= on, \A e \in Expiries : e >= on => next <= e
  PROVE  DteFrom(past, on) = next - on
<1> DEFINE ahead == {e \in past.expiries : e >= on}
<1>1. next \in ahead /\ ahead \in SUBSET Nat /\ \A e \in ahead : next <= e
  BY ExpiryAssumption DEF DayPasts
<1>2. Min(ahead) \in ahead /\ \A e \in ahead : Min(ahead) <= e
  BY <1>1, LeastElement DEF Min
<1>3. Min(ahead) = next
  BY <1>1, <1>2
<1> QED
  BY <1>1, <1>3 DEF DteFrom

LEMMA RowsAreHonest == FeatureInv => FeaturesAreOfTheMoment
<1> SUFFICES ASSUME FeatureInv PROVE FeaturesAreOfTheMoment
  OBVIOUS
<1>1. FeatureTypeOK
  <2>1. \A r \in built : r.row \in FeatureRows
    BY RowsAreTyped DEF FeatureInv, RowIsOfPast
  <2> QED
    BY <2>1 DEF FeatureInv, FeatureStore, FeatureTypeOK
<1>2. SameRow
  BY DEF FeatureInv, RowIsOfPast, SameRow
<1>3. WindowsAreWhole
  BY WholePastWholeRow DEF FeatureInv, RowIsOfPast, WindowsAreWhole
<1>4. DteIsListed
  <2> SUFFICES ASSUME NEW r \in built, NEW next \in r.past.expiries,
                      next >= r.on, \A e \in Expiries : e >= r.on => next <= e
               PROVE  r.row.dte = next - r.on
    BY DEF DteIsListed
  <2>1. r.on \in TradingDays /\ r.past \in DayPasts /\ r.row = RowFrom(r.past, r.on)
    BY DEF FeatureInv, RowIsOfPast
  <2>2. r.row.dte = DteFrom(r.past, r.on)
    BY <2>1 DEF RowFrom
  <2> QED
    BY <2>1, <2>2, ListedIsTaken
<1> QED
  BY <1>1, <1>2, <1>3, <1>4 DEF FeaturesAreOfTheMoment

(* dataset.py, featurespec.py: a row of features is the one the engine      *)
(* would have seen at its moment, built when it may: the same of the same   *)
(* past, over whole windows, of the contract that was listed.               *)
THEOREM FeaturesStayHonest == FeatureSpec => []FeaturesAreOfTheMoment
<1>1. FeatureInit => FeatureInv
  BY FeatureInvInit
<1>2. FeatureInv /\ [FeatureNext]_featureVars => FeatureInv'
  BY FeatureInvNext
<1>3. FeatureInv => FeaturesAreOfTheMoment
  BY RowsAreHonest
<1> QED
  BY <1>1, <1>2, <1>3, PTL DEF FeatureSpec

-----------------------------------------------------------------------------
(* Labels.                                                                  *)

TapeBar(b) == b.at \in 0 .. (Closing - 1) /\ b.known \in Nat /\ b.h \in Int /\ b.l \in Int
IndexBars == [at : 0 .. (Closing - 1), known : Nat, h : Int, l : Int]
OneOfAMinute(bars) == \A b, c \in bars : b.at = c.at => b = c
Fires(e) == e.at \in 1 .. (Closing - 1) /\ e.close \in Int /\ e.low \in Int /\ e.high \in Int

TapesAreTyped ==
  /\ now \in 0 .. (Closing + Hold + 1)
  /\ walked \cup overdue \subseteq IndexBars
  /\ \A b \in printed \cup shelved : TapeBar(b) /\ b.c \in Int
  /\ \A b \in overdue \cup printed \cup shelved : b.known = b.at + 1
  /\ \A b \in walked \cup overdue \cup printed \cup shelved : b.at < now
  /\ OneOfAMinute(walked) /\ OneOfAMinute(overdue) /\ OneOfAMinute(printed \cup shelved)
  /\ \A b \in walked, c \in overdue : b.at # c.at
  /\ IsFiniteSet(evaluations) /\ \A e \in evaluations : Fires(e)

(* What a run may have read, and what may have come in since a moment.      *)
StoreIsTyped(store) ==
  /\ store.index \subseteq IndexBars /\ \A b \in store.option : TapeBar(b) /\ b.c \in Int
  /\ OneOfAMinute(store.index) /\ OneOfAMinute(store.option)
BarsAdded(bars, more, when) ==
  /\ bars \subseteq more
  /\ \A b \in more \ bars : b.known \in Nat /\ b.at \in Nat /\ (b.known = b.at + 1 \/ b.known >= when)

RunIsSound(r) ==
  /\ r.when \in Nat /\ IsFiniteSet(r.labels) /\ StoreIsTyped(r.read)
  /\ r.weights = [l \in r.labels |-> Weight(r.labels, l)]
  /\ \A l \in r.labels : /\ Fires(l.of) /\ To(l) \in Nat /\ From(l) < To(l) /\ To(l) <= From(l) + Hold
                         /\ l = Labelled(r.read, l.of)
StoreHasGrown(r) ==
  /\ r.when <= now
  /\ BarsAdded(r.read.index, walked, r.when) /\ BarsAdded(r.read.option, printed, r.when)

LabelInv == TapesAreTyped /\ \A r \in given : RunIsSound(r) /\ StoreHasGrown(r)

LEMMA StoreTyped == TapesAreTyped => StoreIsTyped(Store)
BY DEF TapesAreTyped, StoreIsTyped, Store, OneOfAMinute

LEMMA LabelInvInit == LabelInit => LabelInv
<1> SUFFICES ASSUME LabelInit PROVE LabelInv
  OBVIOUS
<1>1. IsFiniteSet({})
  BY FS_EmptySet
<1>2. TapesAreTyped
  BY <1>1, LabelAssumption DEF LabelInit, TapesAreTyped, OneOfAMinute
<1> QED
  BY <1>2 DEF LabelInit, LabelInv

(* What a path of bars touches first.                                       *)
LEMMA EarliestIsThere ==
  ASSUME NEW bars, bars # {}, \A b \in bars : b.at \in Nat
  PROVE  EarliestBar(bars) \in bars /\ \A c \in bars : EarliestBar(bars).at <= c.at
<1> DEFINE ats == {b.at : b \in bars}
<1>1. ats \in SUBSET Nat /\ ats # {}
  OBVIOUS
<1> HIDE DEF ats
<1>2. PICK least \in ats : \A y \in ats : least <= y
  BY <1>1, LeastElement
<1>3. \E b \in bars : \A c \in bars : b.at <= c.at
  BY <1>2 DEF ats
<1> QED
  BY <1>3 DEF EarliestBar

LEMMA TouchIsOfThePath ==
  ASSUME NEW trail, \A b \in trail : b.at \in Nat, NEW horizon, NEW stop, NEW target, NEW touch,
         touch = FirstTouch(trail, horizon, stop, target)
  PROVE  /\ touch.label \in {0, 1}
         /\ touch.ends = horizon \/ \E b \in trail : touch.ends = b.at
         /\ touch.label = 1 => \E first \in trail : /\ touch.ends = first.at /\ ~ (first.l <= stop)
                                                   /\ \A b \in trail : b.l <= stop => first.at <= b.at
<1> DEFINE touched == {b \in trail : b.l <= stop \/ b.h >= target}
           first == EarliestBar(touched)
<1>1. touch = IF touched = {} THEN [label |-> 0, barrier |-> "time", ends |-> horizon]
              ELSE IF first.l <= stop THEN [label |-> 0, barrier |-> "stop", ends |-> first.at]
              ELSE [label |-> 1, barrier |-> "target", ends |-> first.at]
  BY DEF FirstTouch
<1>2. touched # {} => first \in trail /\ \A c \in touched : first.at <= c.at
  <2>1. \A b \in touched : b.at \in Nat
    OBVIOUS
  <2>2. touched \subseteq trail
    OBVIOUS
  <2> HIDE DEF touched
  <2> QED
    BY <2>1, <2>2, EarliestIsThere
<1>3. \A b \in trail : b.l <= stop => b \in touched
  OBVIOUS
<1> HIDE DEF touched, first
<1>4. CASE touched = {}
  BY <1>1, <1>4
<1>5. CASE touched # {} /\ first.l <= stop
  <2>1. touch = [label |-> 0, barrier |-> "stop", ends |-> first.at]
    BY <1>1, <1>5
  <2> QED
    BY <1>2, <1>5, <2>1
<1>6. CASE touched # {} /\ ~ (first.l <= stop)
  <2>1. touch = [label |-> 1, barrier |-> "target", ends |-> first.at]
    BY <1>1, <1>6
  <2> QED
    BY <1>2, <1>6, <1>3, <2>1
<1> QED
  BY <1>4, <1>5, <1>6

LEMMA PathIsAhead ==
  ASSUME NEW bars, \A b \in bars : b.at \in Nat /\ b.known \in Nat, NEW since \in Nat
  PROVE  /\ \A b \in PathOf(bars, since) : b \in bars /\ b.at \in Nat /\ since < b.at /\ b.at < since + Hold
         /\ \A b \in bars : since < b.at /\ b.at < since + Hold /\ b.known <= since + Hold => b \in PathOf(bars, since)
<1>1. Hold \in Nat
  BY LabelAssumption
<1> QED
  BY <1>1 DEF PathOf, KnownBy

(* Which path a label is walked on, and between which barriers.             *)
Reversed(trail) == {UpsideDown(b) : b \in trail}
LEMMA LabelIsOneOfTwo ==
  ASSUME NEW store, NEW e, NEW l, l = Labelled(store, e)
  PROVE  /\ l.of = e /\ From(l) = e.at
         /\ \/ /\ l.source = "real_option" /\ ContractOf(store, e) # {} /\ EntryPrint(store.option, e.at) # NoPrint
               /\ l.price = EntryPrint(store.option, e.at).price /\ l.touch = OnPremium(store.option, e.at, l.price)
            \/ /\ l.source = "index_approx" /\ ~ (ContractOf(store, e) # {} /\ EntryPrint(store.option, e.at) # NoPrint)
               /\ l.price = e.close /\ l.touch = OnIndex(store.index, e.at, e.close, DirectionOf(e))
<1> DEFINE since == EntryPrint(store.option, e.at)
<1>1. l = IF ContractOf(store, e) # {} /\ since # NoPrint
          THEN [of |-> e, source |-> "real_option", price |-> since.price, touch |-> OnPremium(store.option, e.at, since.price)]
          ELSE [of |-> e, source |-> "index_approx", price |-> e.close, touch |-> OnIndex(store.index, e.at, e.close, DirectionOf(e))]
  BY DEF Labelled
<1> HIDE DEF since
<1>2. CASE ContractOf(store, e) # {} /\ since # NoPrint
  <2>1. l = [of |-> e, source |-> "real_option", price |-> since.price, touch |-> OnPremium(store.option, e.at, since.price)]
    BY <1>1, <1>2
  <2> QED
    BY <1>2, <2>1 DEF From, since
<1>3. CASE ~ (ContractOf(store, e) # {} /\ since # NoPrint)
  <2>1. l = [of |-> e, source |-> "index_approx", price |-> e.close, touch |-> OnIndex(store.index, e.at, e.close, DirectionOf(e))]
    BY <1>1, <1>3
  <2> QED
    BY <1>3, <2>1 DEF From, since
<1> QED
  BY <1>2, <1>3

LEMMA LabelEndsInTime ==
  ASSUME NEW store, StoreIsTyped(store), NEW e, Fires(e), NEW l, l = Labelled(store, e)
  PROVE  l.of = e /\ To(l) \in Nat /\ From(l) < To(l) /\ To(l) <= From(l) + Hold /\ From(l) = e.at
<1>1. e.at \in Nat /\ Hold \in Nat \ {0}
  BY LabelAssumption DEF Fires
<1>2. \A b \in store.index \cup store.option : b.at \in Nat /\ b.known \in Nat
  BY DEF StoreIsTyped, IndexBars, TapeBar
<1>3. \A b \in PathOf(store.index, e.at) \cup PathOf(store.option, e.at) : b.at \in Nat /\ e.at < b.at /\ b.at < e.at + Hold
  BY <1>1, <1>2, PathIsAhead
<1>4. \A b \in Reversed(PathOf(store.index, e.at)) : b.at \in Nat /\ e.at < b.at /\ b.at < e.at + Hold
  <2> TAKE b \in Reversed(PathOf(store.index, e.at))
  <2>1. PICK c \in PathOf(store.index, e.at) : b = UpsideDown(c)
    BY DEF Reversed
  <2>2. c \in IndexBars
    BY DEF StoreIsTyped, PathOf, KnownBy
  <2>3. b.at = c.at
    BY <2>1, <2>2 DEF UpsideDown, IndexBars
  <2> QED
    BY <1>3, <2>3
<1>5. \E trail, stop, target : /\ \A b \in trail : b.at \in Nat /\ e.at < b.at /\ b.at < e.at + Hold
                              /\ l.touch = FirstTouch(trail, e.at + Hold, stop, target)
  <2>1. CASE l.source = "real_option" /\ l.touch = OnPremium(store.option, e.at, l.price)
    BY <1>3, <2>1 DEF OnPremium
  <2>2. CASE l.touch = OnIndex(store.index, e.at, e.close, DirectionOf(e))
    <3>1. CASE DirectionOf(e) = "long_call"
      BY <1>3, <2>2, <3>1 DEF OnIndex
    <3>2. CASE DirectionOf(e) # "long_call"
      BY <1>4, <2>2, <3>2 DEF OnIndex, Reversed
    <3> QED
      BY <3>1, <3>2
  <2> QED
    BY <2>1, <2>2, LabelIsOneOfTwo
<1>6. PICK trail, stop, target : /\ \A b \in trail : b.at \in Nat /\ e.at < b.at /\ b.at < e.at + Hold
                                /\ l.touch = FirstTouch(trail, e.at + Hold, stop, target)
  BY <1>5
<1>7. l.touch.ends = e.at + Hold \/ \E b \in trail : l.touch.ends = b.at
  BY <1>6, TouchIsOfThePath
<1>8. l.of = e /\ From(l) = e.at
  BY LabelIsOneOfTwo
<1> QED
  BY <1>1, <1>6, <1>7, <1>8 DEF To

(* Bars from the end of what was touched on change nothing of it.           *)
LEMMA TouchStays ==
  ASSUME NEW trail, NEW more, trail \subseteq more, OneOfAMinute(more), NEW horizon \in Nat,
         \A b \in more : b.at \in Nat /\ b.at < horizon,
         NEW stop, NEW target, NEW touch, touch = FirstTouch(trail, horizon, stop, target),
         \A b \in more \ trail : ~ (b.at < touch.ends)
  PROVE  FirstTouch(more, horizon, stop, target) = touch
<1> DEFINE touched == {b \in trail : b.l <= stop \/ b.h >= target}
           touchedMore == {b \in more : b.l <= stop \/ b.h >= target}
           first == EarliestBar(touched)
           firstMore == EarliestBar(touchedMore)
<1>1. touch = IF touched = {} THEN [label |-> 0, barrier |-> "time", ends |-> horizon]
              ELSE IF first.l <= stop THEN [label |-> 0, barrier |-> "stop", ends |-> first.at]
              ELSE [label |-> 1, barrier |-> "target", ends |-> first.at]
  BY DEF FirstTouch
<1>2. FirstTouch(more, horizon, stop, target) =
        IF touchedMore = {} THEN [label |-> 0, barrier |-> "time", ends |-> horizon]
        ELSE IF firstMore.l <= stop THEN [label |-> 0, barrier |-> "stop", ends |-> firstMore.at]
        ELSE [label |-> 1, barrier |-> "target", ends |-> firstMore.at]
  BY DEF FirstTouch
<1>3. touched \subseteq touchedMore /\ touchedMore \subseteq more /\ \A b \in touchedMore : b \in touched \/ b \in more \ trail
  OBVIOUS
<1>4. \A b \in touchedMore : b.at \in Nat
  OBVIOUS
<1>5. touched # {} => first \in touched /\ \A c \in touched : first.at <= c.at
  <2>1. \A b \in touched : b.at \in Nat
    BY <1>3, <1>4
  <2> HIDE DEF touched
  <2> QED
    BY <2>1, EarliestIsThere
<1>6. touchedMore # {} => firstMore \in touchedMore /\ \A c \in touchedMore : firstMore.at <= c.at
  <2> HIDE DEF touchedMore
  <2> QED
    BY <1>4, EarliestIsThere
<1> HIDE DEF touched, touchedMore, first, firstMore
<1>7. CASE touched = {}
  <2>1. touch.ends = horizon
    BY <1>1, <1>7
  <2>2. touchedMore = {}
    BY <1>3, <1>7, <2>1
  <2> QED
    BY <1>1, <1>2, <1>7, <2>2
<1>8. CASE touched # {}
  <2>1. touch.ends = first.at
    BY <1>1, <1>8
  <2>2. first \in touchedMore /\ firstMore \in touchedMore /\ firstMore.at <= first.at
    BY <1>3, <1>5, <1>6, <1>8
  <2>3. first.at <= firstMore.at
    BY <1>3, <1>4, <1>5, <1>8, <2>1, <2>2
  <2>4. firstMore = first
    BY <1>3, <1>4, <2>2, <2>3 DEF OneOfAMinute
  <2> QED
    BY <1>1, <1>2, <1>8, <2>2, <2>4
<1> QED
  BY <1>7, <1>8

LEMMA ReversedBars ==
  ASSUME NEW trail \in SUBSET IndexBars
  PROVE  /\ \A y \in Reversed(trail) : \E x \in trail : y = UpsideDown(x) /\ y.at = x.at
         /\ OneOfAMinute(trail) => OneOfAMinute(Reversed(trail))
<1>1. \A x \in trail : UpsideDown(x).at = x.at
  BY DEF UpsideDown, IndexBars
<1>2. \A y \in Reversed(trail) : \E x \in trail : y = UpsideDown(x) /\ y.at = x.at
  BY <1>1 DEF Reversed
<1> QED
  BY <1>2 DEF OneOfAMinute

(* What comes in late, or behind the reading but outside of the label's     *)
(* life and entry, changes no label.                                        *)
LEMMA LabelStays ==
  ASSUME NEW old, NEW new, StoreIsTyped(old), StoreIsTyped(new), NEW e, Fires(e),
         NEW when \in Nat, when > e.at + Hold,
         BarsAdded(old.index, new.index, when), BarsAdded(old.option, new.option, when),
         NEW l, l = Labelled(old, e), ContractOf(new, e) = ContractOf(old, e),
         ContractOf(new, e) # {} => ~ AtEntry(BackDated(new.option, old.option), l),
         l.source = "index_approx" => ~ InLife(BackDated(new.index, old.index), l),
         l.source = "real_option" => ~ InLife(BackDated(new.option, old.option), l)
  PROVE  l = Labelled(new, e)
<1>1. e.at \in Nat /\ Hold \in Nat \ {0} /\ Staleness \in Nat /\ e.at + Hold \in Nat
  BY LabelAssumption DEF Fires, RealPremiumConfig
<1>2. l.of = e /\ From(l) = e.at
  BY LabelIsOneOfTwo
<1>3. /\ \A b \in new.index \ old.index : b.at \in Nat /\ (b.known <= e.at + Hold => b \in BackDated(new.index, old.index))
      /\ \A b \in new.option \ old.option : b.at \in Nat /\ (b.known <= e.at + Hold => b \in BackDated(new.option, old.option))
  BY <1>1 DEF BarsAdded, BackDated
<1>4. ContractOf(new, e) # {} => EntryPrint(new.option, e.at) = EntryPrint(old.option, e.at)
  <2> SUFFICES ASSUME ContractOf(new, e) # {} PROVE EntryPrint(new.option, e.at) = EntryPrint(old.option, e.at)
    OBVIOUS
  <2>1. ASSUME NEW b \in new.option \ old.option, b \in KnownBy(new.option, e.at, Staleness + 1) PROVE FALSE
    <3>1. b.at \in Nat /\ b.at >= e.at - (Staleness + 1) /\ b.at + 1 <= e.at /\ b.known <= e.at /\ b.known \in Nat
      BY <1>3, <2>1 DEF KnownBy, BarsAdded
    <3>2. b \in BackDated(new.option, old.option)
      BY <1>1, <1>3, <3>1
    <3>3. l.of.at - Staleness - 1 <= b.at /\ b.at < l.of.at
      BY <1>1, <1>2, <3>1
    <3> QED
      BY <3>2, <3>3 DEF AtEntry
  <2>2. KnownBy(new.option, e.at, Staleness + 1) = KnownBy(old.option, e.at, Staleness + 1)
    BY <2>1 DEF KnownBy, BarsAdded
  <2> QED
    BY <2>2 DEF EntryPrint
<1>5. \A bars, more : /\ \A b \in bars \cup more : b.at \in Nat /\ b.known \in Nat
                      /\ OneOfAMinute(more) /\ bars \subseteq more
        => /\ PathOf(bars, e.at) \subseteq PathOf(more, e.at) /\ OneOfAMinute(PathOf(more, e.at))
           /\ \A b \in PathOf(more, e.at) : b \in more /\ b.at \in Nat /\ e.at < b.at /\ b.at < e.at + Hold
           /\ \A b \in PathOf(more, e.at) \ PathOf(bars, e.at) : b \in more \ bars /\ b.known <= e.at + Hold
  BY <1>1 DEF PathOf, KnownBy, OneOfAMinute
<1>6. CASE l.source = "real_option"
  <2>1. /\ ContractOf(old, e) # {} /\ EntryPrint(old.option, e.at) # NoPrint
        /\ l.price = EntryPrint(old.option, e.at).price /\ l.touch = OnPremium(old.option, e.at, l.price)
    BY <1>6, LabelIsOneOfTwo
  <2> DEFINE trail == PathOf(old.option, e.at)
             more == PathOf(new.option, e.at)
             stop == l.price - Rounded(l.price * PathStopPct, 100)
             target == l.price + Rounded(l.price * PathTargetPct, 100) + EraCost[Era]
  <2>2. l.touch = FirstTouch(trail, e.at + Hold, stop, target) /\ OnPremium(new.option, e.at, l.price) = FirstTouch(more, e.at + Hold, stop, target)
    BY <2>1 DEF OnPremium
  <2>3. (\A b \in old.option \cup new.option : b.at \in Nat /\ b.known \in Nat) /\ OneOfAMinute(new.option) /\ old.option \subseteq new.option
    BY DEF StoreIsTyped, TapeBar, BarsAdded
  <2>4. /\ trail \subseteq more /\ OneOfAMinute(more) /\ \A b \in more : b.at \in Nat /\ e.at < b.at /\ b.at < e.at + Hold
        /\ \A b \in more \ trail : b \in new.option \ old.option /\ b.known <= e.at + Hold
    BY <1>5, <2>3
  <2>5. \A b \in more \ trail : ~ (b.at < l.touch.ends)
    BY <1>2, <1>3, <1>6, <2>4 DEF InLife, To
  <2> HIDE DEF trail, more, stop, target
  <2>6. OnPremium(new.option, e.at, l.price) = l.touch
    BY <1>1, <2>2, <2>4, <2>5, TouchStays
  <2>7. Labelled(new, e) = [of |-> e, source |-> "real_option", price |-> l.price, touch |-> l.touch]
    BY <1>4, <2>1, <2>6 DEF Labelled
  <2>8. Labelled(old, e) = [of |-> e, source |-> "real_option", price |-> l.price, touch |-> l.touch]
    BY <2>1 DEF Labelled
  <2> QED
    BY <2>7, <2>8
<1>7. CASE l.source # "real_option"
  <2>1. /\ l.source = "index_approx" /\ ~ (ContractOf(old, e) # {} /\ EntryPrint(old.option, e.at) # NoPrint)
        /\ l.price = e.close /\ l.touch = OnIndex(old.index, e.at, e.close, DirectionOf(e))
    BY <1>7, LabelIsOneOfTwo
  <2> DEFINE trail == PathOf(old.index, e.at)
             more == PathOf(new.index, e.at)
             stop == IndexPoints(Snapshot.stop)
             target == IndexPoints(Snapshot.target) + IndexCost
  <2>2. \A bars : OnIndex(bars, e.at, e.close, DirectionOf(e)) =
          IF DirectionOf(e) = "long_call" THEN FirstTouch(PathOf(bars, e.at), e.at + Hold, e.close - stop, e.close + target)
          ELSE FirstTouch(Reversed(PathOf(bars, e.at)), e.at + Hold, 0 - (e.close + stop), target - e.close)
    BY DEF OnIndex, Reversed
  <2>3. /\ (\A b \in old.index \cup new.index : b.at \in Nat /\ b.known \in Nat) /\ OneOfAMinute(new.index)
        /\ old.index \subseteq new.index /\ new.index \subseteq IndexBars
    BY DEF StoreIsTyped, IndexBars, BarsAdded
  <2>4. /\ trail \subseteq more /\ OneOfAMinute(more) /\ \A b \in more : b \in new.index /\ b.at \in Nat /\ e.at < b.at /\ b.at < e.at + Hold
        /\ \A b \in more \ trail : b \in new.index \ old.index /\ b.known <= e.at + Hold
    BY <1>5, <2>3
  <2>5. \A b \in more \ trail : ~ (b.at < l.touch.ends)
    BY <1>2, <1>3, <2>1, <2>4 DEF InLife, To
  <2> HIDE DEF trail, more, stop, target
  <2>6. OnIndex(new.index, e.at, e.close, DirectionOf(e)) = l.touch
    <3>1. CASE DirectionOf(e) = "long_call"
      <4>1. l.touch = FirstTouch(trail, e.at + Hold, e.close - stop, e.close + target)
            /\ OnIndex(new.index, e.at, e.close, DirectionOf(e)) = FirstTouch(more, e.at + Hold, e.close - stop, e.close + target)
        BY <2>1, <2>2, <3>1 DEF trail, more
      <4> QED
        BY <1>1, <2>4, <2>5, <4>1, TouchStays
    <3>2. CASE DirectionOf(e) # "long_call"
      <4>1. l.touch = FirstTouch(Reversed(trail), e.at + Hold, 0 - (e.close + stop), target - e.close)
            /\ OnIndex(new.index, e.at, e.close, DirectionOf(e)) = FirstTouch(Reversed(more), e.at + Hold, 0 - (e.close + stop), target - e.close)
        BY <2>1, <2>2, <3>2 DEF trail, more
      <4>2. more \in SUBSET IndexBars
        BY <2>3, <2>4
      <4>3. \A y \in Reversed(more) : \E x \in more : y = UpsideDown(x) /\ y.at = x.at
        BY <4>2, ReversedBars
      <4>4. Reversed(trail) \subseteq Reversed(more) /\ OneOfAMinute(Reversed(more))
        BY <2>4, <4>2, ReversedBars DEF Reversed
      <4>5. \A y \in Reversed(more) : y.at \in Nat /\ y.at < e.at + Hold
        BY <2>4, <4>3
      <4>6. \A y \in Reversed(more) \ Reversed(trail) : ~ (y.at < l.touch.ends)
        <5> TAKE y \in Reversed(more) \ Reversed(trail)
        <5>1. PICK x \in more : y = UpsideDown(x) /\ y.at = x.at
          BY <4>3
        <5>2. x \notin trail
          BY <5>1 DEF Reversed
        <5> QED
          BY <2>5, <5>1, <5>2
      <4> QED
        BY <1>1, <4>1, <4>4, <4>5, <4>6, TouchStays
    <3> QED
      BY <3>1, <3>2
  <2>7. ~ (ContractOf(new, e) # {} /\ EntryPrint(new.option, e.at) # NoPrint)
    BY <1>4, <2>1
  <2>8. Labelled(new, e) = [of |-> e, source |-> "index_approx", price |-> e.close, touch |-> l.touch]
    BY <2>6, <2>7 DEF Labelled
  <2>9. Labelled(old, e) = [of |-> e, source |-> "index_approx", price |-> e.close, touch |-> l.touch]
    BY <2>1 DEF Labelled
  <2> QED
    BY <2>8, <2>9
<1> QED
  BY <1>6, <1>7

LEMMA LabelsSettle == LabelInv => LabelIsSettled
<1> SUFFICES ASSUME LabelInv, NEW r \in given, NEW l \in r.labels, Over(r, l), ~ Rewritten(r, l)
             PROVE  l = Labelled(Store, l.of)
  BY DEF LabelIsSettled
<1>1. RunIsSound(r) /\ StoreHasGrown(r) /\ StoreIsTyped(Store)
  BY StoreTyped DEF LabelInv
<1>2. Store.index = walked /\ Store.option = printed
  BY DEF Store
<1>3. BarsAdded(r.read.index, Store.index, r.when) /\ BarsAdded(r.read.option, Store.option, r.when)
  BY <1>1, <1>2 DEF StoreHasGrown
<1>4. /\ ContractOf(Store, l.of) = ContractOf(r.read, l.of)
      /\ ContractOf(Store, l.of) # {} => ~ AtEntry(BackDated(Store.option, r.read.option), l)
      /\ l.source = "index_approx" => ~ InLife(BackDated(Store.index, r.read.index), l)
      /\ l.source = "real_option" => ~ InLife(BackDated(Store.option, r.read.option), l)
  BY <1>2 DEF Rewritten
<1>5. r.when \in Nat /\ r.when > l.of.at + Hold /\ StoreIsTyped(r.read) /\ Fires(l.of) /\ l = Labelled(r.read, l.of)
  BY <1>1 DEF RunIsSound, Over
<1> QED
  BY <1>1, <1>3, <1>4, <1>5, LabelStays

(* Bars come in one by one or in one append, each known from now on at the  *)
(* earliest or, if it says so, from its own close.                          *)
LEMMA BarsComeIn ==
  ASSUME TapesAreTyped, PrintMinute \/ Deliver \/ BackfillIndex \/ LoadContract
  PROVE  /\ TapesAreTyped' /\ now <= now' /\ UNCHANGED <<evaluations, given>>
         /\ BarsAdded(walked, walked', now) /\ BarsAdded(printed, printed', now)
<1>1. now \in Nat /\ Closing \in Nat /\ Hold \in Nat \ {0}
  BY LabelAssumption DEF TapesAreTyped
<1>2. /\ \A b \in walked \cup overdue : b \in IndexBars /\ b.at \in Nat /\ b.known \in Nat
      /\ \A b \in printed \cup shelved : TapeBar(b) /\ b.at \in Nat /\ b.known \in Nat
  BY DEF TapesAreTyped, IndexBars, TapeBar
<1>3. CASE PrintMinute
  <2>1. PICK m \in Minutes :
          LET bar == [at |-> now, known |-> now + 1, h |-> m.h, l |-> m.l]
              print == IF m.oc = 0 THEN {} ELSE {[at |-> now, known |-> now + 1, h |-> m.oh, l |-> m.ol, c |-> m.oc]}
          IN /\ \/ walked' = walked \cup {bar} /\ UNCHANGED overdue
                \/ overdue' = overdue \cup {bar} /\ UNCHANGED walked
             /\ \/ printed' = printed \cup print /\ UNCHANGED shelved
                \/ shelved' = shelved \cup print /\ UNCHANGED printed
    BY <1>3 DEF PrintMinute
  <2>2. now < Closing /\ now' = now + 1 /\ UNCHANGED <<evaluations, given>>
    BY <1>3 DEF PrintMinute
  <2>3. m.h \in Int /\ m.l \in Int /\ m.oh \in Int /\ m.ol \in Int /\ m.oc \in Int
    BY LabelAssumption
  <2>4. PICK bar : bar = [at |-> now, known |-> now + 1, h |-> m.h, l |-> m.l]
    OBVIOUS
  <2>5. PICK one : one = [at |-> now, known |-> now + 1, h |-> m.oh, l |-> m.ol, c |-> m.oc]
    OBVIOUS
  <2>6. bar \in IndexBars /\ bar.at = now /\ bar.known = now + 1
    BY <1>1, <2>2, <2>3, <2>4 DEF IndexBars
  <2>7. TapeBar(one) /\ one.at = now /\ one.known = now + 1 /\ one.c \in Int
    BY <1>1, <2>2, <2>3, <2>5 DEF TapeBar
  <2>8. PICK print \in {{}, {one}} : \/ printed' = printed \cup print /\ shelved' = shelved
                                     \/ shelved' = shelved \cup print /\ printed' = printed
    BY <2>1, <2>5
  <2>9. \/ walked' = walked \cup {bar} /\ overdue' = overdue
        \/ overdue' = overdue \cup {bar} /\ walked' = walked
    BY <2>1, <2>4
  <2>10. \A b \in walked \cup overdue \cup printed \cup shelved : b.at # now /\ b.at < now
    BY <1>1, <1>2 DEF TapesAreTyped
  <2>11. OneOfAMinute(walked') /\ OneOfAMinute(overdue') /\ \A b \in walked', c \in overdue' : b.at # c.at
    <3>1. CASE walked' = walked \cup {bar} /\ overdue' = overdue
      BY <2>6, <2>10, <3>1 DEF OneOfAMinute, TapesAreTyped
    <3>2. CASE overdue' = overdue \cup {bar} /\ walked' = walked
      BY <2>6, <2>10, <3>2 DEF OneOfAMinute, TapesAreTyped
    <3> QED
      BY <2>9, <3>1, <3>2
  <2>12. printed' \cup shelved' = printed \cup shelved \cup print /\ walked' \cup overdue' = walked \cup overdue \cup {bar}
    BY <2>8, <2>9
  <2>13. OneOfAMinute(printed' \cup shelved')
    BY <2>7, <2>8, <2>10, <2>12 DEF OneOfAMinute, TapesAreTyped
  <2>14. /\ walked' \cup overdue' \subseteq IndexBars /\ \A b \in printed' \cup shelved' : TapeBar(b) /\ b.c \in Int
         /\ \A b \in overdue' \cup printed' \cup shelved' : b.known = b.at + 1
    <3>1. \A b \in overdue' : b \in overdue \/ b = bar
      BY <2>9
    <3> QED
      BY <2>6, <2>7, <2>8, <2>12, <3>1 DEF TapesAreTyped
  <2>15. \A b \in walked' \cup overdue' \cup printed' \cup shelved' : b.at < now'
    <3> TAKE b \in walked' \cup overdue' \cup printed' \cup shelved'
    <3>1. b \in walked \cup overdue \cup printed \cup shelved \/ b = bar \/ b = one
      BY <2>8, <2>12
    <3>2. b.at \in Int
      BY <1>1, <1>2, <2>6, <2>7, <3>1
    <3> QED
      BY <1>1, <2>2, <2>6, <2>7, <2>10, <3>1, <3>2
  <2>16. now' \in 0 .. (Closing + Hold + 1) /\ now <= now'
    BY <1>1, <2>2
  <2>17. TapesAreTyped'
    BY <2>2, <2>11, <2>13, <2>14, <2>15, <2>16 DEF TapesAreTyped
  <2>18. BarsAdded(walked, walked', now) /\ BarsAdded(printed, printed', now)
    BY <1>1, <2>6, <2>7, <2>8, <2>9 DEF BarsAdded
  <2> QED
    BY <2>2, <2>16, <2>17, <2>18
<1>4. CASE Deliver
  <2>1. PICK b \in overdue : overdue' = overdue \ {b} /\ walked' = walked \cup {[b EXCEPT !.known = now]}
    BY <1>4 DEF Deliver
  <2>2. UNCHANGED <<now, printed, shelved, evaluations, given>>
    BY <1>4 DEF Deliver
  <2>3. PICK late : late = [b EXCEPT !.known = now]
    OBVIOUS
  <2>4. late \in IndexBars /\ late.at = b.at /\ late.known = now
    BY <1>1, <1>2, <2>3 DEF IndexBars
  <2>5. walked' = walked \cup {late}
    BY <2>1, <2>3
  <2>6. OneOfAMinute(walked') /\ OneOfAMinute(overdue') /\ \A x \in walked', c \in overdue' : x.at # c.at
    <3>1. \A c \in walked : c.at # b.at
      BY DEF TapesAreTyped
    <3>2. \A c \in overdue' : c \in overdue /\ c.at # b.at
      BY <2>1 DEF TapesAreTyped, OneOfAMinute
    <3> QED
      BY <2>4, <2>5, <3>1, <3>2 DEF TapesAreTyped, OneOfAMinute
  <2>7. walked' \cup overdue' \subseteq IndexBars /\ overdue' \subseteq overdue
    BY <2>1, <2>4, <2>5 DEF TapesAreTyped
  <2>8. b.at < now
    BY DEF TapesAreTyped
  <2>9. \A c \in walked' \cup overdue' \cup printed' \cup shelved' : c.at < now'
    BY <2>1, <2>2, <2>4, <2>5, <2>8 DEF TapesAreTyped
  <2>10. TapesAreTyped'
    BY <2>2, <2>6, <2>7, <2>9 DEF TapesAreTyped
  <2>11. BarsAdded(walked, walked', now) /\ BarsAdded(printed, printed', now)
    BY <1>1, <1>2, <2>2, <2>4, <2>5 DEF BarsAdded
  <2> QED
    BY <1>1, <2>2, <2>10, <2>11
<1>5. CASE BackfillIndex
  <2>1. PICK got \in SUBSET overdue : walked' = walked \cup got /\ overdue' = overdue \ got
    BY <1>5 DEF BackfillIndex
  <2>2. UNCHANGED <<now, printed, shelved, evaluations, given>>
    BY <1>5 DEF BackfillIndex
  <2>3. OneOfAMinute(walked') /\ OneOfAMinute(overdue') /\ \A b \in walked', c \in overdue' : b.at # c.at
    BY <2>1 DEF TapesAreTyped, OneOfAMinute
  <2>4. TapesAreTyped'
    BY <2>1, <2>2, <2>3 DEF TapesAreTyped
  <2>5. BarsAdded(walked, walked', now) /\ BarsAdded(printed, printed', now)
    BY <1>2, <2>1, <2>2 DEF BarsAdded, TapesAreTyped
  <2> QED
    BY <1>1, <2>2, <2>4, <2>5
<1>6. CASE LoadContract
  <2>1. printed' = printed \cup shelved /\ shelved' = {} /\ UNCHANGED <<now, walked, overdue, evaluations, given>>
    BY <1>6 DEF LoadContract
  <2>2. printed' \cup shelved' = printed \cup shelved
    BY <2>1
  <2>3. TapesAreTyped'
    BY <2>1, <2>2 DEF TapesAreTyped
  <2>4. BarsAdded(walked, walked', now) /\ BarsAdded(printed, printed', now)
    BY <1>2, <2>1 DEF BarsAdded, TapesAreTyped
  <2> QED
    BY <1>1, <2>1, <2>3, <2>4
<1> QED
  BY <1>3, <1>4, <1>5, <1>6

LEMMA RunsStaySound ==
  ASSUME LabelInv, TapesAreTyped', UNCHANGED given, now <= now', BarsAdded(walked, walked', now), BarsAdded(printed, printed', now)
  PROVE  LabelInv'
<1>1. now \in Nat /\ now' \in Nat
  BY LabelAssumption DEF LabelInv, TapesAreTyped
<1>2. ASSUME NEW r \in given PROVE RunIsSound(r)' /\ StoreHasGrown(r)'
  <2>1. RunIsSound(r) /\ StoreHasGrown(r) /\ r.when \in Nat /\ r.when <= now
    BY DEF LabelInv, RunIsSound, StoreHasGrown
  <2>2. \A bars, mid, more : BarsAdded(bars, mid, r.when) /\ BarsAdded(mid, more, now) => BarsAdded(bars, more, r.when)
    BY <1>1, <2>1 DEF BarsAdded
  <2>3. RunIsSound(r)'
    BY <2>1 DEF RunIsSound
  <2> QED
    BY <1>1, <2>1, <2>2, <2>3 DEF StoreHasGrown
<1> QED
  BY <1>2 DEF LabelInv

LEMMA LabelInvNext == LabelInv /\ [LabelNext]_labelVars => LabelInv'
<1> SUFFICES ASSUME LabelInv, [LabelNext]_labelVars PROVE LabelInv'
  OBVIOUS
<1>1. now \in Nat /\ Closing \in Nat /\ Hold \in Nat \ {0} /\ TapesAreTyped
  BY LabelAssumption DEF LabelInv, TapesAreTyped
<1>2. BarsAdded(walked, walked, now) /\ BarsAdded(printed, printed, now)
  BY DEF BarsAdded
<1>3. CASE PrintMinute \/ Deliver \/ BackfillIndex \/ LoadContract
  BY <1>1, <1>3, BarsComeIn, RunsStaySound
<1>4. CASE Evening
  <2>1. now' = Closing + Hold + 1 /\ now = Closing /\ UNCHANGED <<walked, printed, overdue, shelved, evaluations, given>>
    BY <1>4 DEF Evening
  <2>2. \A b \in walked \cup overdue \cup printed \cup shelved : b.at < now'
    BY <1>1, <2>1 DEF TapesAreTyped, IndexBars, TapeBar
  <2>3. TapesAreTyped'
    BY <1>1, <2>1, <2>2 DEF TapesAreTyped
  <2> QED
    BY <1>1, <1>2, <2>1, <2>3, RunsStaySound
<1>5. CASE StoreEvaluation
  <2>1. PICK e \in Evaluations : evaluations' = evaluations \cup
          {[at |-> now, verdict |-> e.verdict, passed |-> e.passed, close |-> e.close, low |-> e.low, high |-> e.high]}
    BY <1>5 DEF StoreEvaluation
  <2>2. PICK new : new = [at |-> now, verdict |-> e.verdict, passed |-> e.passed, close |-> e.close, low |-> e.low, high |-> e.high]
    OBVIOUS
  <2>3. now \in 1 .. (Closing - 1) /\ UNCHANGED <<now, walked, printed, overdue, shelved, given>>
    BY <1>5 DEF StoreEvaluation
  <2>4. Fires(new)
    BY <2>2, <2>3, LabelAssumption DEF Fires
  <2>5. evaluations' = evaluations \cup {new} /\ IsFiniteSet(evaluations)
    BY <2>1, <2>2, <1>1 DEF TapesAreTyped
  <2>6. IsFiniteSet(evaluations')
    BY <2>5, FS_AddElement
  <2>7. \A x \in evaluations' : Fires(x)
    BY <1>1, <2>4, <2>5 DEF TapesAreTyped
  <2>8. TapesAreTyped'
    BY <1>1, <2>3, <2>6, <2>7 DEF TapesAreTyped
  <2> QED
    BY <1>1, <1>2, <2>3, <2>8, RunsStaySound
<1>6. CASE LabelAll
  <2> DEFINE run == [when |-> now, read |-> Store, labels |-> Dataset, weights |-> [l \in Dataset |-> Weight(Dataset, l)]]
  <2>1. given' = given \cup {run} /\ UNCHANGED <<now, walked, printed, overdue, shelved, evaluations>>
    BY <1>6 DEF LabelAll
  <2>2. run.when = now /\ run.read = Store /\ run.labels = Dataset /\ run.weights = [l \in run.labels |-> Weight(run.labels, l)]
    OBVIOUS
  <2> HIDE DEF run
  <2>3. IsFiniteSet(Dataset)
    <3> DEFINE label == [e \in Firings |-> Labelled(Store, e)]
    <3>1. IsFiniteSet(Firings)
      BY <1>1, FS_Subset DEF Firings, TapesAreTyped
    <3>2. label \in Surjection(Firings, Dataset)
      BY DEF Surjection, Dataset
    <3> QED
      BY <3>1, <3>2, FS_Surjection
  <2>4. \A l \in Dataset : /\ Fires(l.of) /\ To(l) \in Nat /\ From(l) < To(l) /\ To(l) <= From(l) + Hold
                           /\ l = Labelled(Store, l.of)
    <3> TAKE l \in Dataset
    <3>1. PICK e \in evaluations : l = Labelled(Store, e)
      BY DEF Dataset, Firings
    <3>2. Fires(e) /\ StoreIsTyped(Store)
      BY <1>1, StoreTyped DEF TapesAreTyped
    <3> QED
      BY <3>1, <3>2, LabelEndsInTime
  <2>5. RunIsSound(run) /\ StoreHasGrown(run)
    <3>1. StoreIsTyped(Store) /\ Store.index = walked /\ Store.option = printed
      BY <1>1, StoreTyped DEF Store
    <3> QED
      BY <1>1, <1>2, <2>2, <2>3, <2>4, <3>1 DEF RunIsSound, StoreHasGrown
  <2>6. \A r \in given' : RunIsSound(r)' /\ StoreHasGrown(r)'
    BY <2>1, <2>5 DEF LabelInv, RunIsSound, StoreHasGrown
  <2>7. TapesAreTyped'
    BY <1>1, <2>1 DEF TapesAreTyped
  <2> QED
    BY <2>6, <2>7 DEF LabelInv
<1>7. CASE UNCHANGED labelVars
  <2>1. TapesAreTyped' /\ UNCHANGED <<now, walked, printed, given>>
    BY <1>1, <1>7 DEF labelVars, TapesAreTyped
  <2> QED
    BY <1>1, <1>2, <2>1, RunsStaySound
<1> QED
  BY <1>3, <1>4, <1>5, <1>6, <1>7 DEF LabelNext

(* The tape upside down.                                                    *)
LEMMA TwiceIsOnce ==
  ASSUME NEW b \in IndexBars
  PROVE  /\ UpsideDown(b) \in IndexBars /\ UpsideDown(b).at = b.at /\ UpsideDown(b).known = b.known
         /\ UpsideDown(b).l = 0 - b.h /\ UpsideDown(b).h = 0 - b.l
         /\ UpsideDown(UpsideDown(b)) = b
<1>1. \A x : UpsideDown(x) = [at |-> x.at, known |-> x.known, h |-> 0 - x.l, l |-> 0 - x.h]
  BY DEF UpsideDown
<1>2. b.at \in 0 .. (Closing - 1) /\ b.known \in Nat /\ b.h \in Int /\ b.l \in Int
      /\ b = [at |-> b.at, known |-> b.known, h |-> b.h, l |-> b.l]
  BY DEF IndexBars
<1>3. PICK c : c = [at |-> b.at, known |-> b.known, h |-> 0 - b.l, l |-> 0 - b.h]
  OBVIOUS
<1>4. c = UpsideDown(b) /\ c.at = b.at /\ c.known = b.known /\ c.h = 0 - b.l /\ c.l = 0 - b.h
  BY <1>1, <1>3
<1>5. c \in IndexBars
  BY <1>2, <1>3 DEF IndexBars
<1>6. UpsideDown(c) = [at |-> b.at, known |-> b.known, h |-> 0 - (0 - b.h), l |-> 0 - (0 - b.l)]
  BY <1>1, <1>4, <1>5
<1>7. 0 - (0 - b.h) = b.h /\ 0 - (0 - b.l) = b.l
  BY <1>2
<1>8. UpsideDown(c) = b
  BY <1>2, <1>6, <1>7
<1> QED
  BY <1>4, <1>5, <1>8

LEMMA PathUpsideDown ==
  ASSUME NEW bars \in SUBSET IndexBars, NEW since
  PROVE  /\ PathOf(Mirror(bars), since) = Reversed(PathOf(bars, since))
         /\ Reversed(Reversed(PathOf(bars, since))) = PathOf(bars, since)
<1>1. Mirror(bars) = Reversed(bars)
  BY DEF Mirror, Reversed, UpsideDown
<1>2. \A b \in bars : b \in PathOf(bars, since) <=> UpsideDown(b) \in PathOf(Mirror(bars), since)
  <2> TAKE b \in bars
  <2>1. UpsideDown(b) \in Mirror(bars) /\ UpsideDown(b).at = b.at /\ UpsideDown(b).known = b.known
    BY <1>1, TwiceIsOnce DEF Reversed
  <2> QED
    BY <2>1 DEF PathOf, KnownBy
<1>3. PathOf(bars, since) \subseteq bars /\ PathOf(Mirror(bars), since) \subseteq Mirror(bars)
  BY DEF PathOf, KnownBy
<1>4. PathOf(Mirror(bars), since) = Reversed(PathOf(bars, since))
  <2>1. ASSUME NEW c \in PathOf(Mirror(bars), since) PROVE c \in Reversed(PathOf(bars, since))
    <3>1. PICK b \in bars : c = UpsideDown(b)
      BY <1>1, <1>3 DEF Reversed
    <3> QED
      BY <1>2, <3>1 DEF Reversed
  <2>2. ASSUME NEW c \in Reversed(PathOf(bars, since)) PROVE c \in PathOf(Mirror(bars), since)
    <3>1. PICK b \in PathOf(bars, since) : c = UpsideDown(b)
      BY DEF Reversed
    <3> QED
      BY <1>2, <1>3, <3>1
  <2> QED
    BY <2>1, <2>2
<1>5. ASSUME NEW trail \in SUBSET IndexBars
      PROVE  Reversed(Reversed(trail)) = trail
  <2>1. \A b \in trail : UpsideDown(UpsideDown(b)) = b
    BY TwiceIsOnce
  <2>2. Reversed(Reversed(trail)) = {UpsideDown(UpsideDown(b)) : b \in trail}
    BY DEF Reversed
  <2> QED
    BY <2>1, <2>2
<1> QED
  BY <1>3, <1>4, <1>5

LEMMA LevelsAreNumbers ==
  /\ Snapshot.stop \in Nat /\ Snapshot.target \in Nat /\ Snapshot.delta \in 1 .. 100 /\ EraCost[1] \in Nat
  /\ IndexPoints(Snapshot.stop) \in Int /\ IndexPoints(Snapshot.target) \in Int /\ IndexCost \in Int
<1>1. Snapshot.stop \in Nat /\ Snapshot.target \in Nat /\ Snapshot.delta \in 1 .. 100 /\ EraCost[1] \in Nat
  BY LabelAssumption DEF AtmSnapshot, RealPremiumConfig
<1>2. \A n \in Nat : IndexPoints(n) \in Int
  BY <1>1 DEF IndexPoints, Rounded
<1> QED
  BY <1>1, <1>2 DEF IndexCost

LEMMA SidesAreAlike == LabelInv => DirectionsMirror
<1> SUFFICES ASSUME LabelInv, NEW e \in Firings
             PROVE  OnIndex(walked, e.at, e.close, DirectionOf(e)) = OnIndex(Mirror(walked), e.at, 0 - e.close, Other(DirectionOf(e)))
  BY DEF DirectionsMirror
<1>1. walked \in SUBSET IndexBars /\ e.close \in Int
  BY DEF LabelInv, TapesAreTyped, Firings, Fires
<1> DEFINE stop == IndexPoints(Snapshot.stop)
           target == IndexPoints(Snapshot.target) + IndexCost
           trail == PathOf(walked, e.at)
<1>2. stop \in Int /\ target \in Int
  BY LevelsAreNumbers
<1>3. PathOf(Mirror(walked), e.at) = Reversed(trail) /\ Reversed(Reversed(trail)) = trail
  BY <1>1, PathUpsideDown
<1>4. DirectionOf(e) \in {"long_call", "long_put"}
  BY DEF Firings, IsFiring, DirectionOf
<1>5. \A bars, level : /\ OnIndex(bars, e.at, level, "long_call") = FirstTouch(PathOf(bars, e.at), e.at + Hold, level - stop, level + target)
                       /\ OnIndex(bars, e.at, level, "long_put") = FirstTouch(Reversed(PathOf(bars, e.at)), e.at + Hold, 0 - (level + stop), target - level)
  BY DEF OnIndex, Reversed
<1> HIDE DEF stop, target, trail
<1>6. e.close - stop = 0 - (0 - e.close + stop) /\ e.close + target = target - (0 - e.close)
      /\ 0 - (e.close + stop) = 0 - e.close - stop /\ target - e.close = 0 - e.close + target
  BY <1>1, <1>2
<1>7. CASE DirectionOf(e) = "long_call"
  <2>1. Other(DirectionOf(e)) = "long_put"
    BY <1>7 DEF Other
  <2>2. OnIndex(walked, e.at, e.close, "long_call") = FirstTouch(trail, e.at + Hold, e.close - stop, e.close + target)
    BY <1>5 DEF trail
  <2>3. OnIndex(Mirror(walked), e.at, 0 - e.close, "long_put")
          = FirstTouch(trail, e.at + Hold, 0 - (0 - e.close + stop), target - (0 - e.close))
    BY <1>3, <1>5
  <2> QED
    BY <1>6, <1>7, <2>1, <2>2, <2>3
<1>8. CASE DirectionOf(e) = "long_put"
  <2>1. Other(DirectionOf(e)) = "long_call"
    BY <1>8 DEF Other
  <2>2. OnIndex(walked, e.at, e.close, "long_put") = FirstTouch(Reversed(trail), e.at + Hold, 0 - (e.close + stop), target - e.close)
    BY <1>5 DEF trail
  <2>3. OnIndex(Mirror(walked), e.at, 0 - e.close, "long_call")
          = FirstTouch(Reversed(trail), e.at + Hold, 0 - e.close - stop, 0 - e.close + target)
    BY <1>3, <1>5
  <2> QED
    BY <1>6, <1>8, <2>1, <2>2, <2>3
<1> QED
  BY <1>4, <1>7, <1>8

(* Distances are rounded to the nearest.                                    *)
LEMMA RoundingIsSmall ==
  ASSUME NEW n \in Nat, NEW d \in Nat \ {0}, NEW x \in Int, x < Rounded(n, d)
  PROVE  d * x < n
<1> DEFINE q == Rounded(n, d)
<1>1. 2 * d \in Nat \ {0} /\ 2 * n + d \in Nat /\ d * x \in Int
  OBVIOUS
<1>2. q \in Int /\ (2 * d) * q <= 2 * n + d
  BY <1>1 DEF Rounded
<1>3. (2 * d) * q = 2 * (d * q) /\ d * q \in Int
  BY <1>2
<1> HIDE DEF q
<1>4. x + 1 <= q
  BY <1>2 DEF q
<1>5. d * (x + 1) <= d * q /\ d * (x + 1) = d * x + d
  BY <1>2, <1>4
<1> QED
  BY <1>1, <1>2, <1>3, <1>5

(* Up to a win no bar of the path is at the stop.                           *)
LEMMA WinIsAboveTheStop ==
  ASSUME NEW trail, \A b \in trail : b.at \in Nat, OneOfAMinute(trail), NEW horizon, NEW stop, NEW target,
         NEW touch, touch = FirstTouch(trail, horizon, stop, target), touch.label = 1,
         NEW b \in trail, b.at <= touch.ends
  PROVE  ~ (b.l <= stop)
<1>1. PICK first \in trail : /\ touch.ends = first.at /\ ~ (first.l <= stop)
                            /\ \A c \in trail : c.l <= stop => first.at <= c.at
  BY TouchIsOfThePath
<1> SUFFICES ASSUME b.l <= stop PROVE FALSE
  OBVIOUS
<1>2. first.at = b.at
  BY <1>1
<1> QED
  BY <1>1, <1>2 DEF OneOfAMinute

LEMMA EntryPrintIsPrinted ==
  ASSUME NEW bars, \A b \in bars : TapeBar(b) /\ b.c \in Int, NEW since \in Nat, EntryPrint(bars, since) # NoPrint
  PROVE  EntryPrint(bars, since).price \in Nat
<1> DEFINE seen == KnownBy(bars, since, Staleness + 1)
<1>1. seen # {} /\ ~ (NewestBar(seen).c <= 0) /\ EntryPrint(bars, since) = [kind |-> "quoted", price |-> NewestBar(seen).c]
  BY DEF EntryPrint
<1>2. \A b \in seen : b \in bars /\ b.at \in 0 .. (Closing - 1) /\ b.c \in Int
  BY DEF KnownBy, TapeBar
<1> HIDE DEF seen
<1> DEFINE left == {Closing - b.at : b \in seen}
<1>3. left \in SUBSET Nat /\ left # {} /\ Closing \in Nat
  BY <1>1, <1>2, LabelAssumption
<1> HIDE DEF left
<1>4. PICK least \in left : \A y \in left : least <= y
  BY <1>3, LeastElement
<1> USE DEF left
<1>5. PICK b \in seen : least = Closing - b.at
  OBVIOUS
<1>6. \A c \in seen : c.at <= b.at
  <2> TAKE c \in seen
  <2>1. Closing - b.at <= Closing - c.at
    BY <1>4, <1>5
  <2> QED
    BY <1>2, <1>3, <2>1
<1>7. NewestBar(seen) \in seen
  BY <1>6 DEF NewestBar
<1> QED
  BY <1>1, <1>2, <1>7

LEMMA WinsAreWins == LabelInv => WinsSurvive
<1> SUFFICES ASSUME LabelInv, NEW r \in given, NEW l \in r.labels, l.touch.label = 1,
                    NEW b \in (IF l.source = "real_option" THEN r.read.option ELSE r.read.index),
                    l.of.at < b.at, b.at <= l.touch.ends, b.known <= l.of.at + Hold
             PROVE  StillIn(l, b)
  BY DEF WinsSurvive
<1>1. PICK e : e = l.of
  OBVIOUS
<1> DEFINE walkedThen == r.read.index
           printedThen == r.read.option
<1>2. l = Labelled(r.read, e) /\ Fires(e) /\ StoreIsTyped(r.read) /\ To(l) <= From(l) + Hold /\ To(l) \in Nat
  BY <1>1 DEF LabelInv, RunIsSound
<1>3. e.at \in Nat /\ Hold \in Nat /\ e.close \in Int
  BY <1>2, LabelAssumption DEF Fires
<1>4. \A x \in walkedThen \cup printedThen : x.at \in Nat /\ x.known \in Nat /\ x.l \in Int /\ x.h \in Int
  BY <1>2 DEF StoreIsTyped, IndexBars, TapeBar
<1>5. \A p \in {walkedThen, printedThen} : /\ \A x \in PathOf(p, e.at) : x \in p
                                   /\ \A x \in p : e.at < x.at /\ x.at < e.at + Hold /\ x.known <= e.at + Hold => x \in PathOf(p, e.at)
  BY <1>3, <1>4, PathIsAhead
<1>6. l.touch.ends <= e.at + Hold /\ l.touch.ends \in Nat
  BY <1>1, <1>2 DEF To, From
<1>7. CASE l.source = "real_option"
  <2>1. l.touch = OnPremium(printedThen, e.at, l.price) /\ l.price = EntryPrint(printedThen, e.at).price /\ EntryPrint(printedThen, e.at) # NoPrint
    BY <1>2, <1>7, LabelIsOneOfTwo
  <2>2. l.price \in Nat
    <3>1. \A x \in printedThen : TapeBar(x) /\ x.c \in Int
      BY <1>2 DEF StoreIsTyped
    <3>2. EntryPrint(printedThen, e.at).price \in Nat
      BY <1>3, <2>1, <3>1, EntryPrintIsPrinted
    <3> QED
      BY <2>1, <3>2
  <2> DEFINE stop == l.price - Rounded(l.price * PathStopPct, 100)
             target == l.price + Rounded(l.price * PathTargetPct, 100) + EraCost[Era]
             trail == PathOf(printedThen, e.at)
  <2>3. l.touch = FirstTouch(trail, e.at + Hold, stop, target)
    BY <2>1 DEF OnPremium
  <2>4. b \in printedThen /\ b.at \in Nat /\ b.l \in Int
    BY <1>4, <1>7
  <2> HIDE DEF target
  <2>5. l.touch.ends # e.at + Hold
    <3>1. \E first \in trail : l.touch.ends = first.at
      BY <1>4, <1>5, <2>3, TouchIsOfThePath
    <3> QED
      BY <1>3, <1>4, <3>1, PathIsAhead
  <2>6. b \in trail
    BY <1>1, <1>3, <1>5, <1>6, <2>4, <2>5
  <2>7. OneOfAMinute(trail) /\ \A x \in trail : x.at \in Nat
    BY <1>2, <1>4, <1>5 DEF OneOfAMinute, StoreIsTyped
  <2>8. ~ (b.l <= stop)
    BY <2>3, <2>6, <2>7, WinIsAboveTheStop
  <2>9. l.price * PathStopPct \in Nat
    BY <2>2, LabelAssumption DEF RealPremiumConfig
  <2>10. Rounded(l.price * PathStopPct, 100) \in Int
    BY <2>9 DEF Rounded
  <2>11. l.price - b.l < Rounded(l.price * PathStopPct, 100) /\ l.price - b.l \in Int
    BY <2>2, <2>4, <2>8, <2>10
  <2>12. 100 * (l.price - b.l) < l.price * PathStopPct
    BY <2>9, <2>11, RoundingIsSmall
  <2> HIDE DEF stop, trail
  <2> QED
    BY <1>7, <2>12 DEF StillIn
<1>8. CASE l.source # "real_option"
  <2>1. l.price = e.close /\ l.touch = OnIndex(walkedThen, e.at, e.close, DirectionOf(e))
    BY <1>2, <1>8, LabelIsOneOfTwo
  <2> DEFINE stop == IndexPoints(Snapshot.stop)
             target == IndexPoints(Snapshot.target) + IndexCost
             trail == PathOf(walkedThen, e.at)
  <2>2. stop \in Int /\ target \in Int /\ 100 * Snapshot.stop \in Nat /\ Snapshot.delta \in Nat \ {0}
    BY LevelsAreNumbers
  <2>3. stop = Rounded(100 * Snapshot.stop, Snapshot.delta)
    BY DEF IndexPoints
  <2>4. b \in walkedThen /\ b.at \in Nat /\ b.l \in Int /\ b.h \in Int
    BY <1>4, <1>8
  <2>5. l.touch = IF DirectionOf(e) = "long_call"
                  THEN FirstTouch(trail, e.at + Hold, e.close - stop, e.close + target)
                  ELSE FirstTouch(Reversed(trail), e.at + Hold, 0 - (e.close + stop), target - e.close)
    BY <2>1 DEF OnIndex, Reversed
  <2> HIDE DEF stop, target
  <2>6. OneOfAMinute(trail) /\ \A x \in trail : x \in IndexBars /\ x.at \in Nat /\ x.at < e.at + Hold
    BY <1>2, <1>3, <1>4, <1>5, PathIsAhead DEF OneOfAMinute, StoreIsTyped
  <2>7. \A x \in trail : UpsideDown(x).at = x.at /\ UpsideDown(x).l = 0 - x.h
    BY <2>6, TwiceIsOnce
  <2>8. OneOfAMinute(Reversed(trail)) /\ \A x \in Reversed(trail) : x.at \in Nat /\ x.at < e.at + Hold
    <3>1. \A y \in Reversed(trail) : \E x \in trail : y = UpsideDown(x) /\ y.at = x.at
      BY <2>7 DEF Reversed
    <3>2. OneOfAMinute(Reversed(trail))
      BY <2>6, <3>1 DEF OneOfAMinute
    <3> QED
      BY <2>6, <3>1, <3>2
  <2>9. b \in trail
    <3>1. (\E x \in trail : l.touch.ends = x.at) \/ (\E x \in Reversed(trail) : l.touch.ends = x.at)
      BY <2>5, <2>6, <2>8, TouchIsOfThePath
    <3>2. l.touch.ends < e.at + Hold
      BY <2>6, <2>8, <3>1
    <3> QED
      BY <1>1, <1>3, <1>5, <1>6, <2>4, <3>2
  <2>10. CASE DirectionOf(e) = "long_call"
    <3>1. ~ (b.l <= e.close - stop)
      BY <2>5, <2>6, <2>9, <2>10, WinIsAboveTheStop
    <3>2. l.price - b.l < stop /\ l.price - b.l \in Int
      BY <1>3, <2>1, <2>2, <2>4, <3>1
    <3>3. Snapshot.delta * (l.price - b.l) < 100 * Snapshot.stop
      BY <2>2, <2>3, <3>2, RoundingIsSmall
    <3> QED
      BY <1>1, <1>8, <2>10, <3>3 DEF StillIn
  <2>11. CASE DirectionOf(e) # "long_call"
    <3>1. UpsideDown(b) \in Reversed(trail) /\ UpsideDown(b).at = b.at /\ UpsideDown(b).l = 0 - b.h
      BY <2>7, <2>9 DEF Reversed
    <3>2. ~ (0 - b.h <= 0 - (e.close + stop))
      BY <2>5, <2>8, <2>11, <3>1, WinIsAboveTheStop
    <3>3. b.h - l.price < stop /\ b.h - l.price \in Int
      BY <1>3, <2>1, <2>2, <2>4, <3>2
    <3>4. Snapshot.delta * (b.h - l.price) < 100 * Snapshot.stop
      BY <2>2, <2>3, <3>3, RoundingIsSmall
    <3> QED
      BY <1>1, <1>8, <2>11, <3>4 DEF StillIn
  <2> QED
    BY <2>10, <2>11
<1> QED
  BY <1>7, <1>8

Running(acc, v, k) == acc = [n \in 0 .. k |-> IF n = 0 THEN 0 ELSE acc[n - 1] + v[n]]

LEMMA RunningThere ==
  ASSUME NEW v, NEW k \in Nat, \A n \in 1 .. k : v[n] \in Int
  PROVE  \E acc \in [0 .. k -> Int] : Running(acc, v, k)
<1> DEFINE bad == {j \in 0 .. k : ~ \E acc \in [0 .. j -> Int] : Running(acc, v, j)}
<1> SUFFICES ASSUME bad # {} PROVE FALSE
  OBVIOUS
<1>1. bad \in SUBSET Nat
  OBVIOUS
<1> HIDE DEF bad
<1>2. PICK j \in bad : \A i \in bad : j <= i
  BY <1>1, LeastElement
<1>3. j \in 0 .. k /\ ~ \E acc \in [0 .. j -> Int] : Running(acc, v, j)
  BY DEF bad
<1>4. CASE j = 0
  <2>1. [n \in 0 .. 0 |-> 0] \in [0 .. 0 -> Int] /\ Running([n \in 0 .. 0 |-> 0], v, 0)
    BY DEF Running
  <2> QED
    BY <1>3, <1>4, <2>1
<1>5. CASE j # 0
  <2>1. j - 1 \in 0 .. k /\ j - 1 \notin bad
    BY <1>2, <1>3, <1>5
  <2>2. PICK acc \in [0 .. j - 1 -> Int] : Running(acc, v, j - 1)
    BY <2>1 DEF bad
  <2> DEFINE next == [n \in 0 .. j |-> IF n = j THEN acc[j - 1] + v[j] ELSE acc[n]]
  <2>3. next \in [0 .. j -> Int]
    BY <1>3, <1>5, <2>1
  <2>4. \A n \in 0 .. j : next[n] = IF n = 0 THEN 0 ELSE next[n - 1] + v[n]
    BY <1>3, <1>5, <2>2 DEF Running
  <2>5. Running(next, v, j)
    BY <2>3, <2>4 DEF Running
  <2> QED
    BY <1>3, <2>3, <2>5
<1> QED
  BY <1>4, <1>5

(* The running sum of the first k of some numbers.                          *)
LEMMA SumToIs ==
  ASSUME NEW v, NEW k \in Nat, \A n \in 1 .. k : v[n] \in Int
  PROVE  \E acc \in [0 .. k -> Int] : acc[0] = 0 /\ (\A n \in 1 .. k : acc[n] = acc[n - 1] + v[n]) /\ SumTo(v, k) = acc[k]
<1> DEFINE sum == CHOOSE f : Running(f, v, k)
<1>1. PICK acc \in [0 .. k -> Int] : Running(acc, v, k)
  BY RunningThere
<1>2. Running(sum, v, k)
  BY <1>1
<1>3. SumTo(v, k) = sum[k]
  BY DEF SumTo, Running
<1> HIDE DEF sum
<1>4. \A n \in 0 .. k : sum[n] = acc[n]
  <2> DEFINE bad == {n \in 0 .. k : sum[n] # acc[n]}
  <2> SUFFICES ASSUME bad # {} PROVE FALSE
    OBVIOUS
  <2>1. bad \in SUBSET Nat
    OBVIOUS
  <2> HIDE DEF bad
  <2>2. PICK n \in bad : \A i \in bad : n <= i
    BY <2>1, LeastElement
  <2>3. n \in 0 .. k /\ sum[n] # acc[n]
    BY DEF bad
  <2>4. n # 0
    BY <1>1, <1>2, <2>3 DEF Running
  <2>5. n - 1 \in 0 .. k /\ n - 1 \notin bad
    BY <2>1, <2>2, <2>3, <2>4
  <2>6. sum[n - 1] = acc[n - 1]
    BY <2>5 DEF bad
  <2> QED
    BY <1>1, <1>2, <2>3, <2>4, <2>6 DEF Running
<1>5. acc[0] = 0 /\ \A n \in 1 .. k : acc[n] = acc[n - 1] + v[n]
  BY <1>1 DEF Running
<1> QED
  BY <1>3, <1>4, <1>5

(* The weights: between two bounds the number of labels alive is constant.  *)
Timed(labels) ==
  /\ IsFiniteSet(labels)
  /\ \A o \in labels : From(o) \in 1 .. LastHorizon /\ To(o) \in 1 .. LastHorizon /\ From(o) < To(o)
Bounds0(labels) == Bounds(labels) \cup {0}
Neighbours(labels, a, b) ==
  a \in Bounds0(labels) /\ b \in Bounds(labels) /\ a < b /\ \A t \in Bounds(labels) : ~ (a < t /\ t < b)
Throughout(labels, a, b) == {o \in labels : From(o) <= a /\ b <= To(o)}
Height(labels, l, a, b) == IF From(l) <= a /\ b <= To(l) THEN Cardinality(Throughout(labels, a, b)) ELSE 0
CoverAt(labels, l, m) == IF Covers(l, m) THEN Cardinality({o \in labels : Covers(o, m)}) ELSE 0

LEMMA BoundsAreMinutes ==
  ASSUME NEW labels, Timed(labels)
  PROVE  /\ LastHorizon \in Nat /\ Bounds(labels) \subseteq 1 .. LastHorizon /\ Bounds0(labels) \subseteq 0 .. LastHorizon
         /\ \A o \in labels : From(o) \in Bounds(labels) /\ To(o) \in Bounds(labels)
<1>1. LastHorizon \in Nat
  BY LabelAssumption DEF LastHorizon
<1> QED
  BY <1>1 DEF Timed, Bounds, Bounds0

LEMMA CoverIsConstant ==
  ASSUME NEW labels, Timed(labels), NEW l \in labels, NEW a, NEW b, Neighbours(labels, a, b)
  PROVE  /\ Height(labels, l, a, b) \in Nat
         /\ \A m \in (a + 1) .. b : CoverAt(labels, l, m) = Height(labels, l, a, b)
         /\ Segment(labels, l, b) = (b - a) * Height(labels, l, a, b)
<1>1. /\ a \in 0 .. LastHorizon /\ b \in 1 .. LastHorizon /\ LastHorizon \in Nat /\ a < b
      /\ \A o \in labels : From(o) \in Nat /\ To(o) \in Nat /\ From(o) >= 1
      /\ \A o \in labels : ~ (a < From(o) /\ From(o) < b) /\ ~ (a < To(o) /\ To(o) < b)
  BY BoundsAreMinutes DEF Neighbours, Timed
<1>2. Cardinality(Throughout(labels, a, b)) \in Nat
  BY FS_Subset, FS_CardinalityType DEF Timed, Throughout
<1>3. \A m \in (a + 1) .. b, o \in labels : Covers(o, m) <=> From(o) <= a /\ b <= To(o)
  BY <1>1 DEF Covers
<1>4. \A m \in (a + 1) .. b : CoverAt(labels, l, m) = Height(labels, l, a, b)
  <2> TAKE m \in (a + 1) .. b
  <2>1. {o \in labels : Covers(o, m)} = Throughout(labels, a, b)
    BY <1>3 DEF Throughout
  <2> QED
    BY <1>3, <2>1 DEF CoverAt, Height
<1> DEFINE before == {t \in Bounds(labels) : t < b}
<1>5. CASE a = 0
  <2>1. before = {}
    BY <1>1, <1>5, BoundsAreMinutes DEF Neighbours
  <2>2. Segment(labels, l, b) = 0
    BY <2>1 DEF Segment
  <2>3. Height(labels, l, a, b) = 0
    BY <1>1, <1>5 DEF Height
  <2>4. (b - a) * 0 = 0
    BY <1>1
  <2> QED
    BY <1>2, <1>4, <2>2, <2>3, <2>4
<1>6. CASE a # 0
  <2>1. a \in before /\ \A t \in before : t <= a
    BY <1>1, <1>6, BoundsAreMinutes DEF Neighbours, Bounds0
  <2>2. (CHOOSE t \in before : \A x \in before : x <= t) = a
    <3>1. \A t \in before : t \in Int
      BY BoundsAreMinutes
    <3> QED
      BY <2>1, <3>1
  <2>3. Segment(labels, l, b) = Overlap(a, b, l) * AliveIn(labels, a, b)
    BY <2>1, <2>2 DEF Segment, Neighbours
  <2>4. \A o \in labels : (2 * From(o) <= a + b /\ a + b <= 2 * To(o)) <=> (From(o) <= a /\ b <= To(o))
    BY <1>1
  <2>5. AliveIn(labels, a, b) = Cardinality(Throughout(labels, a, b))
    BY <2>4 DEF AliveIn, Throughout
  <2>6. CASE From(l) <= a /\ b <= To(l)
    <3>1. Overlap(a, b, l) = b - a
      BY <1>1, <2>6 DEF Overlap
    <3> QED
      BY <1>2, <1>4, <2>3, <2>5, <2>6, <3>1 DEF Height
  <2>7. CASE ~ (From(l) <= a /\ b <= To(l))
    <3>1. Overlap(a, b, l) = 0
      BY <1>1, <2>7 DEF Overlap
    <3>2. Height(labels, l, a, b) = 0
      BY <2>7 DEF Height
    <3>3. 0 * Cardinality(Throughout(labels, a, b)) = 0 /\ (b - a) * 0 = 0
      BY <1>1, <1>2
    <3> QED
      BY <1>4, <2>3, <2>5, <3>1, <3>2, <3>3
  <2> QED
    BY <2>6, <2>7
<1> QED
  BY <1>5, <1>6

LEMMA CoverIsCounted ==
  ASSUME NEW labels, Timed(labels), NEW l \in labels, NEW m \in 1 .. LastHorizon
  PROVE  CoverAt(labels, l, m) \in Nat
<1>1. Cardinality({o \in labels : Covers(o, m)}) \in Nat
  BY FS_Subset, FS_CardinalityType DEF Timed
<1> QED
  BY <1>1 DEF CoverAt

LEMMA PriorBound ==
  ASSUME NEW labels, Timed(labels), NEW b \in Bounds(labels)
  PROVE  \E a \in Bounds0(labels) : Neighbours(labels, a, b)
<1> DEFINE before == {t \in Bounds0(labels) : t < b}
<1>1. b \in 1 .. LastHorizon /\ LastHorizon \in Nat /\ Bounds0(labels) \subseteq 0 .. LastHorizon
  BY BoundsAreMinutes
<1>2. before \in SUBSET (0 .. LastHorizon) /\ 0 \in before
  BY <1>1 DEF Bounds0
<1> HIDE DEF before
<1>3. PICK a \in before : \A t \in before : t <= a
  BY <1>1, <1>2, GreatestElement
<1>4. \A t \in Bounds(labels) : t < b => t \in before /\ t \in Int /\ t <= a
  BY <1>1, <1>3 DEF before, Bounds0
<1>5. a \in Int /\ a < b /\ a \in Bounds0(labels)
  BY <1>1, <1>3 DEF before
<1>6. \A t \in Bounds(labels) : t \in Int
  BY BoundsAreMinutes
<1> QED
  BY <1>4, <1>5, <1>6 DEF Neighbours

(* A sum of equal numbers rises evenly.                                     *)
LEMMA RisesEvenly ==
  ASSUME NEW k \in Nat, NEW ref \in [0 .. k -> Int], NEW a \in 0 .. k, NEW b \in a .. k, NEW h \in Int,
         \A m \in (a + 1) .. b : ref[m] = ref[m - 1] + h
  PROVE  \A x \in a .. b : ref[x] = ref[a] + (x - a) * h
<1> DEFINE bad == {x \in a .. b : ref[x] # ref[a] + (x - a) * h}
<1> SUFFICES ASSUME bad # {} PROVE FALSE
  OBVIOUS
<1>1. bad \in SUBSET Nat
  OBVIOUS
<1> HIDE DEF bad
<1>2. PICK x \in bad : \A y \in bad : x <= y
  BY <1>1, LeastElement
<1>3. x \in a .. b /\ ref[x] # ref[a] + (x - a) * h
  BY DEF bad
<1>4. ref[a] \in Int /\ ref[x] \in Int
  BY <1>3
<1>5. CASE x = a
  BY <1>3, <1>4, <1>5
<1>6. CASE x # a
  <2>1. x - 1 \in a .. b /\ x - 1 \notin bad /\ x \in (a + 1) .. b
    BY <1>2, <1>3, <1>6
  <2>2. ref[x - 1] = ref[a] + (x - 1 - a) * h
    BY <2>1 DEF bad
  <2>3. (x - a) * h = (x - 1 - a) * h + h /\ (x - 1 - a) * h \in Int
    BY <1>3
  <2>4. ref[x] = ref[x - 1] + h
    BY <2>1
  <2>5. ref[x - 1] \in Int
    BY <2>1
  <2> HIDE DEF bad
  <2> QED
    BY <1>3, <1>4, <2>2, <2>3, <2>4, <2>5
<1> QED
  BY <1>5, <1>6

(* Up to the last bound the segments add up to what the minutes do.         *)
BySegments(labels, l, acc) ==
  /\ acc \in [0 .. LastHorizon -> Int] /\ acc[0] = 0
  /\ \A n \in 1 .. LastHorizon : acc[n] = acc[n - 1] + Segment(labels, l, n)
ByMinutes(labels, l, ref) ==
  /\ ref \in [0 .. LastHorizon -> Int] /\ ref[0] = 0
  /\ \A n \in 1 .. LastHorizon : ref[n] = ref[n - 1] + CoverAt(labels, l, n)
IsLastBound(labels, t, n) == t <= n /\ \A x \in Bounds(labels) : ~ (t < x /\ x <= n)

LEMMA SegmentsAddUp ==
  ASSUME NEW labels, Timed(labels), NEW l \in labels,
         NEW acc, BySegments(labels, l, acc), NEW ref, ByMinutes(labels, l, ref)
  PROVE  \A n \in 0 .. LastHorizon, t \in Bounds0(labels) : IsLastBound(labels, t, n) => acc[n] = ref[t]
<1> USE DEF BySegments, ByMinutes, IsLastBound
<1> DEFINE Right(n) == \A t \in Bounds0(labels) : IsLastBound(labels, t, n) => acc[n] = ref[t]
           bad == {n \in 0 .. LastHorizon : ~ Right(n)}
<1> SUFFICES ASSUME bad # {} PROVE FALSE
  OBVIOUS
<1>1. bad \in SUBSET Nat
  OBVIOUS
<1> HIDE DEF bad
<1>2. PICK n \in bad : \A y \in bad : n <= y
  BY <1>1, LeastElement
<1>3. n \in 0 .. LastHorizon /\ ~ Right(n)
  BY DEF bad
<1>4. PICK t \in Bounds0(labels) : t <= n /\ (\A x \in Bounds(labels) : ~ (t < x /\ x <= n)) /\ acc[n] # ref[t]
  BY <1>3
<1>5. /\ LastHorizon \in Nat /\ Bounds(labels) \subseteq 1 .. LastHorizon /\ Bounds0(labels) \subseteq 0 .. LastHorizon
      /\ Bounds(labels) \subseteq Bounds0(labels)
  BY BoundsAreMinutes DEF Bounds0
<1>6. t \in 0 .. LastHorizon
  BY <1>5
<1>7. CASE n = 0
  BY <1>4, <1>6, <1>7
<1>8. CASE n # 0
  <2>1. n - 1 \in 0 .. LastHorizon /\ n \in 1 .. LastHorizon /\ n - 1 \notin bad
    BY <1>2, <1>3, <1>5, <1>8
  <2>2. Right(n - 1)
    BY <2>1 DEF bad
  <2>3. acc[n] = acc[n - 1] + Segment(labels, l, n) /\ acc[n - 1] \in Int
    BY <2>1
  <2>4. CASE n \notin Bounds(labels)
    <3>1. Segment(labels, l, n) = 0
      BY <2>4 DEF Segment
    <3>2. t # n
      BY <1>8, <2>4 DEF Bounds0
    <3>3. t <= n - 1 /\ \A x \in Bounds(labels) : ~ (t < x /\ x <= n - 1)
      BY <1>3, <1>4, <1>5, <1>6, <3>2
    <3>4. acc[n - 1] = ref[t]
      BY <2>2, <3>3
    <3> QED
      BY <1>4, <2>3, <3>1, <3>4
  <2>5. CASE n \in Bounds(labels)
    <3>1. t = n
      BY <1>4, <1>5, <1>6, <2>1, <2>5
    <3>2. PICK a \in Bounds0(labels) : Neighbours(labels, a, n)
      BY <2>5, PriorBound
    <3>3. a \in 0 .. LastHorizon /\ a < n /\ \A x \in Bounds(labels) : ~ (a < x /\ x < n)
      BY <1>5, <3>2 DEF Neighbours
    <3>4. a <= n - 1 /\ \A x \in Bounds(labels) : ~ (a < x /\ x <= n - 1)
      BY <1>5, <2>1, <3>3
    <3>5. acc[n - 1] = ref[a]
      BY <2>2, <3>4
    <3>6. PICK h \in Nat : h = Height(labels, l, a, n)
      BY <3>2, CoverIsConstant
    <3>7. Segment(labels, l, n) = (n - a) * h /\ \A m \in (a + 1) .. n : CoverAt(labels, l, m) = h
      BY <3>2, <3>6, CoverIsConstant
    <3>8. \A m \in (a + 1) .. n : ref[m] = ref[m - 1] + h
      <4> TAKE m \in (a + 1) .. n
      <4>1. m \in 1 .. LastHorizon
        BY <1>5, <2>1, <3>3
      <4> QED
        BY <3>7, <4>1
    <3>9. n \in a .. LastHorizon
      BY <1>5, <2>1, <3>3
    <3>10. \A x \in a .. n : ref[x] = ref[a] + (x - a) * h
      <4>1. LastHorizon \in Nat /\ a \in 0 .. LastHorizon /\ h \in Int
        BY <1>5, <3>3
      <4> HIDE DEF Right
      <4> QED
        BY <3>8, <3>9, <4>1, RisesEvenly
    <3>11. ref[n] = ref[a] + (n - a) * h
      BY <3>3, <3>9, <3>10
    <3> QED
      BY <1>4, <2>3, <3>1, <3>5, <3>7, <3>11
  <2> QED
    BY <2>4, <2>5
<1> QED
  BY <1>7, <1>8

(* labeling.py:429-458: the segments share out every minute.                *)
LEMMA ConcurrencyCountsMinutes ==
  ASSUME NEW labels, Timed(labels), NEW l \in labels
  PROVE  Concurrency(labels, l) = SumTo([m \in 1 .. LastHorizon |-> CoverAt(labels, l, m)], LastHorizon)
<1> DEFINE by == [b \in 1 .. LastHorizon |-> Segment(labels, l, b)]
           at == [m \in 1 .. LastHorizon |-> CoverAt(labels, l, m)]
<1>1. /\ LastHorizon \in Nat /\ Bounds(labels) \subseteq 1 .. LastHorizon /\ Bounds0(labels) \subseteq 0 .. LastHorizon
      /\ To(l) \in Bounds(labels)
  BY BoundsAreMinutes
<1>2. \A n \in 1 .. LastHorizon : by[n] = Segment(labels, l, n) /\ at[n] = CoverAt(labels, l, n)
  OBVIOUS
<1>3. \A n \in 1 .. LastHorizon : Segment(labels, l, n) \in Int /\ CoverAt(labels, l, n) \in Int
  <2> TAKE n \in 1 .. LastHorizon
  <2>1. CASE n \notin Bounds(labels)
    BY <2>1, CoverIsCounted DEF Segment
  <2>2. CASE n \in Bounds(labels)
    <3>1. PICK a \in Bounds0(labels) : Neighbours(labels, a, n)
      BY <2>2, PriorBound
    <3>2. PICK h \in Nat : h = Height(labels, l, a, n)
      BY <3>1, CoverIsConstant
    <3>3. Segment(labels, l, n) = (n - a) * h
      BY <3>1, <3>2, CoverIsConstant
    <3>4. a \in Int /\ n \in Int
      BY <1>1
    <3>5. (n - a) * h \in Int
      BY <3>4
    <3> QED
      BY <3>3, <3>5, CoverIsCounted
  <2> QED
    BY <2>1, <2>2
<1>4. Concurrency(labels, l) = SumTo(by, LastHorizon)
  BY DEF Concurrency
<1> HIDE DEF by, at
<1>5. PICK acc \in [0 .. LastHorizon -> Int] :
        acc[0] = 0 /\ (\A n \in 1 .. LastHorizon : acc[n] = acc[n - 1] + by[n]) /\ SumTo(by, LastHorizon) = acc[LastHorizon]
  BY <1>1, <1>2, <1>3, SumToIs
<1>6. PICK ref \in [0 .. LastHorizon -> Int] :
        ref[0] = 0 /\ (\A n \in 1 .. LastHorizon : ref[n] = ref[n - 1] + at[n]) /\ SumTo(at, LastHorizon) = ref[LastHorizon]
  BY <1>1, <1>2, <1>3, SumToIs
<1>7. PICK t \in Bounds0(labels) : \A x \in Bounds0(labels) : x <= t
  BY <1>1, GreatestElement DEF Bounds0
<1>8. t \in 0 .. LastHorizon /\ \A x \in Bounds(labels) : ~ (t < x)
  BY <1>1, <1>7 DEF Bounds0
<1>9. acc[LastHorizon] = ref[t]
  <2>1. BySegments(labels, l, acc) /\ ByMinutes(labels, l, ref)
    BY <1>2, <1>5, <1>6 DEF BySegments, ByMinutes
  <2>2. LastHorizon \in 0 .. LastHorizon /\ IsLastBound(labels, t, LastHorizon)
    BY <1>1, <1>8 DEF IsLastBound
  <2> QED
    BY <2>1, <2>2, SegmentsAddUp
<1>10. ref[LastHorizon] = ref[t]
  <2>1. \A m \in (t + 1) .. LastHorizon : ref[m] = ref[m - 1] + 0
    <3> TAKE m \in (t + 1) .. LastHorizon
    <3>1. m \in 1 .. LastHorizon /\ t < m /\ t \in Int /\ m \in Int
      BY <1>1, <1>8
    <3>2. To(l) \in Int /\ ~ (t < To(l))
      BY <1>1, <1>8
    <3>4. ~ Covers(l, m)
      BY <3>1, <3>2 DEF Covers
    <3>3. at[m] = 0
      BY <1>2, <3>1, <3>4 DEF CoverAt
    <3> QED
      BY <1>6, <3>1, <3>3
  <2>2. LastHorizon \in t .. LastHorizon /\ 0 \in Int
    BY <1>1, <1>8
  <2>3. \A x \in t .. LastHorizon : ref[x] = ref[t] + (x - t) * 0
    BY <1>1, <1>8, <2>1, <2>2, RisesEvenly
  <2>4. (LastHorizon - t) * 0 = 0 /\ ref[t] \in Int
    BY <1>1, <1>8
  <2> QED
    BY <2>2, <2>3, <2>4
<1> QED
  BY <1>4, <1>5, <1>6, <1>9, <1>10 DEF at

LEMMA TimeIsShared == LabelInv => WeightsShareTime
<1> SUFFICES ASSUME LabelInv, NEW r \in given, NEW l \in r.labels
             PROVE  r.weights[l].den = SumTo([m \in 1 .. LastHorizon |-> CoverAt(r.labels, l, m)], LastHorizon)
  BY DEF WeightsShareTime, CoverAt
<1>1. RunIsSound(r) /\ Closing \in Nat /\ Hold \in Nat /\ LastHorizon \in Nat
  BY LabelAssumption DEF LabelInv, LastHorizon
<1>2. \A o \in r.labels : From(o) \in 1 .. (Closing - 1) /\ To(o) \in Nat /\ From(o) < To(o) /\ To(o) <= From(o) + Hold
  BY <1>1 DEF RunIsSound, Fires, From
<1>3. Timed(r.labels)
  BY <1>1, <1>2 DEF Timed, RunIsSound, LastHorizon
<1>4. Weight(r.labels, l) = [num |-> To(l) - From(l), den |-> Concurrency(r.labels, l)]
  BY <1>2 DEF Weight
<1>5. r.weights[l] = Weight(r.labels, l)
  BY <1>1 DEF RunIsSound
<1> QED
  BY <1>3, <1>4, <1>5, ConcurrencyCountsMinutes

(* labeling.py, asof.py, nightly.py: a label given once its horizon is over *)
(* is the label every later run gives, but for a bar appended since with    *)
(* its own close for the time it was known, inside the label's life or      *)
(* among its entry's prints, or a nearer contract; a put is labelled as a   *)
(* call turned upside down; a win survives every bar it was read from up to *)
(* its own, the worst order inside a bar included; and the segments of the  *)
(* uniqueness weights share every minute out among the labels alive in it.  *)
THEOREM LabelsStayHonest == LabelSpec => []LabelsAreHonest
<1>1. LabelInit => LabelInv
  BY LabelInvInit
<1>2. LabelInv /\ [LabelNext]_labelVars => LabelInv'
  BY LabelInvNext
<1>3. LabelInv => LabelsAreHonest
  <2> SUFFICES ASSUME LabelInv PROVE LabelsAreHonest
    OBVIOUS
  <2>1. LabelTypeOK
    <3>1. \A b \in walked \cup overdue \cup printed \cup shelved : b.at \in 0 .. (Closing - 1)
      BY DEF LabelInv, TapesAreTyped, IndexBars, TapeBar
    <3> QED
      BY <3>1 DEF LabelInv, TapesAreTyped, LabelTypeOK, Fires
  <2> QED
    BY <2>1, LabelsSettle, SidesAreAlike, WinsAreWins, TimeIsShared DEF LabelsAreHonest
<1> QED
  BY <1>1, <1>2, <1>3, PTL DEF LabelSpec

-----------------------------------------------------------------------------
(* Signals.                                                                 *)

LEMMA SignalsAssumed ==
  /\ RangeMinutes \in Nat /\ MinBars \in Nat \ {0} /\ LastMinute \in Nat /\ Unit \in Nat \ {0}
  /\ \A shape \in Shapes : shape \in [o : Int, h : Int, l : Int, c : Int, v : Nat] /\ shape.l <= shape.c /\ shape.c <= shape.h
  /\ \A day \in Yesterdays : day = <<>> \/ (day \in [h : Int, l : Int, c : Int] /\ day.h \in Int /\ day.l \in Int /\ day.c \in Int)
BY SignalAssumption, ShapeAssumption DEF SignalAssumption, ShapeAssumption, OrbParams

LEMMA BarFields ==
  ASSUME NEW b \in Bars
  PROVE  b.at \in Nat /\ b.seen \in Nat /\ b.o \in Int /\ b.h \in Int /\ b.l \in Int /\ b.c \in Int /\ b.v \in Nat
BY SignalsAssumed DEF Bars

(* A frame without its last bar.                                            *)
LEMMA FrontIs ==
  ASSUME NEW S, NEW f \in Seq(S), f # <<>>
  PROVE  /\ Front(f) \in Seq(S) /\ Len(Front(f)) = Len(f) - 1 /\ Len(f) \in Nat \ {0} /\ Last(f) \in S /\ Last(f) = f[Len(f)]
         /\ \A i \in 1 .. Len(f) - 1 : Front(f)[i] = f[i]
         /\ f = Append(Front(f), Last(f))
<1>1. Len(f) \in Nat \ {0} /\ Last(f) = f[Len(f)] /\ Last(f) \in S
  BY DEF Last
<1>2. Front(f) \in Seq(S) /\ Len(Front(f)) = Len(f) - 1 /\ \A i \in 1 .. Len(f) - 1 : Front(f)[i] = f[i]
  <2>1. 1 \in Nat /\ Len(f) - 1 \in Nat /\ Len(f) - 1 <= Len(f)
    BY <1>1
  <2>2. SubSeq(f, 1, Len(f) - 1) \in Seq(S) /\ Len(SubSeq(f, 1, Len(f) - 1)) = Len(f) - 1
    BY <2>1, <1>1
  <2>3. \A i \in 1 .. Len(f) - 1 : SubSeq(f, 1, Len(f) - 1)[i] = f[i]
    BY <2>1, <1>1
  <2> QED
    BY <2>2, <2>3 DEF Front
<1>3. Append(Front(f), Last(f)) \in Seq(S) /\ Len(Append(Front(f), Last(f))) = Len(f)
  BY <1>1, <1>2
<1>4. \A i \in 1 .. Len(f) : Append(Front(f), Last(f))[i] = f[i]
  BY <1>1, <1>2
<1>5. f = Append(Front(f), Last(f))
  BY <1>1, <1>3, <1>4
<1> QED
  BY <1>1, <1>2, <1>5

(* The bars of a set, taken from the first k of a frame: there is one such  *)
(* way and no other, and a frame that goes on takes the same of its start.  *)
TakeOne(taken, bar, some) == IF bar \in some THEN Append(taken, bar) ELSE taken
TakenUpTo(taken, f, some, k) ==
  taken = [n \in 0 .. k |-> IF n = 0 THEN <<>> ELSE TakeOne(taken[n - 1], f[n], some)]

LEMMA TakenIsThere ==
  ASSUME NEW f, NEW some, NEW k \in Nat
  PROVE  \E taken : TakenUpTo(taken, f, some, k)
<1> DEFINE bad == {j \in 0 .. k : ~ \E taken : TakenUpTo(taken, f, some, j)}
<1> SUFFICES ASSUME bad # {} PROVE FALSE
  OBVIOUS
<1>1. bad \in SUBSET Nat
  OBVIOUS
<1> HIDE DEF bad
<1>2. PICK j \in bad : \A i \in bad : j <= i
  BY <1>1, LeastElement
<1>3. j \in 0 .. k /\ ~ \E taken : TakenUpTo(taken, f, some, j)
  BY DEF bad
<1>4. CASE j = 0
  <2>1. TakenUpTo([n \in 0 .. 0 |-> <<>>], f, some, 0)
    BY DEF TakenUpTo
  <2> QED
    BY <1>3, <1>4, <2>1
<1>5. CASE j # 0
  <2>1. j - 1 \in 0 .. k /\ j - 1 \notin bad
    BY <1>2, <1>3, <1>5
  <2>2. PICK taken : TakenUpTo(taken, f, some, j - 1)
    BY <2>1 DEF bad
  <2> DEFINE next == [n \in 0 .. j |-> IF n = j THEN TakeOne(taken[j - 1], f[j], some) ELSE taken[n]]
  <2>3. \A n \in 0 .. j : next[n] = IF n = 0 THEN <<>> ELSE TakeOne(next[n - 1], f[n], some)
    <3> TAKE n \in 0 .. j
    <3>1. CASE n = j
      BY <1>3, <1>5, <3>1
    <3>2. CASE n # j
      <4>1. n \in 0 .. j - 1 /\ next[n] = taken[n] /\ (n # 0 => n - 1 \in 0 .. j /\ n - 1 # j /\ next[n - 1] = taken[n - 1])
        BY <1>3, <3>2
      <4>2. taken[n] = IF n = 0 THEN <<>> ELSE TakeOne(taken[n - 1], f[n], some)
        BY <2>2, <4>1 DEF TakenUpTo
      <4> QED
        BY <4>1, <4>2
    <3> QED
      BY <3>1, <3>2
  <2>4. TakenUpTo(next, f, some, j)
    BY <2>3 DEF TakenUpTo
  <2> QED
    BY <1>3, <2>4
<1> QED
  BY <1>4, <1>5

LEMMA TakenIsOne ==
  ASSUME NEW f, NEW g, NEW some, NEW k \in Nat, NEW m \in 0 .. k, \A i \in 1 .. m : f[i] = g[i],
         NEW t, NEW u, TakenUpTo(t, f, some, k), TakenUpTo(u, g, some, m)
  PROVE  \A n \in 0 .. m : t[n] = u[n]
<1> DEFINE bad == {n \in 0 .. m : t[n] # u[n]}
<1> SUFFICES ASSUME bad # {} PROVE FALSE
  OBVIOUS
<1>1. bad \in SUBSET Nat
  OBVIOUS
<1> HIDE DEF bad
<1>2. PICK n \in bad : \A i \in bad : n <= i
  BY <1>1, LeastElement
<1>3. n \in 0 .. m /\ t[n] # u[n]
  BY DEF bad
<1>4. n # 0
  BY <1>3 DEF TakenUpTo
<1>5. n - 1 \in 0 .. m /\ n - 1 \notin bad
  BY <1>2, <1>3, <1>4
<1>6. t[n - 1] = u[n - 1]
  BY <1>5 DEF bad
<1>7. t[n] = TakeOne(t[n - 1], f[n], some)
  BY <1>3, <1>4 DEF TakenUpTo
<1>8. u[n] = TakeOne(u[n - 1], g[n], some)
  BY <1>3, <1>4 DEF TakenUpTo
<1> QED
  <2>1. f[n] = g[n]
    BY <1>3, <1>4
  <2> QED
    BY <1>3, <1>6, <1>7, <1>8, <2>1

LEMMA OnlyIs ==
  ASSUME NEW S, NEW f \in Seq(S), NEW some
  PROVE  \E taken : TakenUpTo(taken, f, some, Len(f)) /\ Only(f, some) = taken[Len(f)]
<1> DEFINE taken == CHOOSE t : TakenUpTo(t, f, some, Len(f))
<1>1. TakenUpTo(taken, f, some, Len(f))
  BY TakenIsThere
<1>2. Only(f, some) = taken[Len(f)]
  BY DEF Only, TakenUpTo, TakeOne
<1> QED
  BY <1>1, <1>2

LEMMA OnlyOfNone ==
  ASSUME NEW some
  PROVE  Only(<<>>, some) = <<>>
<1>1. <<>> \in Seq({}) /\ Len(<<>>) = 0
  OBVIOUS
<1>2. PICK taken : TakenUpTo(taken, <<>>, some, 0) /\ Only(<<>>, some) = taken[0]
  BY <1>1, OnlyIs
<1> QED
  BY <1>2 DEF TakenUpTo

LEMMA OnlyOfMore ==
  ASSUME NEW S, NEW f \in Seq(S), NEW some, f # <<>>
  PROVE  Only(f, some) = IF Last(f) \in some THEN Append(Only(Front(f), some), Last(f)) ELSE Only(Front(f), some)
<1>1. /\ Front(f) \in Seq(S) /\ Len(Front(f)) = Len(f) - 1 /\ Len(f) \in Nat \ {0} /\ Last(f) = f[Len(f)]
      /\ \A i \in 1 .. Len(f) - 1 : f[i] = Front(f)[i]
  BY FrontIs
<1>2. PICK t : TakenUpTo(t, f, some, Len(f)) /\ Only(f, some) = t[Len(f)]
  BY OnlyIs
<1>3. PICK u : TakenUpTo(u, Front(f), some, Len(f) - 1) /\ Only(Front(f), some) = u[Len(f) - 1]
  BY <1>1, OnlyIs
<1>4. Len(f) - 1 \in 0 .. Len(f) /\ Len(f) \in Nat
  BY <1>1
<1>5. t[Len(f) - 1] = u[Len(f) - 1]
  <2>1. PICK k \in Nat : k = Len(f)
    BY <1>4
  <2>2. PICK m \in 0 .. k, g \in Seq(S) : m = Len(f) - 1 /\ g = Front(f)
    BY <1>1, <1>4, <2>1
  <2>3. TakenUpTo(t, f, some, k) /\ TakenUpTo(u, g, some, m) /\ \A i \in 1 .. m : f[i] = g[i]
    BY <1>1, <1>2, <1>3, <2>1, <2>2
  <2>4. \A n \in 0 .. m : t[n] = u[n]
    BY <2>3, TakenIsOne
  <2>5. m \in 0 .. m
    BY <1>1, <2>2
  <2>6. t[m] = u[m]
    BY <2>4, <2>5
  <2> QED
    BY <2>2, <2>6
<1>6. t[Len(f)] = TakeOne(t[Len(f) - 1], f[Len(f)], some)
  <2>1. Len(f) \in 0 .. Len(f) /\ Len(f) # 0
    BY <1>1
  <2> QED
    BY <1>2, <2>1 DEF TakenUpTo
<1>7. Only(f, some) = TakeOne(Only(Front(f), some), Last(f), some)
  BY <1>1, <1>2, <1>3, <1>5, <1>6
<1> QED
  BY <1>7 DEF TakeOne

(* What holds of the empty frame and of a frame when it holds of it without *)
(* its last bar: the shortest frame that fails has none shorter.            *)
Ordered(f) == \A i, j \in 1 .. Len(f) : i < j => f[i].at < f[j].at

LEMMA AppendIs ==
  ASSUME NEW S, NEW f \in Seq(S), NEW b \in S
  PROVE  /\ Append(f, b) \in Seq(S) /\ Len(Append(f, b)) = Len(f) + 1 /\ Len(f) \in Nat
         /\ Append(f, b)[Len(f) + 1] = b /\ \A i \in 1 .. Len(f) : Append(f, b)[i] = f[i]
OBVIOUS

(* What is taken are bars of the frame that are of the set, in the frame's  *)
(* order.                                                                   *)
TakenFrom(g, f, some) ==
  /\ g \in Seq(Bars) /\ \A i \in 1 .. Len(g) : g[i] \in some /\ \E j \in 1 .. Len(f) : g[i] = f[j]
  /\ Ordered(f) => Ordered(g)

LEMMA OnlyIsOfTheFrame ==
  ASSUME NEW f \in Seq(Bars), NEW some
  PROVE  TakenFrom(Only(f, some), f, some)
<1> DEFINE bad == {n \in Nat : \E g \in Seq(Bars) : Len(g) = n /\ ~ TakenFrom(Only(g, some), g, some)}
<1> SUFFICES ASSUME bad # {} PROVE FALSE
  <2>1. Len(f) \in Nat
    OBVIOUS
  <2> QED
    BY <2>1
<1>1. bad \in SUBSET Nat
  OBVIOUS
<1> HIDE DEF bad
<1>2. PICK n \in bad : \A i \in bad : n <= i
  BY <1>1, LeastElement
<1>3. PICK g \in Seq(Bars) : Len(g) = n /\ ~ TakenFrom(Only(g, some), g, some)
  BY DEF bad
<1>4. g # <<>>
  <2> SUFFICES ASSUME g = <<>> PROVE FALSE
    OBVIOUS
  <2>1. Only(g, some) = <<>>
    BY OnlyOfNone
  <2>2. <<>> \in Seq(Bars) /\ Len(<<>>) = 0 /\ Ordered(<<>>)
    BY DEF Ordered
  <2>3. \A i \in 1 .. Len(<<>>) : FALSE
    OBVIOUS
  <2>4. TakenFrom(<<>>, g, some)
    BY <2>2, <2>3 DEF TakenFrom
  <2> QED
    BY <1>3, <2>1, <2>4
<1>5. /\ Front(g) \in Seq(Bars) /\ Len(Front(g)) = Len(g) - 1 /\ Len(g) \in Nat \ {0} /\ Last(g) \in Bars /\ Last(g) = g[Len(g)]
      /\ \A i \in 1 .. Len(g) - 1 : Front(g)[i] = g[i]
  BY <1>4, FrontIs
<1>6. PICK h \in Seq(Bars), t \in Seq(Bars), b \in Bars : h = Front(g) /\ b = Last(g) /\ t = Only(h, some) /\ TakenFrom(t, h, some)
  <2>1. Len(g) - 1 \in Nat /\ Len(g) - 1 \notin bad
    BY <1>2, <1>3, <1>5
  <2>2. TakenFrom(Only(Front(g), some), Front(g), some)
    BY <1>5, <2>1 DEF bad
  <2> QED
    BY <1>5, <2>2 DEF TakenFrom
<1>7. PICK m \in Nat : Len(g) = m + 1 /\ Len(h) = m /\ g[m + 1] = b /\ \A i \in 1 .. m : g[i] = h[i]
  <2>1. Len(g) - 1 \in Nat /\ Len(g) = (Len(g) - 1) + 1
    BY <1>5
  <2> QED
    BY <1>5, <1>6, <2>1
<1>8. TakenFrom(t, g, some)
  <2>1. \A i \in 1 .. Len(t) : t[i] \in some /\ \E j \in 1 .. Len(g) : t[i] = g[j]
    BY <1>6, <1>7 DEF TakenFrom
  <2>2. Ordered(g) => Ordered(h)
    BY <1>7 DEF Ordered
  <2> QED
    BY <1>6, <2>1, <2>2 DEF TakenFrom
<1>9. CASE b \notin some
  <2>1. Only(g, some) = t
    BY <1>4, <1>6, <1>9, OnlyOfMore
  <2> QED
    BY <1>3, <1>8, <2>1
<1>10. CASE b \in some
  <2>1. Only(g, some) = Append(t, b)
    BY <1>4, <1>6, <1>10, OnlyOfMore
  <2>2. PICK u \in Seq(Bars) : u = Append(t, b)
    BY AppendIs
  <2>3. PICK k \in Nat : Len(t) = k /\ Len(u) = k + 1 /\ u[k + 1] = b /\ \A i \in 1 .. k : u[i] = t[i]
    BY <2>2, AppendIs
  <2>4. \A i \in 1 .. Len(u) : u[i] \in some /\ \E j \in 1 .. Len(g) : u[i] = g[j]
    <3> TAKE i \in 1 .. Len(u)
    <3>1. CASE i = k + 1
      BY <1>7, <1>10, <2>3, <3>1
    <3>2. CASE i # k + 1
      <4>1. i \in 1 .. Len(t) /\ u[i] = t[i]
        BY <2>3, <3>2
      <4> QED
        BY <1>8, <4>1 DEF TakenFrom
    <3> QED
      BY <3>1, <3>2
  <2>5. ASSUME Ordered(g) PROVE Ordered(u)
    <3>1. Ordered(t)
      BY <1>8, <2>5 DEF TakenFrom
    <3>2. \A i \in 1 .. k : u[i].at < b.at
      <4> TAKE i \in 1 .. k
      <4>1. PICK j \in 1 .. Len(h) : t[i] = h[j]
        BY <1>6, <2>3 DEF TakenFrom
      <4>2. j \in 1 .. Len(g) /\ m + 1 \in 1 .. Len(g) /\ j < m + 1 /\ g[j] = h[j]
        BY <1>7, <4>1
      <4> QED
        BY <1>7, <2>3, <2>5, <4>1, <4>2 DEF Ordered
    <3>3. \A i, j \in 1 .. Len(u) : i < j => u[i].at < u[j].at
      <4> TAKE i, j \in 1 .. Len(u)
      <4> HAVE i < j
      <4>1. i \in 1 .. k /\ u[i] = t[i]
        BY <2>3
      <4>2. CASE j = k + 1
        BY <2>3, <3>2, <4>1, <4>2
      <4>3. CASE j # k + 1
        <5>1. j \in 1 .. k /\ u[j] = t[j]
          BY <2>3, <4>3
        <5> QED
          BY <2>3, <3>1, <4>1, <5>1 DEF Ordered
      <4> QED
        BY <4>2, <4>3
    <3> QED
      BY <3>3 DEF Ordered
  <2> QED
    BY <1>3, <2>1, <2>2, <2>4, <2>5 DEF TakenFrom
<1> QED
  BY <1>9, <1>10

(* All of a frame, or none of it.                                           *)
LEMMA OnlyAll ==
  ASSUME NEW f \in Seq(Bars), NEW some, \A i \in 1 .. Len(f) : f[i] \in some
  PROVE  Only(f, some) = f
<1> DEFINE bad == {n \in Nat : \E g \in Seq(Bars) : Len(g) = n /\ (\A i \in 1 .. Len(g) : g[i] \in some) /\ Only(g, some) # g}
<1> SUFFICES ASSUME bad # {} PROVE FALSE
  <2>1. Len(f) \in Nat
    OBVIOUS
  <2> QED
    BY <2>1
<1>1. bad \in SUBSET Nat
  OBVIOUS
<1> HIDE DEF bad
<1>2. PICK n \in bad : \A i \in bad : n <= i
  BY <1>1, LeastElement
<1>3. PICK g \in Seq(Bars) : Len(g) = n /\ (\A i \in 1 .. Len(g) : g[i] \in some) /\ Only(g, some) # g
  BY DEF bad
<1>4. g # <<>>
  BY <1>3, OnlyOfNone
<1>5. /\ Front(g) \in Seq(Bars) /\ Len(Front(g)) = Len(g) - 1 /\ Len(g) \in Nat \ {0} /\ Last(g) = g[Len(g)]
      /\ \A i \in 1 .. Len(g) - 1 : Front(g)[i] = g[i]
  BY <1>4, FrontIs
<1>6. Len(g) - 1 \in Nat /\ Len(g) - 1 \notin bad
  BY <1>2, <1>3, <1>5
<1>7. \A i \in 1 .. Len(Front(g)) : Front(g)[i] \in some
  BY <1>3, <1>5
<1>8. Only(Front(g), some) = Front(g)
  BY <1>5, <1>6, <1>7 DEF bad
<1>9. Last(g) \in some
  BY <1>3, <1>5
<1>10. g = Append(Front(g), Last(g))
  BY <1>4, FrontIs
<1> QED
  BY <1>3, <1>4, <1>8, <1>9, <1>10, OnlyOfMore

LEMMA OnlyNone ==
  ASSUME NEW f \in Seq(Bars), NEW some, \A i \in 1 .. Len(f) : f[i] \notin some
  PROVE  Only(f, some) = <<>>
<1>1. TakenFrom(Only(f, some), f, some)
  BY OnlyIsOfTheFrame
<1>2. Len(Only(f, some)) = 0 /\ Only(f, some) \in Seq(Bars)
  <2>1. PICK g \in Seq(Bars) : g = Only(f, some)
    BY <1>1 DEF TakenFrom
  <2>2. Len(g) \in Nat /\ (Len(g) # 0 => 1 \in 1 .. Len(g))
    OBVIOUS
  <2> QED
    BY <1>1, <2>1, <2>2 DEF TakenFrom
<1>3. PICK g \in Seq(Bars) : g = Only(f, some) /\ Len(g) = 0
  BY <1>2
<1> QED
  BY <1>3

(* The most and the least of some numbers.                                  *)
LEMMA MostIsThere ==
  ASSUME NEW s, NEW n \in Nat \ {0}, \A i \in 1 .. n : s[i] \in Int
  PROVE  \E i \in 1 .. n : \A j \in 1 .. n : s[j] <= s[i]
<1> DEFINE bad == {k \in 1 .. n : ~ \E i \in 1 .. k : \A j \in 1 .. k : s[j] <= s[i]}
<1> SUFFICES ASSUME bad # {} PROVE FALSE
  <2>1. n \in 1 .. n
    OBVIOUS
  <2>2. n \notin bad => \E i \in 1 .. n : \A j \in 1 .. n : s[j] <= s[i]
    BY <2>1
  <2> HIDE DEF bad
  <2>3. bad = {} => n \notin bad
    OBVIOUS
  <2> QED
    BY <2>2, <2>3
<1>1. bad \in SUBSET Nat
  OBVIOUS
<1> HIDE DEF bad
<1>2. PICK k \in bad : \A i \in bad : k <= i
  BY <1>1, LeastElement
<1>3. k \in 1 .. n /\ ~ \E i \in 1 .. k : \A j \in 1 .. k : s[j] <= s[i]
  BY DEF bad
<1>4. k # 1
  BY <1>3
<1>5. k - 1 \in 1 .. n /\ k - 1 \notin bad
  BY <1>2, <1>3, <1>4
<1>6. PICK i \in 1 .. (k - 1) : \A j \in 1 .. (k - 1) : s[j] <= s[i]
  BY <1>5 DEF bad
<1>7. s[i] \in Int /\ s[k] \in Int /\ i \in 1 .. k /\ k \in 1 .. k
  BY <1>3, <1>6
<1>8. CASE s[k] <= s[i]
  <2>1. \A j \in 1 .. k : s[j] <= s[i]
    <3> TAKE j \in 1 .. k
    <3>1. j = k \/ j \in 1 .. (k - 1)
      BY <1>3
    <3> QED
      BY <1>6, <1>8, <3>1
  <2> QED
    BY <1>3, <1>7, <2>1
<1>9. CASE ~ (s[k] <= s[i])
  <2>1. \A j \in 1 .. k : s[j] <= s[k]
    <3> TAKE j \in 1 .. k
    <3>1. j = k \/ j \in 1 .. (k - 1)
      BY <1>3
    <3>2. CASE j \in 1 .. (k - 1)
      <4>1. s[j] \in Int /\ s[j] <= s[i]
        BY <1>3, <1>6, <3>2
      <4> QED
        BY <1>7, <1>9, <4>1
    <3> QED
      BY <1>7, <3>1, <3>2
  <2> QED
    BY <1>3, <1>7, <2>1
<1> QED
  BY <1>8, <1>9

LEMMA LeastIsThere ==
  ASSUME NEW s, NEW n \in Nat \ {0}, \A i \in 1 .. n : s[i] \in Int
  PROVE  \E i \in 1 .. n : \A j \in 1 .. n : s[i] <= s[j]
<1> DEFINE t == [i \in 1 .. n |-> 0 - s[i]]
<1>1. \A i \in 1 .. n : t[i] \in Int /\ t[i] = 0 - s[i]
  OBVIOUS
<1> HIDE DEF t
<1>2. PICK i \in 1 .. n : \A j \in 1 .. n : t[j] <= t[i]
  BY <1>1, MostIsThere
<1>3. \A j \in 1 .. n : s[i] <= s[j]
  <2> TAKE j \in 1 .. n
  <2>1. t[j] <= t[i] /\ t[j] = 0 - s[j] /\ t[i] = 0 - s[i] /\ s[i] \in Int /\ s[j] \in Int
    BY <1>1, <1>2
  <2> QED
    BY <2>1
<1> QED
  BY <1>3

LEMMA RangeIsThere ==
  ASSUME NEW f \in Seq(Bars), f # <<>>
  PROVE  Highest(Field(f, "h")) \in Int /\ Lowest(Field(f, "l")) \in Int
<1>1. Len(f) \in Nat \ {0} /\ DOMAIN f = 1 .. Len(f)
  OBVIOUS
<1>2. PICK n \in Nat \ {0} : n = Len(f)
  BY <1>1
<1>3. \A i \in 1 .. n : f[i] \in Bars /\ f[i].h \in Int /\ f[i].l \in Int
  BY <1>2, BarFields
<1> DEFINE s == Field(f, "h")
           t == Field(f, "l")
<1>5. DOMAIN s = 1 .. n /\ DOMAIN t = 1 .. n /\ \A i \in 1 .. n : s[i] = f[i].h /\ t[i] = f[i].l
  BY <1>1, <1>2 DEF Field
<1> HIDE DEF s, t
<1>6. Highest(s) \in Int
  <2>1. \A i \in 1 .. n : s[i] \in Int
    BY <1>3, <1>5
  <2>2. PICK i \in 1 .. n : \A j \in 1 .. n : s[j] <= s[i]
    BY <2>1, MostIsThere
  <2>3. Highest(s) \in {s[k] : k \in 1 .. n}
    BY <1>5, <2>2 DEF Highest
  <2> QED
    BY <2>1, <2>3
<1>7. Lowest(t) \in Int
  <2>1. \A i \in 1 .. n : t[i] \in Int
    BY <1>3, <1>5
  <2>2. PICK i \in 1 .. n : \A j \in 1 .. n : t[i] <= t[j]
    BY <2>1, LeastIsThere
  <2>3. Lowest(t) \in {t[k] : k \in 1 .. n}
    BY <1>5, <2>2 DEF Lowest
  <2> QED
    BY <2>1, <2>3
<1> QED
  BY <1>6, <1>7 DEF s, t

(* A crossing asks of the bar before what the next one would have to break. *)
LEMMA CrossedOutOnce ==
  ASSUME NEW S, NEW f \in Seq(S), Len(f) >= 2, \A i \in 1 .. Len(f) : f[i].c \in Int, NEW high \in Int, NEW low \in Int,
         CrossedOut(f, high, low) # No
  PROVE  CrossedOut(Front(f), high, low) = No
<1>1. Len(f) \in Nat /\ f # <<>>
  OBVIOUS
<1>2. Len(Front(f)) = Len(f) - 1 /\ \A i \in 1 .. Len(f) - 1 : Front(f)[i] = f[i]
  BY <1>1, FrontIs
<1>3. Last(Front(f)) = f[Len(f) - 1] /\ Len(f) - 1 \in 1 .. Len(f)
  BY <1>1, <1>2 DEF Last
<1>4. PICK c \in Int : c = f[Len(f) - 1].c
  BY <1>3
<1>5. low <= c /\ c <= high
  BY <1>1, <1>4 DEF CrossedOut
<1>6. ~ (c > high) /\ ~ (c < low)
  BY <1>5
<1>7. Toward(Last(Front(f)).c > high, Last(Front(f)).c < low) = No
  BY <1>3, <1>4, <1>6 DEF Toward
<1> QED
  BY <1>7 DEF CrossedOut

LEMMA CrossDirectionOnce ==
  ASSUME NEW S, NEW T, NEW a \in Seq(S), NEW b \in Seq(T), Len(b) = Len(a) - 1, \A i \in 1 .. Len(b) : a[i] = b[i],
         CrossDirection(a) # No
  PROVE  CrossDirection(b) # CrossDirection(a)
<1>1. Len(a) \in Nat /\ Len(a) >= 2 /\ Len(a) - 1 \in 1 .. Len(b)
  BY DEF CrossDirection
<1>2. Last(b) = a[Len(a) - 1]
  BY <1>1 DEF Last
<1>3. CrossDirection(a) = Toward(Last(a) /\ ~a[Len(a) - 1], ~Last(a) /\ a[Len(a) - 1])
  BY <1>1 DEF CrossDirection
<1>4. CrossDirection(b) \in {No, Toward(Last(b) /\ ~b[Len(b) - 1], ~Last(b) /\ b[Len(b) - 1])}
  BY DEF CrossDirection
<1>5. CASE a[Len(a) - 1]
  <2>1. CrossDirection(a) = "put"
    BY <1>3, <1>5 DEF Toward
  <2>2. CrossDirection(b) \in {No, "call"}
    BY <1>2, <1>4, <1>5 DEF Toward
  <2> QED
    BY <2>1, <2>2 DEF No
<1>6. CASE ~ a[Len(a) - 1]
  <2>1. CrossDirection(a) = "call"
    BY <1>3, <1>6 DEF Toward
  <2>2. CrossDirection(b) \in {No, "put"}
    BY <1>2, <1>4, <1>6 DEF Toward
  <2> QED
    BY <2>1, <2>2 DEF No
<1> QED
  BY <1>5, <1>6

(* The rules of levels: the opening range is the same a bar before, once it *)
(* is over.                                                                 *)
Whole(f) == f \in Seq(Bars) /\ Ordered(f) /\ \A i \in 1 .. Len(f) : f[i].l <= f[i].c /\ f[i].c <= f[i].h

LEMMA RangeStands ==
  ASSUME NEW f \in Seq(Bars), Len(f) >= 2, NEW m \in Nat, OpeningRange(f, m) # <<>>
  PROVE  /\ OpeningRange(Front(f), m) \in {<<>>, OpeningRange(f, m)}
         /\ \E high, low \in Int : OpeningRange(f, m) = <<high, low>>
<1>1. f # <<>> /\ Len(f) \in Nat
  OBVIOUS
<1> DEFINE opening == Only(f, EarlierThan(m))
<1>2. Len(opening) >= 3 /\ ~ (Last(f).at < m) /\ OpeningRange(f, m) = <<Highest(Field(opening, "h")), Lowest(Field(opening, "l"))>>
  BY DEF OpeningRange
<1>3. Last(f) \notin EarlierThan(m)
  BY <1>2 DEF EarlierThan
<1>4. Only(Front(f), EarlierThan(m)) = opening
  BY <1>1, <1>3, OnlyOfMore
<1>5. opening \in Seq(Bars)
  BY OnlyIsOfTheFrame DEF TakenFrom
<1> HIDE DEF opening
<1>6. opening # <<>>
  BY <1>2, <1>5
<1>7. Highest(Field(opening, "h")) \in Int /\ Lowest(Field(opening, "l")) \in Int
  BY <1>5, <1>6, RangeIsThere
<1>8. OpeningRange(Front(f), m) \in {<<>>, <<Highest(Field(opening, "h")), Lowest(Field(opening, "l"))>>}
  BY <1>4 DEF OpeningRange
<1> QED
  BY <1>2, <1>7, <1>8

LEMMA ClosesAreNumbers ==
  ASSUME NEW f \in Seq(Bars)
  PROVE  \A i \in 1 .. Len(f) : f[i] \in Bars /\ f[i].c \in Int /\ f[i].l \in Int /\ f[i].h \in Int /\ f[i].at \in Nat
<1> TAKE i \in 1 .. Len(f)
<1>1. f[i] \in Bars
  OBVIOUS
<1> QED
  BY <1>1, BarFields

LEMMA RangeRulesOnce ==
  ASSUME NEW f \in Seq(Bars), Len(f) >= 2
  PROVE  /\ OrbRule(f) # No => OrbRule(Front(f)) = No
         /\ TightRange(f) # No => TightRange(Front(f)) = No
<1> DEFINE r == OpeningRange(f, RangeMinutes)
           q == OpeningRange(Front(f), RangeMinutes)
<1>1. ASSUME r # <<>> PROVE \E high, low \in Int : r = <<high, low>> /\ q \in {<<>>, r}
  BY <1>1, RangeStands, SignalsAssumed
<1>2. ASSUME r # <<>>, CrossedOut(f, r[1], r[2]) # No PROVE q = <<>> \/ (q = r /\ CrossedOut(Front(f), q[1], q[2]) = No)
  <2>1. PICK high \in Int, low \in Int : r = <<high, low>> /\ q \in {<<>>, r}
    BY <1>1, <1>2
  <2>2. r[1] = high /\ r[2] = low
    BY <2>1
  <2>3. CrossedOut(Front(f), high, low) = No
    BY <1>2, <2>2, ClosesAreNumbers, CrossedOutOnce
  <2> QED
    BY <2>1, <2>2, <2>3
<1>3. OrbRule(f) = (IF r = <<>> THEN No ELSE CrossedOut(f, r[1], r[2])) /\ OrbRule(Front(f)) = (IF q = <<>> THEN No ELSE CrossedOut(Front(f), q[1], q[2]))
  BY DEF OrbRule
<1>4. /\ TightRange(f) # No => r # <<>> /\ CrossedOut(f, r[1], r[2]) # No
      /\ TightRange(Front(f)) \in {No, CrossedOut(Front(f), q[1], q[2])} /\ (q = <<>> => TightRange(Front(f)) = No)
  BY DEF TightRange
<1> HIDE DEF r, q
<1> QED
  BY <1>2, <1>3, <1>4

(* Orb keeps to the bars after the range.                                   *)
LEMMA OrbOnce ==
  ASSUME NEW f, Whole(f), Len(f) >= 2, Orb(f) # No
  PROVE  Orb(Front(f)) = No
<1> DEFINE opening == Only(f, EarlierThan(RangeMinutes))
           later == Only(f, NotBefore(RangeMinutes))
           before == Only(Front(f), NotBefore(RangeMinutes))
           high == Highest(Field(opening, "h"))
           low == Lowest(Field(opening, "l"))
<1>1. f \in Seq(Bars) /\ f # <<>> /\ Len(f) \in Nat /\ RangeMinutes \in Nat
  BY SignalsAssumed DEF Whole
<1>3. opening \in Seq(Bars) /\ later \in Seq(Bars) /\ before \in Seq(Bars)
  <2>1. Front(f) \in Seq(Bars)
    BY <1>1, FrontIs
  <2> QED
    BY <1>1, <2>1, OnlyIsOfTheFrame DEF TakenFrom
<1>2. /\ Len(opening) >= MinBars /\ later # <<>>
      /\ Len(later) < 2 \/ (low <= later[Len(later) - 1].c /\ later[Len(later) - 1].c <= high)
  <2>1. ~ (Len(opening) < MinBars \/ later = <<>>
           \/ ~ (Len(later) < 2 \/ (low <= later[Len(later) - 1].c /\ later[Len(later) - 1].c <= high)))
    BY DEF Orb
  <2>2. Len(opening) \in Nat /\ MinBars \in Nat
    BY <1>3, SignalsAssumed
  <2> HIDE DEF opening, later, high, low
  <2> QED
    BY <2>1, <2>2
<1>4. Last(f).at >= RangeMinutes /\ Last(f) \in Bars
  <2>1. PICK j \in 1 .. Len(f) : f[j] \in NotBefore(RangeMinutes)
    <3>1. TakenFrom(later, f, NotBefore(RangeMinutes))
      BY <1>1, OnlyIsOfTheFrame
    <3> HIDE DEF later
    <3>2. 1 \in 1 .. Len(later)
      BY <1>2, <1>3
    <3> QED
      BY <3>1, <3>2 DEF TakenFrom
  <2>2. Last(f) = f[Len(f)] /\ Len(f) \in 1 .. Len(f)
    BY <1>1 DEF Last
  <2>3. f[j].at <= Last(f).at /\ f[j].at >= RangeMinutes
    <3>1. f[j].at \in Nat /\ f[Len(f)].at \in Nat /\ f[j].at >= RangeMinutes
      BY <1>1, <2>1, <2>2, ClosesAreNumbers DEF NotBefore
    <3>2. j = Len(f) \/ j < Len(f)
      BY <1>1
    <3>3. j < Len(f) => f[j].at < f[Len(f)].at
      BY <2>2 DEF Whole, Ordered
    <3> QED
      BY <2>2, <3>1, <3>2, <3>3
  <2>4. Last(f) \in Bars /\ Last(f).at \in Nat /\ f[j].at \in Nat
    BY <1>1, <2>2, ClosesAreNumbers
  <2> QED
    BY <1>1, <2>3, <2>4
<1>5. Last(f) \notin EarlierThan(RangeMinutes) /\ Last(f) \in NotBefore(RangeMinutes)
  <2>1. Last(f).at \in Nat
    BY <1>4, BarFields
  <2> QED
    BY <1>1, <1>4, <2>1 DEF EarlierThan, NotBefore
<1>6. Only(Front(f), EarlierThan(RangeMinutes)) = opening /\ later = Append(before, Last(f))
  BY <1>1, <1>5, OnlyOfMore
<1>7. high \in Int /\ low \in Int
  <2> HIDE DEF opening
  <2>1. opening # <<>>
    BY <1>2, <1>3, SignalsAssumed
  <2> QED
    BY <1>3, <2>1, RangeIsThere
<1> HIDE DEF opening, later, before, high, low
<1>8. Len(later) = Len(before) + 1 /\ Len(before) \in Nat /\ \A i \in 1 .. Len(before) : later[i] = before[i] /\ before[i].c \in Int
  BY <1>3, <1>4, <1>6, AppendIs, ClosesAreNumbers
<1>9. before # <<>> => Toward(Last(before).c > high, Last(before).c < low) = No
  <2> SUFFICES ASSUME before # <<>> PROVE Toward(Last(before).c > high, Last(before).c < low) = No
    OBVIOUS
  <2>1. Len(before) >= 1 /\ Len(before) \in 1 .. Len(before) /\ Len(later) - 1 = Len(before)
    BY <1>3, <1>8
  <2>2. Last(before) = later[Len(later) - 1] /\ Last(before).c \in Int
    BY <1>8, <2>1 DEF Last
  <2>3. low <= Last(before).c /\ Last(before).c <= high
    BY <1>2, <1>8, <2>1, <2>2
  <2> QED
    BY <1>7, <2>2, <2>3 DEF Toward
<1>10. before = <<>> \/ Toward(Last(before).c > high, Last(before).c < low) = No
  BY <1>9
<1>11. Orb(Front(f)) \in {No, Toward(Last(before).c > high, Last(before).c < low)} /\ (before = <<>> => Orb(Front(f)) = No)
  BY <1>6 DEF Orb, before, high, low
<1> QED
  BY <1>10, <1>11

(* A bar inside the one before lies within it, close and all.               *)
LEMMA InsideOnce ==
  ASSUME NEW f, Whole(f), Len(f) >= 2, InsideBar(f) # No
  PROVE  InsideBar(Front(f)) = No
<1>1. f \in Seq(Bars) /\ f # <<>> /\ Len(f) \in Nat /\ Len(f) >= 3
  BY DEF Whole, InsideBar
<1>2. PICK n \in Nat : n = Len(f) /\ n >= 3
  BY <1>1
<1>3. /\ Len(Front(f)) = n - 1 /\ Last(Front(f)) = f[n - 1] /\ n - 1 \in 1 .. n /\ n - 2 \in 1 .. n
      /\ (n >= 4 => n - 3 \in 1 .. n /\ Front(f)[n - 2] = f[n - 2] /\ Front(f)[n - 3] = f[n - 3])
  <2>1. Len(Front(f)) = n - 1 /\ \A i \in 1 .. n - 1 : Front(f)[i] = f[i]
    BY <1>1, <1>2, FrontIs
  <2> QED
    BY <1>2, <2>1 DEF Last
<1>4. PICK p \in Bars, b \in Bars : p = f[n - 2] /\ b = f[n - 1]
  BY <1>1, <1>2, <1>3, ClosesAreNumbers
<1>5. b.h <= p.h /\ b.l >= p.l
  BY <1>2, <1>4 DEF InsideBar
<1>6. b.l <= b.c /\ b.c <= b.h
  BY <1>2, <1>3, <1>4 DEF Whole
<1>7. ~ (b.c > p.h) /\ ~ (b.c < p.l)
  BY <1>5, <1>6, BarFields
<1>8. CASE n >= 4
  <2>1. Len(Front(f)) - 1 = n - 2 /\ Len(Front(f)) - 2 = n - 3
    BY <1>2, <1>3
  <2>2. Toward(Last(Front(f)).c > Front(f)[Len(Front(f)) - 1].h, Last(Front(f)).c < Front(f)[Len(Front(f)) - 1].l) = No
    BY <1>3, <1>4, <1>7, <1>8, <2>1 DEF Toward
  <2>3. InsideBar(Front(f)) \in {No, Toward(Last(Front(f)).c > Front(f)[Len(Front(f)) - 1].h, Last(Front(f)).c < Front(f)[Len(Front(f)) - 1].l)}
    BY DEF InsideBar
  <2> QED
    BY <2>2, <2>3
<1>9. CASE ~ (n >= 4)
  BY <1>2, <1>3, <1>9 DEF InsideBar
<1> QED
  BY <1>8, <1>9

-----------------------------------------------------------------------------
(* The rules of averages: what runs along a frame begins as what runs along *)
(* its start.                                                               *)
RunsAs(t, s, m, n) == DOMAIN s = 1 .. n /\ DOMAIN t = 1 .. m /\ \A i \in 1 .. m : t[i] = s[i]

WeighOne(num, den, before, x) == (num * x + (den - num) * before) \div den
Averaged(out, s, num, den, n) ==
  out = [k \in 1 .. n |-> IF k = 1 THEN s[k] ELSE WeighOne(num, den, out[k - 1], s[k])]

LEMMA AveragesAreThere ==
  ASSUME NEW s, NEW num, NEW den, NEW n \in Nat
  PROVE  \E out : Averaged(out, s, num, den, n)
<1> DEFINE bad == {j \in 0 .. n : ~ \E out : Averaged(out, s, num, den, j)}
<1> SUFFICES ASSUME bad # {} PROVE FALSE
  OBVIOUS
<1>1. bad \in SUBSET Nat
  OBVIOUS
<1> HIDE DEF bad
<1>2. PICK j \in bad : \A i \in bad : j <= i
  BY <1>1, LeastElement
<1>3. j \in 0 .. n /\ ~ \E out : Averaged(out, s, num, den, j)
  BY DEF bad
<1>4. CASE j = 0
  <2>1. Averaged([k \in 1 .. 0 |-> 0], s, num, den, 0)
    BY DEF Averaged
  <2> QED
    BY <1>3, <1>4, <2>1
<1>5. CASE j # 0
  <2>1. j - 1 \in 0 .. n /\ j - 1 \notin bad
    BY <1>2, <1>3, <1>5
  <2>2. PICK out : Averaged(out, s, num, den, j - 1)
    BY <2>1 DEF bad
  <2> DEFINE next == [k \in 1 .. j |-> IF k = j THEN (IF j = 1 THEN s[j] ELSE WeighOne(num, den, out[j - 1], s[j])) ELSE out[k]]
  <2>3. \A k \in 1 .. j : next[k] = IF k = 1 THEN s[k] ELSE WeighOne(num, den, next[k - 1], s[k])
    <3> TAKE k \in 1 .. j
    <3>1. CASE k = j
      BY <1>3, <1>5, <3>1
    <3>2. CASE k # j
      <4>1. k \in 1 .. j - 1 /\ next[k] = out[k] /\ (k # 1 => k - 1 \in 1 .. j /\ k - 1 # j /\ next[k - 1] = out[k - 1])
        BY <1>3, <3>2
      <4>2. out[k] = IF k = 1 THEN s[k] ELSE WeighOne(num, den, out[k - 1], s[k])
        BY <2>2, <4>1 DEF Averaged
      <4> QED
        BY <4>1, <4>2
    <3> QED
      BY <3>1, <3>2
  <2>4. Averaged(next, s, num, den, j)
    BY <2>3 DEF Averaged
  <2> QED
    BY <1>3, <2>4
<1> QED
  BY <1>4, <1>5

LEMMA AveragesAreOne ==
  ASSUME NEW s, NEW r, NEW num, NEW den, NEW n \in Nat, NEW m \in 0 .. n, \A i \in 1 .. m : s[i] = r[i],
         NEW t, NEW u, Averaged(t, s, num, den, n), Averaged(u, r, num, den, m)
  PROVE  \A k \in 1 .. m : t[k] = u[k]
<1> DEFINE bad == {k \in 1 .. m : t[k] # u[k]}
<1> SUFFICES ASSUME bad # {} PROVE FALSE
  OBVIOUS
<1>1. bad \in SUBSET Nat
  OBVIOUS
<1> HIDE DEF bad
<1>2. PICK k \in bad : \A i \in bad : k <= i
  BY <1>1, LeastElement
<1>3. k \in 1 .. m /\ t[k] # u[k] /\ k \in 1 .. n /\ s[k] = r[k]
  BY DEF bad
<1>4. t[k] = IF k = 1 THEN s[k] ELSE WeighOne(num, den, t[k - 1], s[k])
  BY <1>3 DEF Averaged
<1>5. u[k] = IF k = 1 THEN r[k] ELSE WeighOne(num, den, u[k - 1], r[k])
  BY <1>3 DEF Averaged
<1>6. k # 1
  BY <1>3, <1>4, <1>5
<1>7. k - 1 \in 1 .. m /\ k - 1 \notin bad
  BY <1>2, <1>3, <1>6
<1>8. t[k - 1] = u[k - 1]
  BY <1>7 DEF bad
<1> QED
  BY <1>3, <1>4, <1>5, <1>8

LEMMA EwmIs ==
  ASSUME NEW s, NEW num, NEW den, NEW n \in Nat, DOMAIN s = 1 .. n
  PROVE  Averaged(Ewm(s, num, den), s, num, den, n)
<1> DEFINE out == CHOOSE t : Averaged(t, s, num, den, n)
<1>1. Averaged(out, s, num, den, n)
  BY AveragesAreThere
<1>2. Ewm(s, num, den) = out
  BY DEF Ewm, Averaged, WeighOne
<1> QED
  BY <1>1, <1>2

LEMMA EwmBegins ==
  ASSUME NEW s, NEW t, NEW n \in Nat, NEW m \in 0 .. n, RunsAs(t, s, m, n), NEW num, NEW den
  PROVE  RunsAs(Ewm(t, num, den), Ewm(s, num, den), m, n)
<1>1. DOMAIN s = 1 .. n /\ DOMAIN t = 1 .. m /\ m \in Nat /\ \A i \in 1 .. m : s[i] = t[i]
  BY DEF RunsAs
<1>2. PICK o : o = Ewm(s, num, den) /\ Averaged(o, s, num, den, n)
  BY <1>1, EwmIs
<1>3. PICK p : p = Ewm(t, num, den) /\ Averaged(p, t, num, den, m)
  BY <1>1, EwmIs
<1>4. \A k \in 1 .. m : o[k] = p[k]
  <2>1. Averaged(o, s, num, den, n) /\ Averaged(p, t, num, den, m) /\ \A i \in 1 .. m : s[i] = t[i]
    BY <1>1, <1>2, <1>3
  <2> QED
    BY <2>1, AveragesAreOne
<1>5. DOMAIN o = 1 .. n /\ DOMAIN p = 1 .. m
  BY <1>2, <1>3 DEF Averaged
<1> QED
  BY <1>2, <1>3, <1>4, <1>5 DEF RunsAs

(* A direction that is crossed into is not crossed into a bar before.       *)
LEMMA CrossingOnce ==
  ASSUME NEW n \in Nat, NEW m \in 0 .. n, n = m + 1, NEW a, NEW b, a = [i \in 1 .. n |-> a[i]], b = [i \in 1 .. m |-> b[i]],
         \A i \in 1 .. m : a[i] = b[i], CrossDirection(a) # No
  PROVE  CrossDirection(b) # CrossDirection(a)
<1>1. PICK S : S = {a[i] : i \in 1 .. n}
  OBVIOUS
<1>2. PICK T : T = {b[i] : i \in 1 .. m}
  OBVIOUS
<1>3. a \in [1 .. n -> S] /\ b \in [1 .. m -> T] /\ m \in Nat
  BY <1>1, <1>2
<1>4. a \in Seq(S) /\ Len(a) = n
  BY <1>3
<1>5. b \in Seq(T) /\ Len(b) = m
  BY <1>3
<1>6. Len(b) = Len(a) - 1 /\ \A i \in 1 .. Len(b) : a[i] = b[i]
  BY <1>3, <1>4, <1>5
<1> QED
  BY <1>4, <1>5, <1>6, CrossDirectionOnce

LEMMA ClosesBegin ==
  ASSUME NEW f \in Seq(Bars), f # <<>>
  PROVE  \E n \in Nat : \E m \in 0 .. n :
           /\ n = Len(f) /\ n = m + 1 /\ m = Len(Front(f)) /\ RunsAs(Front(f), f, m, n)
           /\ RunsAs(InUnits(Field(Front(f), "c")), InUnits(Field(f, "c")), m, n)
<1>1. PICK g \in Seq(Bars) : g = Front(f) /\ Len(g) = Len(f) - 1 /\ Len(f) \in Nat \ {0} /\ \A i \in 1 .. Len(f) - 1 : g[i] = f[i]
  BY FrontIs
<1>0. PICK n \in Nat : n = Len(f)
  BY <1>1
<1>2. PICK m \in 0 .. n : n = m + 1 /\ m = Len(g) /\ n = Len(f)
  <2>1. n - 1 \in 0 .. n /\ n = (n - 1) + 1
    BY <1>0, <1>1
  <2> QED
    BY <1>0, <1>1, <2>1
<1>3. DOMAIN f = 1 .. n /\ DOMAIN g = 1 .. m /\ \A i \in 1 .. m : g[i] = f[i] /\ i \in 1 .. n
  BY <1>1, <1>2
<1>4. RunsAs(g, f, m, n)
  BY <1>3 DEF RunsAs
<1>5. RunsAs(InUnits(Field(g, "c")), InUnits(Field(f, "c")), m, n)
  BY <1>3 DEF RunsAs, InUnits, Field
<1> QED
  BY <1>1, <1>2, <1>4, <1>5

LEMMA EmaCrossOnce ==
  ASSUME NEW f \in Seq(Bars), f # <<>>, EmaCross(f) # No
  PROVE  EmaCross(Front(f)) # EmaCross(f)
<1>1. PICK n \in Nat : \E m \in 0 .. n :
        /\ n = Len(f) /\ n = m + 1 /\ m = Len(Front(f)) /\ RunsAs(Front(f), f, m, n)
        /\ RunsAs(InUnits(Field(Front(f), "c")), InUnits(Field(f, "c")), m, n)
  BY ClosesBegin
<1>2. PICK m \in 0 .. n :
        /\ n = Len(f) /\ n = m + 1 /\ m = Len(Front(f)) /\ RunsAs(Front(f), f, m, n)
        /\ RunsAs(InUnits(Field(Front(f), "c")), InUnits(Field(f, "c")), m, n)
  BY <1>1
<1> DEFINE fast(g) == Ema(InUnits(Field(g, "c")), FastSpan)
           slow(g) == Ema(InUnits(Field(g, "c")), SlowSpan)
           above(g) == [i \in DOMAIN g |-> fast(g)[i] > slow(g)[i]]
<1>3. RunsAs(fast(Front(f)), fast(f), m, n) /\ RunsAs(slow(Front(f)), slow(f), m, n)
  BY <1>2, EwmBegins DEF Ema
<1>4. EmaCross(f) = CrossDirection(above(f)) /\ EmaCross(Front(f)) \in {No, CrossDirection(above(Front(f)))}
  BY DEF EmaCross
<1>5. DOMAIN f = 1 .. n /\ DOMAIN Front(f) = 1 .. m
  BY <1>2 DEF RunsAs
<1>6. \A i \in 1 .. m : fast(Front(f))[i] = fast(f)[i] /\ slow(Front(f))[i] = slow(f)[i] /\ i \in 1 .. n
  BY <1>2, <1>3 DEF RunsAs
<1> HIDE DEF fast, slow
<1>7. PICK a, b : a = above(f) /\ b = above(Front(f))
  OBVIOUS
<1>8. a = [i \in 1 .. n |-> a[i]] /\ b = [i \in 1 .. m |-> b[i]] /\ \A i \in 1 .. m : a[i] = b[i]
  BY <1>5, <1>6, <1>7
<1>9. CrossDirection(a) # No
  BY <1>4, <1>7
<1>10. CrossDirection(b) # CrossDirection(a)
  BY <1>2, <1>8, <1>9, CrossingOnce
<1> QED
  BY <1>4, <1>7, <1>9, <1>10

LEMMA MacdCrossOnce ==
  ASSUME NEW f \in Seq(Bars), f # <<>>, MacdCross(f) # No
  PROVE  MacdCross(Front(f)) # MacdCross(f)
<1>1. PICK n \in Nat : \E m \in 0 .. n :
        /\ n = Len(f) /\ n = m + 1 /\ m = Len(Front(f)) /\ RunsAs(Front(f), f, m, n)
        /\ RunsAs(InUnits(Field(Front(f), "c")), InUnits(Field(f, "c")), m, n)
  BY ClosesBegin
<1>2. PICK m \in 0 .. n :
        /\ n = Len(f) /\ n = m + 1 /\ m = Len(Front(f)) /\ RunsAs(Front(f), f, m, n)
        /\ RunsAs(InUnits(Field(Front(f), "c")), InUnits(Field(f, "c")), m, n)
  BY <1>1
<1> DEFINE fast(g) == Ema(InUnits(Field(g, "c")), FastSpan)
           slow(g) == Ema(InUnits(Field(g, "c")), SlowSpan)
           line(g) == [i \in DOMAIN g |-> fast(g)[i] - slow(g)[i]]
           above(g) == [i \in DOMAIN g |-> line(g)[i] > Ema(line(g), SignalSpan)[i]]
<1>3. RunsAs(fast(Front(f)), fast(f), m, n) /\ RunsAs(slow(Front(f)), slow(f), m, n)
  BY <1>2, EwmBegins DEF Ema
<1>4. MacdCross(f) = CrossDirection(above(f)) /\ MacdCross(Front(f)) \in {No, CrossDirection(above(Front(f)))}
  BY DEF MacdCross
<1>5. DOMAIN f = 1 .. n /\ DOMAIN Front(f) = 1 .. m
  BY <1>2 DEF RunsAs
<1>6. \A i \in 1 .. m : fast(Front(f))[i] = fast(f)[i] /\ slow(Front(f))[i] = slow(f)[i] /\ i \in 1 .. n
  BY <1>2, <1>3 DEF RunsAs
<1> HIDE DEF fast, slow
<1>7. PICK l, k : l = line(f) /\ k = line(Front(f))
  OBVIOUS
<1>8. RunsAs(k, l, m, n)
  BY <1>5, <1>6, <1>7 DEF RunsAs
<1>9. PICK e, d : e = Ema(l, SignalSpan) /\ d = Ema(k, SignalSpan)
  OBVIOUS
<1>10. RunsAs(d, e, m, n)
  BY <1>8, <1>9, EwmBegins DEF Ema
<1>11. PICK a, b : a = above(f) /\ b = above(Front(f))
  OBVIOUS
<1>12. a = [i \in 1 .. n |-> l[i] > e[i]] /\ b = [i \in 1 .. m |-> k[i] > d[i]]
  BY <1>5, <1>7, <1>9, <1>11
<1>13. CrossDirection(a) # No
  BY <1>4, <1>11
<1>14. \A i \in 1 .. m : k[i] = l[i] /\ d[i] = e[i] /\ i \in 1 .. n
  BY <1>2, <1>8, <1>10 DEF RunsAs
<1>15. a = [i \in 1 .. n |-> a[i]] /\ b = [i \in 1 .. m |-> b[i]] /\ \A i \in 1 .. m : a[i] = b[i]
  BY <1>12, <1>14
<1>16. CrossDirection(b) # CrossDirection(a)
  BY <1>2, <1>13, <1>15, CrossingOnce
<1> QED
  BY <1>4, <1>11, <1>13, <1>16

(* The bands of a bar rest on those of the bar before and on its range.     *)
Turn(was, second, bar, before, range) ==
  LET Band == TrendMultiple * range
      upper == (((bar.h + bar.l) * Unit) \div 2) + Band
      lower == (((bar.h + bar.l) * Unit) \div 2) - Band
  IN IF second THEN [up |-> was.up, upper |-> upper, lower |-> lower]
     ELSE [up |-> IF bar.c * Unit > was.upper THEN 1 ELSE IF bar.c * Unit < was.lower THEN -1 ELSE was.up,
           upper |-> IF before.c * Unit <= was.upper /\ was.upper < upper THEN was.upper ELSE upper,
           lower |-> IF before.c * Unit >= was.lower /\ was.lower > lower THEN was.lower ELSE lower]
Turned(out, f, range, n) ==
  out = [i \in 1 .. n |-> IF i = 1 THEN [up |-> 1, upper |-> -1, lower |-> -1]
                          ELSE Turn(out[i - 1], i = 2, f[i], f[i - 1], range[i - 1])]

LEMMA TurnsAreThere ==
  ASSUME NEW f, NEW range, NEW n \in Nat
  PROVE  \E out : Turned(out, f, range, n)
<1> DEFINE bad == {j \in 0 .. n : ~ \E out : Turned(out, f, range, j)}
           At(out, j) == IF j = 1 THEN [up |-> 1, upper |-> -1, lower |-> -1]
                         ELSE Turn(out[j - 1], j = 2, f[j], f[j - 1], range[j - 1])
<1> SUFFICES ASSUME bad # {} PROVE FALSE
  OBVIOUS
<1>1. bad \in SUBSET Nat
  OBVIOUS
<1> HIDE DEF bad
<1>2. PICK j \in bad : \A i \in bad : j <= i
  BY <1>1, LeastElement
<1>3. j \in 0 .. n /\ ~ \E out : Turned(out, f, range, j)
  BY DEF bad
<1>4. CASE j = 0
  <2>1. Turned([i \in 1 .. 0 |-> 0], f, range, 0)
    BY DEF Turned
  <2> QED
    BY <1>3, <1>4, <2>1
<1>5. CASE j # 0
  <2>1. j - 1 \in 0 .. n /\ j - 1 \notin bad
    BY <1>2, <1>3, <1>5
  <2>2. PICK out : Turned(out, f, range, j - 1)
    BY <2>1 DEF bad
  <2> DEFINE next == [k \in 1 .. j |-> IF k = j THEN At(out, j) ELSE out[k]]
  <2>3. \A k \in 1 .. j : next[k] = At(next, k)
    <3> TAKE k \in 1 .. j
    <3>1. CASE k = j
      BY <1>3, <1>5, <3>1
    <3>2. CASE k # j
      <4>1. k \in 1 .. j - 1 /\ next[k] = out[k] /\ (k # 1 => k - 1 \in 1 .. j /\ k - 1 # j /\ next[k - 1] = out[k - 1])
        BY <1>3, <3>2
      <4>2. out[k] = At(out, k)
        BY <2>2, <4>1 DEF Turned
      <4> QED
        BY <4>1, <4>2
    <3> QED
      BY <3>1, <3>2
  <2>4. Turned(next, f, range, j)
    BY <2>3 DEF Turned
  <2> QED
    BY <1>3, <2>4
<1> QED
  BY <1>4, <1>5

Alike(f, g, m) == \A i \in 1 .. m : f[i] = g[i]

LEMMA TurnsAreOne ==
  ASSUME NEW f, NEW g, NEW range, NEW reach, NEW n \in Nat, NEW m \in 0 .. n, Alike(f, g, m), Alike(range, reach, m),
         NEW t, NEW u, Turned(t, f, range, n), Turned(u, g, reach, m)
  PROVE  \A i \in 1 .. m : t[i] = u[i]
<1> DEFINE bad == {i \in 1 .. m : t[i] # u[i]}
<1> SUFFICES ASSUME bad # {} PROVE FALSE
  OBVIOUS
<1>1. bad \in SUBSET Nat
  OBVIOUS
<1> HIDE DEF bad
<1>2. PICK k \in bad : \A i \in bad : k <= i
  BY <1>1, LeastElement
<1>3. k \in 1 .. m /\ t[k] # u[k] /\ k \in 1 .. n /\ f[k] = g[k]
  BY DEF bad, Alike
<1>4. t[k] = IF k = 1 THEN [up |-> 1, upper |-> -1, lower |-> -1] ELSE Turn(t[k - 1], k = 2, f[k], f[k - 1], range[k - 1])
  BY <1>3 DEF Turned
<1>5. u[k] = IF k = 1 THEN [up |-> 1, upper |-> -1, lower |-> -1] ELSE Turn(u[k - 1], k = 2, g[k], g[k - 1], reach[k - 1])
  BY <1>3 DEF Turned
<1>6. k # 1
  BY <1>3, <1>4, <1>5
<1>7. k - 1 \in 1 .. m /\ k - 1 \notin bad
  BY <1>2, <1>3, <1>6
<1>8. t[k - 1] = u[k - 1] /\ f[k - 1] = g[k - 1] /\ range[k - 1] = reach[k - 1]
  BY <1>7 DEF bad, Alike
<1> QED
  BY <1>3, <1>4, <1>5, <1>6, <1>8

LEMMA SuperTrendIs ==
  ASSUME NEW f, NEW n \in Nat, DOMAIN f = 1 .. n
  PROVE  Turned(SuperTrend(f), f, Atr(f, TrendPeriod), n)
<1> DEFINE out == CHOOSE t : Turned(t, f, Atr(f, TrendPeriod), n)
<1>1. Turned(out, f, Atr(f, TrendPeriod), n)
  BY TurnsAreThere
<1>2. SuperTrend(f) = out
  BY DEF SuperTrend, Turned, Turn
<1> QED
  BY <1>1, <1>2

LEMMA TrendFlipOnce ==
  ASSUME NEW f \in Seq(Bars), f # <<>>, TrendFlip(f) # No
  PROVE  TrendFlip(Front(f)) # TrendFlip(f)
<1>1. PICK n \in Nat : \E m \in 0 .. n : n = Len(f) /\ n = m + 1 /\ m = Len(Front(f)) /\ RunsAs(Front(f), f, m, n)
  BY ClosesBegin
<1>2. PICK m \in 0 .. n : n = Len(f) /\ n = m + 1 /\ m = Len(Front(f)) /\ RunsAs(Front(f), f, m, n)
  BY <1>1
<1>3. PICK g : g = Front(f)
  OBVIOUS
<1>4. DOMAIN f = 1 .. n /\ DOMAIN g = 1 .. m /\ m \in Nat /\ \A i \in 1 .. m : f[i] = g[i] /\ i \in 1 .. n
  BY <1>2, <1>3 DEF RunsAs
<1>5. RunsAs(InUnits(TrueRange(g)), InUnits(TrueRange(f)), m, n)
  <2>1. DOMAIN TrueRange(f) = 1 .. n /\ DOMAIN TrueRange(g) = 1 .. m
    BY <1>4 DEF TrueRange
  <2>2. \A i \in 1 .. m : TrueRange(f)[i] = TrueRange(g)[i]
    <3> TAKE i \in 1 .. m
    <3>1. f[i] = g[i] /\ i \in 1 .. n /\ (i # 1 => f[i - 1] = g[i - 1])
      BY <1>4
    <3>2. TrueRange(f)[i] = IF i = 1 THEN f[i].h - f[i].l ELSE Highest(<<f[i].h - f[i].l, Size(f[i].h - f[i - 1].c), Size(f[i].l - f[i - 1].c)>>)
      BY <1>4, <3>1 DEF TrueRange
    <3>3. TrueRange(g)[i] = IF i = 1 THEN g[i].h - g[i].l ELSE Highest(<<g[i].h - g[i].l, Size(g[i].h - g[i - 1].c), Size(g[i].l - g[i - 1].c)>>)
      BY <1>4, <3>1 DEF TrueRange
    <3> QED
      BY <3>1, <3>2, <3>3
  <2>3. \A i \in 1 .. m : i \in 1 .. n
    BY <1>4
  <2> QED
    BY <2>1, <2>2, <2>3 DEF RunsAs, InUnits
<1>6. PICK range, reach : range = Atr(f, TrendPeriod) /\ reach = Atr(g, TrendPeriod)
  OBVIOUS
<1>7. RunsAs(reach, range, m, n)
  BY <1>5, <1>6, EwmBegins DEF Atr
<1>8. PICK t, u : t = SuperTrend(f) /\ u = SuperTrend(g)
  OBVIOUS
<1>9. Turned(t, f, range, n) /\ Turned(u, g, reach, m)
  BY <1>4, <1>6, <1>8, SuperTrendIs
<1>10. \A i \in 1 .. m : t[i] = u[i]
  <2>1. Alike(f, g, m) /\ Alike(range, reach, m)
    BY <1>4, <1>7 DEF Alike, RunsAs
  <2> QED
    BY <1>9, <2>1, TurnsAreOne
<1>11. PICK a, b : a = [i \in DOMAIN f |-> t[i].up = 1] /\ b = [i \in DOMAIN g |-> u[i].up = 1]
  OBVIOUS
<1>12. TrendFlip(f) = CrossDirection(a) /\ TrendFlip(g) \in {No, CrossDirection(b)}
  BY <1>8, <1>11 DEF TrendFlip
<1>13. a = [i \in 1 .. n |-> a[i]] /\ b = [i \in 1 .. m |-> b[i]] /\ \A i \in 1 .. m : a[i] = b[i]
  BY <1>4, <1>10, <1>11
<1>14. CrossDirection(b) # CrossDirection(a)
  BY <1>2, <1>12, <1>13, CrossingOnce
<1> QED
  BY <1>3, <1>12, <1>14

(* The rules on yesterday's levels, in whatever unit the closes are.        *)
Magnified(f, k) == [i \in DOMAIN f |-> [f[i] EXCEPT !.c = k * @]]

LEMMA MagnifiedOnce ==
  ASSUME NEW f \in Seq(Bars), f # <<>>, NEW k \in Int, NEW high \in Int, NEW low \in Int, CrossedOut(Magnified(f, k), high, low) # No
  PROVE  CrossedOut(Magnified(Front(f), k), high, low) = No
<1>1. PICK n \in Nat : \E m \in 0 .. n : n = Len(f) /\ n = m + 1 /\ m = Len(Front(f)) /\ RunsAs(Front(f), f, m, n)
  BY ClosesBegin
<1>2. PICK m \in 0 .. n : n = Len(f) /\ n = m + 1 /\ m = Len(Front(f)) /\ RunsAs(Front(f), f, m, n)
  BY <1>1
<1>3. PICK a, b : a = Magnified(f, k) /\ b = Magnified(Front(f), k)
  OBVIOUS
<1>4. DOMAIN f = 1 .. n /\ DOMAIN Front(f) = 1 .. m /\ \A i \in 1 .. m : Front(f)[i] = f[i] /\ i \in 1 .. n
  BY <1>2 DEF RunsAs
<1>5. a = [i \in 1 .. n |-> a[i]] /\ b = [i \in 1 .. m |-> b[i]] /\ \A i \in 1 .. m : a[i] = b[i]
  BY <1>3, <1>4 DEF Magnified
<1>6. \A i \in 1 .. n : a[i].c \in Int
  <2> TAKE i \in 1 .. n
  <2>1. f[i] \in Bars /\ f[i].c \in Int
    BY <1>2, ClosesAreNumbers
  <2>2. a[i] = [f[i] EXCEPT !.c = k * @]
    BY <1>3, <1>4 DEF Magnified
  <2>3. a[i].c = k * f[i].c
    BY <2>1, <2>2 DEF Bars
  <2> QED
    BY <2>1, <2>3
<1>7. PICK S : S = {a[i] : i \in 1 .. n}
  OBVIOUS
<1>8. PICK T : T = {b[i] : i \in 1 .. m}
  OBVIOUS
<1>9. a \in [1 .. n -> S] /\ b \in [1 .. m -> T] /\ m \in Nat
  BY <1>5, <1>7, <1>8
<1>10. a \in Seq(S) /\ Len(a) = n
  BY <1>9
<1>11. b \in Seq(T) /\ Len(b) = m
  BY <1>9
<1>12. n >= 2 /\ low <= a[n - 1].c /\ a[n - 1].c <= high
  BY <1>3, <1>10 DEF CrossedOut
<1>13. Last(b) = b[m] /\ m \in 1 .. m /\ m \in 1 .. n /\ m = n - 1 /\ b[m] = a[n - 1]
  <2>1. n = m + 1 /\ m \in Nat /\ m >= 1
    BY <1>2, <1>12
  <2>2. m \in 1 .. m /\ m \in 1 .. n /\ m = n - 1
    BY <2>1
  <2> QED
    BY <1>5, <1>11, <2>2 DEF Last
<1>14. PICK c \in Int : c = Last(b).c /\ low <= c /\ c <= high
  BY <1>6, <1>12, <1>13
<1>15. ~ (c > high) /\ ~ (c < low)
  BY <1>14
<1>16. Toward(Last(b).c > high, Last(b).c < low) = No
  BY <1>14, <1>15 DEF Toward
<1>17. CrossedOut(b, high, low) = No
  BY <1>16 DEF CrossedOut
<1> QED
  BY <1>3, <1>17

LEMMA LevelsOnce ==
  ASSUME NEW f \in Seq(Bars), Len(f) >= 2, previous \in Yesterdays
  PROVE  /\ PreviousDay(f) # No => PreviousDay(Front(f)) = No
         /\ Pivot(f) # No => Pivot(Front(f)) = No
         /\ Camarilla(f) # No => Camarilla(Front(f)) = No
<1>1. f # <<>>
  OBVIOUS
<1>2. CASE previous = <<>>
  BY <1>2 DEF PreviousDay, Pivot, Camarilla
<1>3. CASE previous # <<>>
  <2>1. PICK h \in Int, l \in Int, c \in Int : previous.h = h /\ previous.l = l /\ previous.c = c
    BY <1>3, SignalsAssumed
  <2>2. PreviousDay(f) # No => PreviousDay(Front(f)) = No
    <3>1. PreviousDay(f) = CrossedOut(f, h, l) /\ PreviousDay(Front(f)) = CrossedOut(Front(f), h, l)
      BY <1>3, <2>1 DEF PreviousDay
    <3> QED
      BY <3>1, CrossedOutOnce, ClosesAreNumbers
  <2>3. Pivot(f) # No => Pivot(Front(f)) = No
    <3> DEFINE up == 2 * (h + l + c) - 3 * l
               down == 2 * (h + l + c) - 3 * h
    <3>1. Pivot(f) = CrossedOut(Magnified(f, 3), up, down) /\ Pivot(Front(f)) = CrossedOut(Magnified(Front(f), 3), up, down)
      BY <1>3, <2>1 DEF Pivot, Thrice, Magnified
    <3>2. up \in Int /\ down \in Int
      OBVIOUS
    <3> HIDE DEF up, down
    <3> QED
      BY <1>1, <3>1, <3>2, MagnifiedOnce
  <2>4. Camarilla(f) # No => Camarilla(Front(f)) = No
    <3> DEFINE up == 20 * c + 11 * (h - l)
               down == 20 * c - 11 * (h - l)
    <3>1. Camarilla(f) = CrossedOut(Magnified(f, 20), up, down) /\ Camarilla(Front(f)) = CrossedOut(Magnified(Front(f), 20), up, down)
      BY <1>3, <2>1 DEF Camarilla, Magnified
    <3>2. up \in Int /\ down \in Int
      OBVIOUS
    <3> HIDE DEF up, down
    <3> QED
      BY <1>1, <3>1, <3>2, MagnifiedOnce
  <2> QED
    BY <2>2, <2>3, <2>4
<1> QED
  BY <1>2, <1>3

LEMMA CrossingsOnce ==
  ASSUME NEW f, Whole(f), Len(f) >= 2, previous \in Yesterdays, NEW r \in Crossings, Decide(r, f) # No
  PROVE  Decide(r, Front(f)) # Decide(r, f)
<1>1. f \in Seq(Bars)
  BY DEF Whole
<1>2. f # <<>>
  BY <1>1
<1>3. CASE r = "orb60"
  <2>1. Decide(r, f) = OrbRule(f) /\ Decide(r, Front(f)) = OrbRule(Front(f))
    BY <1>3 DEF Decide
  <2> QED
    BY <1>1, <2>1, RangeRulesOnce
<1>4. CASE r = "tight"
  <2>1. Decide(r, f) = TightRange(f) /\ Decide(r, Front(f)) = TightRange(Front(f))
    BY <1>4 DEF Decide
  <2> QED
    BY <1>1, <2>1, RangeRulesOnce
<1>5. CASE r = "orb"
  <2>1. Decide(r, f) = Orb(f) /\ Decide(r, Front(f)) = Orb(Front(f))
    BY <1>5 DEF Decide
  <2> QED
    BY <2>1, OrbOnce
<1>6. CASE r = "inside"
  <2>1. Decide(r, f) = InsideBar(f) /\ Decide(r, Front(f)) = InsideBar(Front(f))
    BY <1>6 DEF Decide
  <2> QED
    BY <2>1, InsideOnce
<1>7. CASE r = "ema"
  <2>1. Decide(r, f) = EmaCross(f) /\ Decide(r, Front(f)) = EmaCross(Front(f))
    BY <1>7 DEF Decide
  <2> QED
    BY <1>1, <1>2, <2>1, EmaCrossOnce
<1>8. CASE r = "macd"
  <2>1. Decide(r, f) = MacdCross(f) /\ Decide(r, Front(f)) = MacdCross(Front(f))
    BY <1>8 DEF Decide
  <2> QED
    BY <1>1, <1>2, <2>1, MacdCrossOnce
<1>9. CASE r = "trend"
  <2>1. Decide(r, f) = TrendFlip(f) /\ Decide(r, Front(f)) = TrendFlip(Front(f))
    BY <1>9 DEF Decide
  <2> QED
    BY <1>1, <1>2, <2>1, TrendFlipOnce
<1>10. CASE r = "levels"
  <2>1. Decide(r, f) = PreviousDay(f) /\ Decide(r, Front(f)) = PreviousDay(Front(f))
    BY <1>10 DEF Decide
  <2> QED
    BY <1>1, <2>1, LevelsOnce
<1>11. CASE r = "pivot"
  <2>1. Decide(r, f) = Pivot(f) /\ Decide(r, Front(f)) = Pivot(Front(f))
    BY <1>11 DEF Decide
  <2> QED
    BY <1>1, <2>1, LevelsOnce
<1>12. CASE r = "camarilla"
  <2>1. Decide(r, f) = Camarilla(f) /\ Decide(r, Front(f)) = Camarilla(Front(f))
    BY <1>12 DEF Decide
  <2> QED
    BY <1>1, <2>1, LevelsOnce
<1> QED
  BY <1>3, <1>4, <1>5, <1>6, <1>7, <1>8, <1>9, <1>10, <1>11, <1>12 DEF Crossings

-----------------------------------------------------------------------------
(* The day so far: whole bars, one to a minute and none of a minute to      *)
(* come; while they came in on time, a kept frame lacks the last at most.   *)
Punctual(f) == \A i \in 1 .. Len(f) : f[i].seen = f[i].at + 1
Past(f) == \A i \in 1 .. Len(f) : f[i].at < minute
KeptUpToTheLast == Punctual(tape) => kept = tape \/ (tape # <<>> /\ kept = Front(tape))
SignalInv == /\ minute \in 0 .. LastMinute /\ tape \in Seq(Bars) /\ kept \in Seq(Bars) /\ previous \in Yesterdays
             /\ Whole(tape) /\ Past(tape) /\ KeptUpToTheLast

LEMMA FrontOfAppend ==
  ASSUME NEW S, NEW f \in Seq(S), NEW b \in S
  PROVE  Front(Append(f, b)) = f /\ f \o <<b>> = Append(f, b) /\ Append(f, b) # <<>>
<1>1. PICK n \in Nat : n = Len(f)
  OBVIOUS
<1>2. PICK g \in Seq(S) : g = Append(f, b) /\ Len(g) = n + 1 /\ \A i \in 1 .. n : g[i] = f[i]
  <2>1. /\ Append(f, b) \in Seq(S) /\ Len(Append(f, b)) = Len(f) + 1
        /\ \A i \in 1 .. Len(f) : Append(f, b)[i] = f[i]
    BY AppendIs
  <2> QED
    BY <1>1, <2>1
<1>3. g # <<>>
  BY <1>1, <1>2
<1>4. Front(g) \in Seq(S) /\ Len(Front(g)) = n /\ \A i \in 1 .. n : Front(g)[i] = f[i]
  <2>1. Front(g) \in Seq(S) /\ Len(Front(g)) = Len(g) - 1 /\ \A i \in 1 .. Len(g) - 1 : Front(g)[i] = g[i]
    BY <1>2, <1>3, FrontIs
  <2>2. Len(g) - 1 = n
    BY <1>1, <1>2
  <2> QED
    BY <1>2, <2>1, <2>2
<1>5. PICK h \in Seq(S) : h = Front(g) /\ Len(h) = n /\ \A i \in 1 .. n : h[i] = f[i]
  BY <1>4
<1>6. h = f
  BY <1>1, <1>5
<1>7. f \o <<b>> = Append(f, b)
  OBVIOUS
<1> QED
  BY <1>2, <1>3, <1>5, <1>6, <1>7

LEMMA AllIsSeenInTime ==
  ASSUME SignalInv, Punctual(tape)
  PROVE  BarsAsof(minute) = tape /\ VisibleAt(minute) = tape /\ Extended(minute) = tape
<1>1. minute \in Nat /\ tape \in Seq(Bars) /\ kept \in Seq(Bars)
  BY SignalsAssumed DEF SignalInv
<1>2. \A i \in 1 .. Len(tape) : tape[i] \in Bars /\ tape[i].at \in Nat /\ tape[i].at + 1 <= minute /\ tape[i].seen = tape[i].at + 1
  <2> TAKE i \in 1 .. Len(tape)
  <2>1. tape[i] \in Bars /\ tape[i].at \in Nat
    BY <1>1, ClosesAreNumbers
  <2>2. tape[i].at < minute /\ tape[i].seen = tape[i].at + 1
    BY DEF SignalInv, Past, Punctual
  <2> QED
    BY <1>1, <2>1, <2>2
<1>3. \A i \in 1 .. Len(tape) : tape[i] \in Closed(minute) /\ tape[i] \in {bar \in Closed(minute) : bar.seen <= minute}
  BY <1>2 DEF Closed
<1>4. BarsAsof(minute) = tape /\ VisibleAt(minute) = tape
  BY <1>1, <1>3, OnlyAll DEF BarsAsof, VisibleAt
<1>5. Extended(minute) = IF kept = <<>> THEN tape ELSE kept \o Only(tape, NotBefore(Last(kept).at + 1))
  BY <1>4 DEF Extended, ContextBars
<1>6. \A i, j \in 1 .. Len(tape) : i < j => tape[i].at < tape[j].at
  BY DEF SignalInv, Whole, Ordered
<1>7. CASE kept = <<>>
  BY <1>4, <1>5, <1>7
<1>8. CASE kept # <<>> /\ kept = tape
  <2>1. Last(kept) = tape[Len(tape)] /\ Len(tape) \in 1 .. Len(tape)
    BY <1>1, <1>8 DEF Last
  <2>2. PICK a \in Nat : a = Last(kept).at
    BY <1>2, <2>1
  <2>3. \A i \in 1 .. Len(tape) : tape[i] \notin NotBefore(Last(kept).at + 1)
    <3> TAKE i \in 1 .. Len(tape)
    <3>1. tape[i].at <= a
      <4>1. i = Len(tape) \/ i < Len(tape)
        BY <1>1
      <4> QED
        BY <1>2, <1>6, <2>1, <2>2, <4>1
    <3> QED
      BY <1>2, <2>2, <3>1 DEF NotBefore
  <2>4. Only(tape, NotBefore(Last(kept).at + 1)) = <<>>
    BY <1>1, <2>3, OnlyNone
  <2>5. kept \o <<>> = kept
    BY <1>1
  <2> QED
    BY <1>4, <1>5, <1>8, <2>4, <2>5
<1>9. CASE kept # <<>> /\ tape # <<>> /\ kept = Front(tape)
  <2>1. /\ Len(kept) = Len(tape) - 1 /\ Len(tape) \in Nat \ {0} /\ Last(tape) = tape[Len(tape)] /\ Last(tape) \in Bars
        /\ \A i \in 1 .. Len(tape) - 1 : kept[i] = tape[i]
    BY <1>1, <1>9, FrontIs
  <2>2. Last(kept) = tape[Len(tape) - 1] /\ Len(tape) - 1 \in 1 .. Len(tape) /\ Len(kept) \in 1 .. Len(kept)
    <3>1. Len(kept) \in Nat \ {0} /\ Last(kept) = kept[Len(kept)]
      BY <1>1, <1>9 DEF Last
    <3> QED
      BY <2>1, <3>1
  <2>3. PICK a \in Nat : a = Last(kept).at
    BY <1>2, <2>2
  <2>4. \A i \in 1 .. Len(kept) : kept[i] \notin NotBefore(Last(kept).at + 1)
    <3> TAKE i \in 1 .. Len(kept)
    <3>1. i \in 1 .. Len(tape) /\ kept[i] = tape[i] /\ (i = Len(tape) - 1 \/ i < Len(tape) - 1)
      BY <2>1
    <3>2. tape[i].at <= a
      BY <1>2, <1>6, <2>2, <2>3, <3>1
    <3> QED
      BY <1>2, <2>3, <3>1, <3>2 DEF NotBefore
  <2>5. Only(kept, NotBefore(Last(kept).at + 1)) = <<>>
    BY <1>1, <2>4, OnlyNone
  <2>6. Last(tape) \in NotBefore(Last(kept).at + 1)
    <3>1. Len(tape) \in 1 .. Len(tape) /\ Len(tape) - 1 < Len(tape)
      BY <2>1
    <3>2. a < Last(tape).at /\ Last(tape).at \in Nat
      BY <1>2, <1>6, <2>1, <2>2, <2>3, <3>1
    <3> QED
      BY <2>1, <2>3, <3>2 DEF NotBefore
  <2>7. Only(tape, NotBefore(Last(kept).at + 1)) = Append(<<>>, Last(tape))
    BY <1>1, <1>9, <2>5, <2>6, OnlyOfMore
  <2>8. kept \o Append(<<>>, Last(tape)) = Append(kept, Last(tape))
    BY <1>1, <2>1
  <2>9. tape = Append(kept, Last(tape))
    BY <1>1, <1>9, FrontIs
  <2> QED
    BY <1>4, <1>5, <1>9, <2>7, <2>8, <2>9
<1> QED
  BY <1>7, <1>8, <1>9 DEF SignalInv, KeptUpToTheLast

LEMMA ExtendedIsAFrame ==
  ASSUME SignalInv
  PROVE  Extended(minute) \in Seq(Bars) /\ BarsAsof(minute) \in Seq(Bars) /\ Whole(BarsAsof(minute))
<1>1. tape \in Seq(Bars) /\ kept \in Seq(Bars) /\ Whole(tape)
  BY DEF SignalInv
<1> DEFINE some == {bar \in Closed(minute) : bar.seen <= minute}
<1>2. BarsAsof(minute) = Only(tape, some)
  BY DEF BarsAsof
<1> HIDE DEF some
<1>3. PICK f \in Seq(Bars) : f = BarsAsof(minute) /\ TakenFrom(f, tape, some)
  BY <1>1, <1>2, OnlyIsOfTheFrame DEF TakenFrom
<1>4. Ordered(f) /\ \A i \in 1 .. Len(f) : f[i].l <= f[i].c /\ f[i].c <= f[i].h
  BY <1>1, <1>3 DEF TakenFrom, Whole
<1>5. Whole(f)
  BY <1>4 DEF Whole
<1>6. PICK g \in Seq(Bars) : g = Only(f, NotBefore(Last(kept).at + 1))
  BY OnlyIsOfTheFrame DEF TakenFrom
<1>7. kept \o g \in Seq(Bars)
  BY <1>1
<1>8. Extended(minute) \in {f, kept \o g}
  BY <1>3, <1>6 DEF Extended, ContextBars
<1> QED
  BY <1>3, <1>5, <1>7, <1>8

LEMMA PassKeeps ==
  ASSUME SignalInv, NEW bars, Pass(bars),
         bars = <<>> \/ \E b \in Bars : bars = <<b>> /\ b.at = minute /\ b.l <= b.c /\ b.c <= b.h
  PROVE  SignalInv'
<1>1. PICK m \in Nat : m = minute /\ minute' = m + 1 /\ m + 1 \in 0 .. LastMinute
  BY SignalsAssumed DEF SignalInv, Pass
<1>2. PICK t \in Seq(Bars) : t = tape /\ Ordered(t) /\ (\A i \in 1 .. Len(t) : t[i].l <= t[i].c /\ t[i].c <= t[i].h) /\ \A i \in 1 .. Len(t) : t[i].at < m
  BY <1>1 DEF SignalInv, Whole, Past
<1>3. kept' = Extended(minute) /\ kept' \in Seq(Bars) /\ previous' \in Yesterdays /\ tape' = t \o bars
  BY <1>2, ExtendedIsAFrame DEF Pass, SignalInv
<1>4. \A i \in 1 .. Len(t) : t[i].at \in Nat /\ t[i].at < m + 1
  BY <1>1, <1>2, ClosesAreNumbers
<1>5. Punctual(t) => kept' = t
  BY <1>2, <1>3, AllIsSeenInTime
<1>6. CASE bars = <<>>
  <2>1. tape' = t
    BY <1>3, <1>6
  <2>2. Whole(tape)' /\ Past(tape)'
    BY <1>1, <1>2, <1>4, <2>1 DEF Whole, Past, Ordered
  <2>3. KeptUpToTheLast'
    BY <1>5, <2>1 DEF KeptUpToTheLast, Punctual
  <2> QED
    BY <1>1, <1>3, <2>1, <2>2, <2>3 DEF SignalInv
<1>7. CASE bars # <<>>
  <2>1. PICK b \in Bars : bars = <<b>> /\ b.at = m /\ b.l <= b.c /\ b.c <= b.h
    BY <1>1, <1>7
  <2>2. PICK u \in Seq(Bars) : u = Append(t, b) /\ u = tape' /\ Front(u) = t /\ u # <<>>
    BY <1>3, <2>1, FrontOfAppend, AppendIs
  <2>3. PICK k \in Nat : k = Len(t) /\ Len(u) = k + 1 /\ u[k + 1] = b /\ \A i \in 1 .. k : u[i] = t[i]
    <3>1. /\ Len(t) \in Nat /\ Len(Append(t, b)) = Len(t) + 1 /\ Append(t, b)[Len(t) + 1] = b
          /\ \A i \in 1 .. Len(t) : Append(t, b)[i] = t[i]
      BY AppendIs
    <3> QED
      BY <2>2, <3>1
  <2>4. \A i \in 1 .. k + 1 : i = k + 1 \/ i \in 1 .. k
    OBVIOUS
  <2>5. \A i \in 1 .. Len(u) : u[i].l <= u[i].c /\ u[i].c <= u[i].h /\ u[i].at < m + 1
    <3> TAKE i \in 1 .. Len(u)
    <3>1. CASE i = k + 1
      BY <2>1, <2>3, <3>1
    <3>2. CASE i \in 1 .. k
      BY <1>2, <1>4, <2>3, <3>2
    <3> QED
      BY <2>3, <2>4, <3>1, <3>2
  <2>6. Ordered(u)
    <3> SUFFICES ASSUME NEW i \in 1 .. Len(u), NEW j \in 1 .. Len(u), i < j PROVE u[i].at < u[j].at
      BY DEF Ordered
    <3>1. i \in 1 .. k
      BY <2>3
    <3>2. CASE j = k + 1
      BY <1>2, <2>1, <2>3, <3>1, <3>2
    <3>3. CASE j # k + 1
      <4>1. j \in 1 .. k
        BY <2>3, <3>3
      <4> QED
        BY <1>2, <2>3, <3>1, <4>1 DEF Ordered
    <3> QED
      BY <3>2, <3>3
  <2>7. Whole(u)
    BY <2>5, <2>6 DEF Whole
  <2>8. Whole(tape)' /\ Past(tape)'
    BY <1>1, <2>2, <2>5, <2>7 DEF Whole, Past, Ordered
  <2>9. Punctual(u) => Punctual(t)
    BY <2>3 DEF Punctual
  <2>10. KeptUpToTheLast'
    BY <1>5, <2>2, <2>9 DEF KeptUpToTheLast, Punctual
  <2> QED
    BY <1>1, <1>3, <2>2, <2>8, <2>10 DEF SignalInv
<1> QED
  BY <1>6, <1>7

LEMMA MinuteIsABar ==
  ASSUME SignalInv, minute < LastMinute, NEW shape \in Shapes, NEW late \in {0, 1}
  PROVE  /\ Bar(shape, late) \in Bars /\ Bar(shape, late).at = minute
         /\ Bar(shape, late).l <= Bar(shape, late).c /\ Bar(shape, late).c <= Bar(shape, late).h
<1>1. /\ shape.o \in Int /\ shape.h \in Int /\ shape.l \in Int /\ shape.c \in Int /\ shape.v \in Nat
      /\ shape.l <= shape.c /\ shape.c <= shape.h
  BY SignalsAssumed
<1>2. minute \in 0 .. LastMinute /\ minute + 1 + late \in 0 .. (LastMinute + 1)
  BY SignalsAssumed DEF SignalInv
<1> QED
  BY <1>1, <1>2 DEF Bar, Bars

(* The signals of a session are causal: the three frames a rule may be      *)
(* given are one and the same as long as every bar so far came in on time,  *)
(* and on a minute whose frame has changed no rule signals the crossing it  *)
(* signals on the frame without its newest bar, though bars be missing or   *)
(* a minute late. An unchanged frame is not looked at again.                *)
THEOREM SignalsStayCausal == SignalSpec => []SignalsAreCausal
<1>1. SignalInit => SignalInv
  <2> SUFFICES ASSUME SignalInit PROVE SignalInv
    OBVIOUS
  <2>1. minute = 0 /\ tape = <<>> /\ kept = <<>> /\ previous \in Yesterdays /\ 0 \in 0 .. LastMinute
    BY SignalsAssumed DEF SignalInit
  <2>2. tape \in Seq(Bars) /\ \A i \in 1 .. Len(tape) : FALSE
    BY <2>1
  <2> QED
    BY <2>1, <2>2 DEF SignalInv, Whole, Ordered, Past, KeptUpToTheLast
<1>2. SignalInv /\ [SignalNext]_signalVars => SignalInv'
  <2> SUFFICES ASSUME SignalInv, [SignalNext]_signalVars PROVE SignalInv'
    OBVIOUS
  <2>1. CASE OnTime
    <3>1. PICK shape \in Shapes : Pass(<<Bar(shape, 0)>>)
      BY <2>1 DEF OnTime
    <3>2. minute < LastMinute
      BY <3>1 DEF Pass
    <3>3. \E b \in Bars : <<Bar(shape, 0)>> = <<b>> /\ b.at = minute /\ b.l <= b.c /\ b.c <= b.h
      BY <3>2, MinuteIsABar
    <3> QED
      BY <3>1, <3>3, PassKeeps
  <2>2. CASE Late
    <3>1. PICK shape \in Shapes : Pass(<<Bar(shape, 1)>>)
      BY <2>2 DEF Late
    <3>2. minute < LastMinute
      BY <3>1 DEF Pass
    <3>3. \E b \in Bars : <<Bar(shape, 1)>> = <<b>> /\ b.at = minute /\ b.l <= b.c /\ b.c <= b.h
      BY <3>2, MinuteIsABar
    <3> QED
      BY <3>1, <3>3, PassKeeps
  <2>3. CASE Missing
    <3>1. Pass(<<>>)
      BY <2>3 DEF Missing
    <3> QED
      BY <3>1, PassKeeps
  <2>4. CASE UNCHANGED signalVars
    <3>1. minute' = minute /\ tape' = tape /\ kept' = kept /\ previous' = previous
      BY <2>4 DEF signalVars
    <3>2. (Whole(tape) <=> Whole(tape)') /\ (Past(tape) <=> Past(tape)') /\ (KeptUpToTheLast <=> KeptUpToTheLast')
      BY <3>1 DEF Whole, Ordered, Past, KeptUpToTheLast, Punctual
    <3> QED
      BY <3>1, <3>2 DEF SignalInv
  <2> QED
    BY <2>1, <2>2, <2>3, <2>4 DEF SignalNext
<1>3. SignalInv => SignalsAreCausal
  <2> SUFFICES ASSUME SignalInv PROVE SignalsAreCausal
    OBVIOUS
  <2>1. SignalTypeOK
    BY DEF SignalInv, SignalTypeOK, SessionCaches
  <2>2. SameFrame
    <3> SUFFICES ASSUME \A i \in DOMAIN tape : tape[i].seen = tape[i].at + 1
                 PROVE  Extended(minute) = BarsAsof(minute) /\ VisibleAt(minute) = BarsAsof(minute)
      BY DEF SameFrame
    <3>1. DOMAIN tape = 1 .. Len(tape)
      BY DEF SignalInv
    <3>2. Punctual(tape)
      BY <3>1 DEF Punctual
    <3> QED
      BY <3>2, AllIsSeenInTime
  <2>3. OncePerCrossing
    <3>1. Whole(BarsAsof(minute)) /\ previous \in Yesterdays
      BY ExtendedIsAFrame DEF SignalInv
    <3> QED
      BY <3>1, CrossingsOnce DEF OncePerCrossing
  <2> QED
    BY <2>1, <2>2, <2>3 DEF SignalsAreCausal
<1> QED
  BY <1>1, <1>2, <1>3, PTL DEF SignalSpec

===============================================================================
