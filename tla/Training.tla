-------------------------------- MODULE Training --------------------------------
(***************************************************************************)
(* The nightly training of the shadow model: the purged walk-forward folds *)
(* and their inner search (te/ml/train.py, te/ml/cv.py), every trial of it *)
(* in the ledger (te/ml/trials.py), the registration of the result         *)
(* (te/ml/nightly.py, te/ml/registry.py) and the provider that hands the   *)
(* newest model to the trading cycle.                                      *)
(*                                                                         *)
(* A row of the sample is [p, e, y]: predicted in minute p, its label ends *)
(* with the bar of minute e. The job and the cycle run in two threads of   *)
(* one process; the ledger and the registry outlive it.                    *)
(***************************************************************************)
EXTENDS Integers, Sequences, FiniteSets, SequencesExt

CONSTANTS MinSamples,     \* MIN_SAMPLES_TO_TRAIN and the rows a feature needs, whichever is more
          OuterSplits, InnerSplits,
          Grids,          \* of the backends that may be asked for, their parameter grids
          TabIclRows,     \* MIN_TABICL_TRAINING_ROWS
          NextRows,         \* what the next labelled firing may be: [later, lasts, y]
          MaxRows, MaxNights, MaxCalls

ModelBackend == {"xgboost", "catboost", "random_forest", "tabicl"}

(* No backend gets a wider search than another.                             *)
GridsOfOneSize == \A b, c \in DOMAIN Grids : Grids[b] # {} /\ Cardinality(Grids[b]) = Cardinality(Grids[c])

ASSUME TrainingAssumption ==
  /\ MinSamples \in Nat \ {0} /\ OuterSplits \in Nat \ {0, 1} /\ InnerSplits \in Nat \ {0, 1}
  /\ DOMAIN Grids \subseteq ModelBackend /\ GridsOfOneSize /\ TabIclRows \in Nat
  /\ NextRows \subseteq [later : Nat, lasts : Nat \ {0}, y : {0, 1}]
  /\ MaxRows \in Nat /\ MaxNights \in Nat /\ MaxCalls \in Nat

VARIABLES
  sample,    \* the labelled firings, by their time
  ledger,    \* trial_ledger: the frame size of each trial's run
  models,    \* model_registry: [version, frame, trials], and the fits tried by then
  training,  \* the job: [at, frame, done, backend]
  nights,
  shadow,    \* the provider: the id it remembers and the model it holds, 0 for none
  call,      \* its call under way: [at, asked, found]
  served,    \* what the calls answered: [asked, model]
  tried      \* ghost: the fits scored so far, by frame size

trainingVars == <<sample, ledger, models, training, nights, shadow, call, served, tried>>

Asleep == [at |-> "idle", frame |-> 0, done |-> 0, backend |-> "xgboost"]
NoCall == [at |-> "idle", asked |-> 0, found |-> 0]
NoShadow == [id |-> 0, model |-> 0]

(* np.array_split: n rows in k blocks, the longer ones first.               *)
BlockEnd(n, k, b) == b * (n \div k) + (IF b < n % k THEN b ELSE n % k)
Block(n, k, b) == (BlockEnd(n, k, b - 1) + 1)..BlockEnd(n, k, b)
Blocks(n, k) == {b \in 1..k : Block(n, k, b) # {}}

(* A fold purged with no horizon of the labels.                             *)
NoHorizon(rows) == 0

(* _max_label_horizon: the longest life of a label that is there.           *)
Horizon(rows) == LET lives == {rows[i].e - rows[i].p : i \in DOMAIN rows}
                 IN CHOOSE h \in lives : \A g \in lives : g <= h

(* purge_and_embargo: a training row goes whose label's life [p, e) meets   *)
(* that of a test row, widened by the gap; so does one predicted within the *)
(* embargo after a test row.                                                *)
Purged(rows, train, test, gap, embargo) ==
  {i \in train : \A j \in test :
     /\ rows[i].e <= rows[j].p - gap \/ rows[i].p >= rows[j].e + gap
     /\ ~ (rows[j].e <= rows[i].p /\ rows[i].p <= rows[j].e + embargo)}

TwoClasses(rows, some) == Cardinality({rows[i].y : i \in some}) = 2

(* outer_walk_forward_splits: all blocks before a block, purged.            *)
Folds(rows) ==
  LET n == Len(rows)
      Train(b) == Purged(rows, 1..BlockEnd(n, OuterSplits, b - 1), Block(n, OuterSplits, b),
                         Horizon(rows), Horizon(rows))
  IN {[train |-> Train(b), test |-> Block(n, OuterSplits, b)] : b \in Blocks(n, OuterSplits) \ {1}}
Trainable(rows) == {f \in Folds(rows) : TwoClasses(rows, f.train)}

(* The constructors: three fit whatever they are given, the pretrained one  *)
(* refuses a part smaller than it was made for, by a ValueError that ends   *)
(* the search.                                                              *)
MakesEstimator(backend, some) == backend = "tabicl" => Cardinality(some) >= TabIclRows

(* PurgedKFold inside a fold: no horizon, an embargo of a hundredth of the  *)
(* span. A part that cannot be fitted or scored is skipped.                 *)
Within(rows, f) ==
  LET at == SetToSortSeq(f.train, <)
      k == IF Len(at) < InnerSplits THEN Len(at) ELSE InnerSplits
      Validation(b) == {at[i] : i \in Block(Len(at), k, b)}
      ends == {rows[i].e : i \in f.train}
      embargo == ((CHOOSE x \in ends : \A y \in ends : y <= x) - (CHOOSE x \in ends : \A y \in ends : x <= y)) \div 100
      Fitted(b) == Purged(rows, f.train \ Validation(b), Validation(b), 0, embargo)
  IN [b \in {c \in 1..k : k >= 2 /\ TwoClasses(rows, Fitted(c))} |-> Fitted(b)]

(* One trial for each config and each part of each fold it is scored on, or *)
(* none after the first part the backend refuses.                           *)
Search(rows, backend) ==
  Cardinality(Grids[backend]) * FoldFunction(+, 0, [f \in Trainable(rows) |-> Cardinality(DOMAIN Within(rows, f))])
Refuses(rows, backend) == \E f \in Trainable(rows) : \E part \in Range(Within(rows, f)) : ~ MakesEstimator(backend, part)

(* validate_training_set and the guards before it.                          *)
Sound(rows) == /\ Len(rows) >= MinSamples
               /\ Cardinality(Blocks(Len(rows), OuterSplits)) >= 2
               /\ TwoClasses(rows, DOMAIN rows)
               /\ \E f \in Folds(rows) : f.train # {}

(* n_trials: every trial of the scope, which is named for the frame's size. *)
NTrials(frame) == Cardinality({i \in DOMAIN ledger : ledger[i] = frame})
Frame == SubSeq(sample, 1, training.frame)

-----------------------------------------------------------------------------
TrainingInit ==
  /\ sample = <<>> /\ ledger = <<>> /\ models = <<>> /\ training = Asleep /\ nights = 0
  /\ shadow = NoShadow /\ call = NoCall /\ served = {} /\ tried = [n \in 0..MaxRows |-> 0]

(* A session's firings get their labels; some sessions add none.            *)
Firing ==
  /\ training = Asleep /\ Len(sample) < MaxRows
  /\ \E s \in NextRows :
       LET p == (IF sample = <<>> THEN 0 ELSE Last(sample).p) + s.later
       IN sample' = Append(sample, [p |-> p, e |-> p + s.lasts, y |-> s.y])
  /\ UNCHANGED <<ledger, models, training, nights, shadow, call, served, tried>>

(* train_and_register: declines, is refused, or begins its search.          *)
Night ==
  /\ training = Asleep /\ nights < MaxNights
  /\ nights' = nights + 1
  /\ IF Sound(sample)
     THEN \E b \in DOMAIN Grids : training' = [at |-> "search", frame |-> Len(sample), done |-> 0, backend |-> b]
     ELSE UNCHANGED training
  /\ UNCHANGED <<sample, ledger, models, shadow, call, served, tried>>

(* A slip of it: one row in the ledger for the parts of a config.           *)
RecordsOne(done) == done % InnerSplits = 0

(* The search records a trial as soon as it is scored.                      *)
Records(done) == TRUE

(* TrialLedger.record: one more row of the scope; no row is ever deleted.   *)
RecordedTrial(frame) == Append(ledger, frame)
Searched == training.done = Search(Frame, training.backend)

Trial ==
  /\ training.at = "search" /\ ~ Searched
  /\ training' = [training EXCEPT !.done = @ + 1]
  /\ ledger' = IF Records(training.done) THEN RecordedTrial(training.frame) ELSE ledger
  /\ tried' = [tried EXCEPT ![training.frame] = @ + 1]
  /\ UNCHANGED <<sample, models, nights, shadow, call, served>>

(* Nothing is registered, what was tried stays counted: no fold was         *)
(* trainable, the calibrator refuses a fold of one class, or the backend a  *)
(* part of the search, whichever it had come to.                            *)
RefuseModel ==
  /\ training.at = "search" /\ (Searched \/ Refuses(Frame, training.backend))
  /\ training' = Asleep
  /\ UNCHANGED <<sample, ledger, models, nights, shadow, call, served, tried>>

(* register_model: a new row of the registry.                               *)
ModelRecord == [version : Nat \ {0}, frame : 0..MaxRows, trials : Nat, fits : Nat]
Registered(record) == Append(models, record)

(* The model of the last fold, whatever its metrics, as the next version.   *)
Register ==
  /\ training.at = "search" /\ Searched
  /\ Trainable(Frame) # {} /\ ~ Refuses(Frame, training.backend)
  /\ models' = Registered([version |-> IF models = <<>> THEN 1 ELSE Last(models).version + 1,
                           frame |-> training.frame,
                           trials |-> NTrials(training.frame),
                           fits |-> tried[training.frame]])
  /\ training' = Asleep
  /\ UNCHANGED <<sample, ledger, nights, shadow, call, served, tried>>

-----------------------------------------------------------------------------
(* ShadowHookProvider.__call__: looks the newest record up, loads it when   *)
(* it is another than the one it holds.                                     *)
Look ==
  /\ call = NoCall /\ Cardinality(served) < MaxCalls
  /\ call' = [at |-> "load", asked |-> Len(models), found |-> Len(models)]
  /\ UNCHANGED <<sample, ledger, models, training, nights, shadow, served, tried>>

(* A slip of it: the id is remembered before the model is there.            *)
RemembersEarly(found) == [shadow EXCEPT !.id = found]
(* A load that fails leaves the provider as it was.                         *)
AfterFailure(found) == shadow

Answer(m) == served' = served \cup {[asked |-> call.asked, model |-> m]}

Load ==
  /\ call.at = "load"
  /\ \/ /\ call.found = 0 /\ Answer(0) /\ UNCHANGED shadow
     \/ /\ call.found # 0 /\ call.found = shadow.id /\ Answer(shadow.model) /\ UNCHANGED shadow
     \/ /\ call.found # 0 /\ call.found # shadow.id
        /\ \/ /\ shadow' = [id |-> call.found, model |-> call.found] /\ Answer(call.found)
           \/ /\ shadow' = AfterFailure(call.found) /\ Answer(0)
  /\ call' = NoCall
  /\ UNCHANGED <<sample, ledger, models, training, nights, tried>>

(* The process dies: the job and the provider start anew.                   *)
Crash ==
  /\ training # Asleep \/ shadow # NoShadow \/ call # NoCall
  /\ nights < MaxNights /\ nights' = nights + 1
  /\ training' = Asleep /\ shadow' = NoShadow /\ call' = NoCall
  /\ UNCHANGED <<sample, ledger, models, served, tried>>

TrainingNext == \/ Firing \/ Night \/ Trial \/ RefuseModel \/ Register
                \/ Look \/ Load \/ Crash
TrainingSpec == TrainingInit /\ [][TrainingNext]_trainingVars

-----------------------------------------------------------------------------
(* train.py:604-649: the label of every row a fold trains on is settled,    *)
(* its last bar closed, before the first row it is tested on is predicted.  *)
TestIsUnseen ==
  sample # <<>> => \A f \in Folds(sample) : \A i \in f.train, j \in f.test : sample[i].e + 1 <= sample[j].p

(* train.py:652-742, trials.py: a model is deflated by every fit its search *)
(* ever scored on that sample, those of runs that died or were refused      *)
(* included.                                                                *)
TrialsAreCounted == /\ \A i \in DOMAIN models : models[i].trials >= models[i].fits
                    /\ training.at = "search" => NTrials(training.frame) >= tried[training.frame]

(* nightly.py:322-365: the cycle never gets a model older than the newest   *)
(* that was registered when it asked, and no version is given out twice.    *)
ServedIsLatest == /\ \A s \in served : s.model # 0 => s.model >= s.asked
                  /\ \A i, j \in DOMAIN models : models[i].version = models[j].version => i = j

TrainingTypeOK ==
  /\ \A i \in DOMAIN sample : sample[i].p < sample[i].e /\ sample[i].y \in {0, 1}
  /\ models \in Seq(ModelRecord) /\ training.backend \in ModelBackend
  /\ training.frame \in 0..Len(sample) /\ shadow.id \in 0..Len(models) /\ nights \in 0..MaxNights

(* train.py, trials.py: no model is judged on what it learned from, nor on  *)
(* a trial uncounted, and the last one registered is served.                *)
TrainingIsHonest == TrainingTypeOK /\ TestIsUnseen /\ TrialsAreCounted /\ ServedIsLatest
=================================================================================
