--------------------------------- MODULE Labels ---------------------------------
(***************************************************************************)
(* The triple-barrier labels of recorded firings (te/ml/labeling.py),      *)
(* walked on the index or, where the option archive has the contract, on   *)
(* its own premium; the barriers of te/ml/barriers.py and the choice of    *)
(* the contract by te/data/option_history.py.                              *)
(*                                                                         *)
(* Time is in minutes; a bar that opens at minute m closes at m + 1 and is *)
(* known from the minute it was ingested at. Prices are small integers.    *)
(* `walked` and `printed` are the index bars and the option bars of a call *)
(* that the store has, one of a minute; `overdue` and `shelved` are those  *)
(* it has not yet. A bar the recorder writes late says so; one that a      *)
(* backfill or the archive brings says that it was known when it closed.   *)
(***************************************************************************)
EXTENDS Integers, Sequences, FiniteSets

CONSTANTS Closing,      \* the minute after the last bar of the session
          Hold,         \* MAX_HOLD
          Staleness,    \* max_staleness of an entry print
          Minutes,      \* what a minute may print: [h, l] of the index, oh, ol, oc of the option or no option bar
          Evaluations,  \* what an evaluation may record, [verdict, passed, close, low, high]
          Snapshot,     \* the ATM snapshot: [premium, delta in hundredths, stop, target], or no stop
          EraCost,      \* era -> round trip cost of one unit of premium, by date of trade
          Era,          \* the era of this session
          PathStopPct, PathTargetPct,  \* the barriers of the premium path
          ListedStrikes,       \* the calls there are in the archive, per days to expiry
          MaxDays,      \* max_days_to_expiry
          MaxFirings, MaxOverdue, MaxRuns

(* What was measured of the at-the-money option of the instrument, and      *)
(* where the geometry puts the exits of its premium.                        *)
AtmSnapshot == [premium : Nat \ {0}, delta : 1..100, stop : Nat, target : Nat]

(* What the premium path is asked for at once or not at all.                *)
RealPremiumConfig == /\ PathStopPct \in 1..99 /\ PathTargetPct \in Nat \ {0}
                     /\ Staleness \in Nat /\ MaxDays \in Nat /\ EraCost[Era] \in Nat /\ EraCost[1] \in Nat

ASSUME LabelAssumption ==
  /\ Closing \in Nat /\ Hold \in Nat \ {0} /\ Snapshot \in AtmSnapshot /\ RealPremiumConfig
  /\ MaxFirings \in Nat /\ MaxOverdue \in Nat /\ MaxRuns \in Nat
  /\ \A m \in Minutes : m.h \in Int /\ m.l \in Int /\ m.oh \in Int /\ m.ol \in Int /\ m.oc \in Int
  /\ \A e \in Evaluations : e.close \in Int /\ e.low \in Int /\ e.high \in Int

VARIABLES now, walked, printed, overdue, shelved,
          stocked,       \* the calls the store has bars of, per days to expiry
          evaluations,
          given         \* the runs: when, the labels, the weights, and the store each read
labelVars == <<now, walked, printed, overdue, shelved, stocked, evaluations, given>>

NoPrint == [kind |-> "none"]

(* A slip of it: a bar counts from when it closed, however late it came in. *)
KnownLate(bars, asof, lookback) ==
  {b \in bars : b.at >= asof - lookback /\ b.at + 1 <= asof}

(* bars_asof: the bars of the window that had closed and had been recorded. *)
KnownBy(bars, asof, lookback) ==
  {b \in bars : b.at >= asof - lookback /\ b.at + 1 <= asof /\ b.known <= asof}

Rounded(n, d) == (2 * n + d) \div (2 * d)

(* The geometry's distances on the snapshot premium, as index points; a     *)
(* geometry without a reachable stop leaves the instrument unlabelled.      *)
Degenerate == Snapshot.stop >= Snapshot.premium
IndexPoints(points) == Rounded(100 * points, Snapshot.delta)
(* The index path prices every firing at the first era of the rates.        *)
IndexCost == IndexPoints(EraCost[1])

(* What the recorded breakout says of a firing.                             *)
DirectionOf(e) == IF e.close > e.high THEN "long_call"
                  ELSE IF e.close < e.low THEN "long_put" ELSE "none"
IsFiring(e) == e.verdict = "traded" /\ e.passed /\ DirectionOf(e) # "none"

EarliestBar(bars) == CHOOSE b \in bars : \A c \in bars : b.at <= c.at
NewestBar(bars) == CHOOSE b \in bars : \A c \in bars : c.at <= b.at

(* The first of the two barriers a path of bars meets, in the code's order: *)
(* the stop below is looked at first, the end of the horizon is the third.  *)
FirstTouch(path, horizon, stop, target) ==
  LET touched == {b \in path : b.l <= stop \/ b.h >= target}
      first == EarliestBar(touched)
  IN IF touched = {} THEN [label |-> 0, barrier |-> "time", ends |-> horizon]
     ELSE IF first.l <= stop THEN [label |-> 0, barrier |-> "stop", ends |-> first.at]
     ELSE [label |-> 1, barrier |-> "target", ends |-> first.at]

(* The bars after the entry, up to the horizon, as known at the horizon.    *)
PathOf(bars, entry) == {b \in KnownBy(bars, entry + Hold, Hold + 1) : b.at > entry}

(* label_one_firing: in the direction traded (a put's path is a call's,     *)
(* upside down), costs on the target only.                                  *)
UpsideDown(bar) == [at |-> bar.at, known |-> bar.known, h |-> 0 - bar.l, l |-> 0 - bar.h]
OnIndex(bars, entry, level, direction) ==
  LET path == PathOf(bars, entry)
      stop == IndexPoints(Snapshot.stop)
      target == IndexPoints(Snapshot.target) + IndexCost
  IN IF direction = "long_call"
     THEN FirstTouch(path, entry + Hold, level - stop, level + target)
     ELSE FirstTouch({UpsideDown(b) : b \in path}, entry + Hold, 0 - (level + stop), target - level)

(* OptionContractIndex: the expiries, by their days, that list any call.    *)
ByExpiry(strikes) == {d \in DOMAIN strikes : strikes[d] # {}}

(* OptionContractIndex.nearest for an at-the-money call: the first expiry   *)
(* in reach that lists one, and its strike nearest to the level, the lower  *)
(* of two; beyond the reach there is no contract.                           *)
Nearest(strikes, level) ==
  LET days == {d \in ByExpiry(strikes) : d <= MaxDays}
      soonest == CHOOSE d \in days : \A e \in days : d <= e
      Gap(k) == IF k >= level THEN k - level ELSE level - k
      Better(k, j) == Gap(k) < Gap(j) \/ (Gap(k) = Gap(j) /\ k <= j)
  IN IF days = {} THEN {}
     ELSE {k \in strikes[soonest] : \A j \in strikes[soonest] : Better(k, j)}

(* label_one_firing_on_premium: the last print no older than max_staleness  *)
(* is the entry; both barriers are long the premium. No usable print, no    *)
(* label: the caller falls back to the index.                               *)
EntryPrint(bars, entry) ==
  LET seen == KnownBy(bars, entry, Staleness + 1)
  IN IF seen = {} \/ NewestBar(seen).at + 1 < entry - Staleness \/ NewestBar(seen).c <= 0
     THEN NoPrint ELSE [kind |-> "quoted", price |-> NewestBar(seen).c]
OnPremium(bars, entry, price) ==
  FirstTouch(PathOf(bars, entry), entry + Hold, price - Rounded(price * PathStopPct, 100),
             price + Rounded(price * PathTargetPct, 100) + EraCost[Era])

(* label_firings_from_evaluations: one firing, on what the store has. Puts  *)
(* have no contract here.                                                   *)
Store == [index |-> walked, option |-> printed, strikes |-> stocked]
ContractOf(store, e) == IF DirectionOf(e) = "long_call" THEN Nearest(store.strikes, e.close) ELSE {}
Labelled(store, e) ==
  LET entry == EntryPrint(store.option, e.at)
  IN IF ContractOf(store, e) # {} /\ entry # NoPrint
     THEN [of |-> e, source |-> "real_option", price |-> entry.price, touch |-> OnPremium(store.option, e.at, entry.price)]
     ELSE [of |-> e, source |-> "index_approx", price |-> e.close, touch |-> OnIndex(store.index, e.at, e.close, DirectionOf(e))]

(* compute_uniqueness_weights: a label's lifespan over that lifespan        *)
(* weighted, segment by segment between two bounds of any labels, by the    *)
(* number of labels alive in the middle of the segment.                     *)
From(l) == l.of.at
To(l) == l.touch.ends
Bounds(labels) == {From(l) : l \in labels} \cup {To(l) : l \in labels}
AliveIn(labels, a, b) == Cardinality({l \in labels : 2 * From(l) <= a + b /\ a + b <= 2 * To(l)})
Overlap(a, b, l) ==
  LET lo == IF a > From(l) THEN a ELSE From(l)
      hi == IF b < To(l) THEN b ELSE To(l)
  IN IF hi > lo THEN hi - lo ELSE 0
SumTo(v, k) == LET acc[n \in 0 .. k] == IF n = 0 THEN 0 ELSE acc[n - 1] + v[n] IN acc[k]
Segment(labels, l, b) ==
  LET before == {t \in Bounds(labels) : t < b}
      a == CHOOSE t \in before : \A x \in before : x <= t
  IN IF b \notin Bounds(labels) \/ before = {} THEN 0 ELSE Overlap(a, b, l) * AliveIn(labels, a, b)
LastHorizon == Closing + Hold
Concurrency(labels, l) == SumTo([b \in 1 .. LastHorizon |-> Segment(labels, l, b)], LastHorizon)
Weight(labels, l) ==
  IF To(l) <= From(l) THEN [num |-> 1, den |-> 1]
  ELSE [num |-> To(l) - From(l), den |-> Concurrency(labels, l)]

Firings == {e \in evaluations : IsFiring(e)}
Dataset == {Labelled(Store, e) : e \in Firings}

NothingStocked == [d \in DOMAIN ListedStrikes |-> {}]
LabelInit ==
  /\ now = 0 /\ walked = {} /\ printed = {} /\ overdue = {} /\ shelved = {} /\ evaluations = {} /\ given = {}
  /\ stocked \in {ListedStrikes, NothingStocked}

(* A minute closes: its bars are recorded or stay behind, those of an       *)
(* option nobody records among them.                                        *)
LateBars == Cardinality({b \in walked : b.known > b.at + 1}) + Cardinality(overdue)
PrintMinute ==
  /\ now < Closing
  /\ \E m \in Minutes :
       LET bar == [at |-> now, known |-> now + 1, h |-> m.h, l |-> m.l]
           print == IF m.oc = 0 THEN {} ELSE {[at |-> now, known |-> now + 1, h |-> m.oh, l |-> m.ol, c |-> m.oc]}
       IN /\ \/ walked' = walked \cup {bar} /\ UNCHANGED overdue
             \/ LateBars < MaxOverdue /\ overdue' = overdue \cup {bar} /\ UNCHANGED walked
          /\ \/ stocked # NothingStocked /\ printed' = printed \cup print /\ UNCHANGED shelved
             \/ /\ stocked = NothingStocked \/ LateBars + Cardinality(shelved) < MaxOverdue
                /\ shelved' = shelved \cup print /\ UNCHANGED printed
  /\ now' = now + 1
  /\ UNCHANGED <<stocked, evaluations, given>>

(* Evening comes: the job runs at 20:00, when every horizon is over.        *)
Evening ==
  /\ now = Closing
  /\ now' = Closing + Hold + 1
  /\ UNCHANGED <<walked, printed, overdue, shelved, stocked, evaluations, given>>

(* The recorder writes a bar that stayed behind, with the time it came in.  *)
Deliver ==
  /\ \E b \in overdue :
       /\ overdue' = overdue \ {b}
       /\ walked' = walked \cup {[b EXCEPT !.known = now]}
  /\ UNCHANGED <<now, printed, shelved, stocked, evaluations, given>>

(* backfill_index_bars: bars that stayed behind are appended, stamped with  *)
(* their own close.                                                         *)
BackfillIndex ==
  /\ \E got \in SUBSET overdue \ {{}} : walked' = walked \cup got /\ overdue' = overdue \ got
  /\ UNCHANGED <<now, printed, shelved, stocked, evaluations, given>>

(* load_option_history: one contract of the archive, all its bars at once,  *)
(* stamped with their own close; the contract is stocked from then on.      *)
LoadContract ==
  /\ now >= Closing
  /\ \E d \in DOMAIN ListedStrikes : \E k \in ListedStrikes[d] : stocked' = [stocked EXCEPT ![d] = @ \cup {k}]
  /\ printed' = printed \cup shelved /\ shelved' = {}
  /\ UNCHANGED <<now, walked, overdue, evaluations, given>>

(* The strategy's evaluation of the minute is stored, whatever becomes of it. *)
StoreEvaluation ==
  /\ now \in 1..(Closing - 1) /\ Cardinality(evaluations) < MaxFirings
  /\ \A e \in evaluations : e.at < now
  /\ \E e \in Evaluations :
       evaluations' = evaluations \cup
         {[at |-> now, verdict |-> e.verdict, passed |-> e.passed, close |-> e.close, low |-> e.low, high |-> e.high]}
  /\ UNCHANGED <<now, walked, printed, overdue, shelved, stocked, given>>

(* build_labeled_dataset, on any evening and again later.                   *)
LabelAll ==
  /\ now >= Closing /\ ~ Degenerate
  /\ Cardinality(given) < MaxRuns
  /\ given' = given \cup {[when |-> now, read |-> Store, labels |-> Dataset, weights |-> [l \in Dataset |-> Weight(Dataset, l)]]}
  /\ given' # given
  /\ UNCHANGED <<now, walked, printed, overdue, shelved, stocked, evaluations>>

LabelNext ==
  PrintMinute \/ Evening \/ Deliver \/ BackfillIndex \/ LoadContract \/ StoreEvaluation \/ LabelAll
LabelSpec == LabelInit /\ [][LabelNext]_labelVars

(* labeling.py:140-239, asof.py, history_backfill.py:24-25,173,             *)
(* option_history.py:30-34,241: a label given once its horizon is over is   *)
(* the label every later run gives, whatever the recorder writes since; a   *)
(* bar of the past that a backfill or the archive puts behind the as-of     *)
(* reading changes it only from inside the label's life on the tape it was  *)
(* walked on, from among the prints its entry was read from, or by listing  *)
(* a contract that is nearer.                                               *)
Over(r, l) == r.when > l.of.at + Hold
BackDated(bars, seen) == {b \in bars \ seen : b.known = b.at + 1}
InLife(bars, l) == \E b \in bars : From(l) < b.at /\ b.at < To(l)
AtEntry(bars, l) == \E b \in bars : l.of.at - Staleness - 1 <= b.at /\ b.at < l.of.at
Rewritten(r, l) ==
  \/ l.source = "index_approx" /\ InLife(BackDated(walked, r.read.index), l)
  \/ l.source = "real_option" /\ InLife(BackDated(printed, r.read.option), l)
  \/ ContractOf(Store, l.of) # {} /\ AtEntry(BackDated(printed, r.read.option), l)
  \/ ContractOf(Store, l.of) # ContractOf(r.read, l.of)
LabelIsSettled ==
  \A r \in given : \A l \in r.labels : Over(r, l) /\ ~ Rewritten(r, l) => l = Labelled(Store, l.of)

(* labeling.py:162-176: a put is labelled on the falling index as a call is *)
(* on the rising one: turned upside down, the tape gives the same label.    *)
Mirror(bars) == {[at |-> b.at, known |-> b.known, h |-> 0 - b.l, l |-> 0 - b.h] : b \in bars}
Other(d) == IF d = "long_call" THEN "long_put" ELSE "long_call"
DirectionsMirror ==
  \A e \in Firings :
    OnIndex(walked, e.at, e.close, DirectionOf(e)) = OnIndex(Mirror(walked), e.at, 0 - e.close, Other(DirectionOf(e)))

(* labeling.py:221-233: a win survives the worst reading of every bar it    *)
(* was read from, up to the one that made it, the order inside one included. *)
StillIn(l, b) ==
  IF l.source = "real_option" THEN 100 * (l.price - b.l) < l.price * PathStopPct
  ELSE IF DirectionOf(l.of) = "long_call" THEN Snapshot.delta * (l.price - b.l) < 100 * Snapshot.stop
  ELSE Snapshot.delta * (b.h - l.price) < 100 * Snapshot.stop
WinsSurvive ==
  \A r \in given : \A l \in r.labels :
    l.touch.label = 1 =>
      \A b \in (IF l.source = "real_option" THEN r.read.option ELSE r.read.index) :
        l.of.at < b.at /\ b.at <= l.touch.ends /\ b.known <= l.of.at + Hold => StillIn(l, b)

(* labeling.py:429-458: the weights share every minute out among the labels *)
(* alive in it: minute by minute the concurrency is the number of labels    *)
(* that cover the minute.                                                   *)
Covers(l, m) == From(l) < m /\ m <= To(l)
WeightsShareTime ==
  \A r \in given : \A l \in r.labels :
    r.weights[l].den = SumTo([m \in 1 .. LastHorizon |-> IF Covers(l, m) THEN Cardinality({o \in r.labels : Covers(o, m)}) ELSE 0],
                             LastHorizon)

(* Bars and evaluations are of the session.                                 *)
LabelTypeOK ==
  /\ now \in 0..(Closing + Hold + 1)
  /\ \A b \in walked \cup overdue \cup printed \cup shelved : b.at \in 0..(Closing - 1)
  /\ \A e \in evaluations : e.at \in 1..(Closing - 1)

(* asof.py, labeling.py, nightly.py: a label depends on nothing but the     *)
(* bars of its own life and entry that say they were known by its horizon,  *)
(* is blind to the side it trades, never wins a tie and shares its time     *)
(* with the labels beside it.                                               *)
LabelsAreHonest == LabelTypeOK /\ LabelIsSettled /\ DirectionsMirror /\ WinsSurvive /\ WeightsShareTime
=================================================================================
