--------------------------------- MODULE Features --------------------------------
(***************************************************************************)
(* The row of features a model is trained on and asked with (te/ml/        *)
(* dataset.py): one function for both, over the daily closes that a        *)
(* backfill appends (te/data/history_backfill.py) and the contracts the    *)
(* store lists, each read once per process and date and kept.              *)
(*                                                                         *)
(* A day is a number. A row is built of day `on`, on that day by the       *)
(* running engine and on any later one by the nightly job. What follows    *)
(* from the clock alone, the weekday and the minute, is left out.          *)
(***************************************************************************)
EXTENDS Integers, Sequences, FiniteSets, FiniteSetsExt

CONSTANTS
  TradingDays, LastFeatureDay,      \* the days with a close; the days of the model, 1..LastFeatureDay
  CloseOf,                    \* what the exchange closed at, by series and day
  RankDays, VolDays,          \* _IV_RANK_TRADING_DAYS, _REALIZED_VOL_TRADING_DAYS
  Cushion,                    \* _HOLIDAY_CUSHION_DAYS
  Expiries,                   \* the days contracts really expired or will
  ExpiryCalendar,             \* the next expiry by the calendar of today, for each day
  FetchStarts,                \* the first days of a fetch
  MaxFetches, MaxRestarts, MaxBuilt

ASSUME FeatureAssumption ==
  /\ TradingDays \subseteq 1..LastFeatureDay /\ LastFeatureDay \in Nat \ {0}
  /\ RankDays \in Nat \ {0, 1} /\ VolDays \in Nat \ {0, 1} /\ Cushion \in Nat
  /\ MaxFetches \in Nat /\ MaxRestarts \in Nat /\ MaxBuilt \in Nat

Series == {"vix", "index"}
ASSUME ClosesAssumption == \A s \in Series : \A d \in TradingDays : CloseOf[s][d] \in Nat

(* The calendar gives a day the next expiry from it on.                     *)
ASSUME ExpiryAssumption ==
  Expiries \subseteq Nat /\ \A on \in 1..LastFeatureDay : ExpiryCalendar[on] \in Nat /\ ExpiryCalendar[on] >= on

VARIABLES
  dayNow,
  daily,      \* by series the daily bars in the store, <<day, copy>>: a day fetched again is there again
  listed,     \* the contracts the store has bars of, [base, expiry]
  closesKept, \* _DAILY_CLOSES_CACHE
  expiryKept, \* _ARCHIVED_EXPIRIES_CACHE
  fetches, restarts,
  built  \* ghost: [on, row, past]: each row, and what its process first saw of that past
featureVars == <<dayNow, daily, listed, closesKept, expiryKept, fetches, restarts, built>>

NaN == <<>>

(* The columns of the secondary model, the clock's left out.                *)
DailyBars == TradingDays \X Nat
FeatureRows ==
  [level : {NaN} \cup Seq(Nat), rank : {NaN} \cup Seq(Nat), spread : {NaN} \cup ((SUBSET DailyBars) \X Seq(Nat)), dte : Nat]

-----------------------------------------------------------------------------
(* bars_asof for daily bars: one fetched of day d is stamped known at d's   *)
(* end, whenever it came in.                                                *)
KnownOn(bar) == bar[1] + 1
Visible(s, on, lookback) == {bar \in daily[s] : bar[1] >= on - lookback /\ KnownOn(bar) <= on}

(* Calendar days wide enough for n sessions.                                *)
Lookback(n) == (n * 7 + 4) \div 5 + Cushion

(* dataset.py:74-78: the cushion covers every closure of the calendar.      *)
ASSUME CushionAssumption ==
  \A on, d \in TradingDays, n \in {1, RankDays, VolDays} :
    d < on /\ Cardinality({t \in TradingDays : d < t /\ t < on}) < n => d >= on - Lookback(n)

(* A slip of the key: the day is forgotten, or the width of the window.     *)
KeyOfSeries(s, lookback, on) == <<s, lookback, 0>>
KeyOfCloses(s, lookback, on) == <<s, lookback, on>>

DailyCloses(s, on, lookback) ==
  LET key == KeyOfCloses(s, lookback, on)
  IN IF key \in DOMAIN closesKept THEN closesKept[key] ELSE Visible(s, on, lookback)

(* The last n of some bars; all of them when there are fewer.               *)
LaterBars(bar, bars) == {b \in bars : b[1] > bar[1] \/ (b[1] = bar[1] /\ b[2] > bar[2])}
LastBars(bars, n) == {bar \in bars : Cardinality(LaterBars(bar, bars)) < n}
Latest(bars) == CHOOSE bar \in bars : LaterBars(bar, bars) = {}

Trailing(s, on, n) == LastBars(DailyCloses(s, on, Lookback(n)), n)

LevelOf(bars) == IF bars = {} THEN NaN ELSE <<CloseOf["vix"][Latest(bars)[1]]>>
Level(on) == LevelOf(Trailing("vix", on, 1))

(* The share of the window's closes not above the latest.                   *)
RankOf(bars) ==
  IF Cardinality(bars) < 2 THEN NaN
  ELSE <<Cardinality({bar \in bars : CloseOf["vix"][bar[1]] <= CloseOf["vix"][Latest(bars)[1]]}), Cardinality(bars)>>
Rank(on) == RankOf(Trailing("vix", on, RankDays))

(* The realized volatility is of the moves between the window's closes, so  *)
(* it is them; the spread needs it and the implied one.                     *)
SpreadOf(bars, implied) == IF Cardinality(bars) < 3 \/ implied = NaN THEN NaN ELSE <<bars, implied>>
Spread(on) == SpreadOf(Trailing("index", on, VolDays), Level(on))

(* available_option_symbols: the contracts of an underlying, not of one     *)
(* whose name begins alike.                                                 *)
Bases == {"index", "index of others"}
AvailableOptionSymbols(base) == {contract \in listed : contract.base = base}
ExpiriesOf(contracts) == {contract.expiry : contract \in contracts}

(* The expiry: the next the store lists, else the next of today's calendar. *)
ListedOn(on) == IF on \in DOMAIN expiryKept THEN expiryKept[on] ELSE ExpiriesOf(AvailableOptionSymbols("index"))
NextExpiry(on) ==
  LET ahead == {e \in ListedOn(on) : e >= on}
  IN IF ahead = {} THEN ExpiryCalendar[on] ELSE Min(ahead)

RowOf(on) == [level |-> Level(on), rank |-> Rank(on), spread |-> Spread(on), dte |-> NextExpiry(on) - on]

-----------------------------------------------------------------------------
FeatureInit ==
  /\ dayNow = 1 /\ daily = [s \in Series |-> {}] /\ listed = {} /\ closesKept = <<>> /\ expiryKept = <<>>
  /\ fetches = 0 /\ restarts = 0 /\ built = {}

TimesFetched(s, d) == Cardinality({bar \in daily[s] : bar[1] = d})

(* A window of closes is fetched, and appended whether it is there or not.  *)
FetchDaily ==
  /\ fetches < MaxFetches /\ fetches' = fetches + 1
  /\ \E from \in FetchStarts, some \in {Series, {"index"}} :
       LET sent == {d \in TradingDays : from <= d /\ d <= dayNow}
       IN daily' = [s \in Series |-> IF s \in some THEN daily[s] \cup {<<d, TimesFetched(s, d)>> : d \in sent} ELSE daily[s]]
  /\ UNCHANGED <<dayNow, listed, closesKept, expiryKept, restarts, built>>

(* The recorder writes the first bar of a contract of the next expiry.      *)
ListContract ==
  /\ \E e \in Expiries, base \in Bases :
       /\ dayNow <= e /\ \A f \in Expiries : dayNow <= f => e <= f
       /\ e \notin ExpiriesOf(AvailableOptionSymbols(base))
       /\ listed' = listed \cup {[base |-> base, expiry |-> e]}
  /\ UNCHANGED <<dayNow, daily, closesKept, expiryKept, fetches, restarts, built>>

(* What lies before a day: its closes, and the expiries listed.             *)
PastOf(on) ==
  [closes |-> [s \in Series |-> {bar \in daily[s] : bar[1] < on}],
   expiries |-> ExpiriesOf(AvailableOptionSymbols("index"))]
FirstSeen(on) ==
  LET earlier == {r \in built : r.on = on /\ r.life = restarts}
  IN IF earlier = {} THEN PastOf(on) ELSE (CHOOSE r \in earlier : TRUE).past

(* build_training_set: the engine's call of today, the job's of any day.    *)
Windows == {<<"vix", 1>>, <<"vix", RankDays>>, <<"index", VolDays>>}
KeysOf(on) == {KeyOfCloses(w[1], Lookback(w[2]), on) : w \in Windows}
BuildRow ==
  /\ \E on \in TradingDays :
       /\ on <= dayNow /\ Cardinality(built) < MaxBuilt
       /\ closesKept' = [key \in DOMAIN closesKept \cup KeysOf(on) |->
                           IF key \in DOMAIN closesKept THEN closesKept[key] ELSE Visible(key[1], on, key[2])]
       /\ expiryKept' = [day \in DOMAIN expiryKept \cup {on} |-> ListedOn(day)]
       /\ built' = built \cup {[on |-> on, life |-> restarts, row |-> RowOf(on), past |-> FirstSeen(on)]}
  /\ UNCHANGED <<dayNow, daily, listed, fetches, restarts>>

RestartFeatures ==
  /\ restarts < MaxRestarts /\ restarts' = restarts + 1
  /\ closesKept' = <<>> /\ expiryKept' = <<>>
  /\ UNCHANGED <<dayNow, daily, listed, fetches, built>>

NextTradingDay ==
  /\ dayNow < LastFeatureDay /\ dayNow' = dayNow + 1
  /\ UNCHANGED <<daily, listed, closesKept, expiryKept, fetches, restarts, built>>

FeatureNext == FetchDaily \/ ListContract \/ BuildRow \/ RestartFeatures \/ NextTradingDay
FeatureSpec == FeatureInit /\ [][FeatureNext]_featureVars

-----------------------------------------------------------------------------
(* dataset.py:1-9: there is no difference between asking and training. Two  *)
(* rows of a day are the same, whichever process, day and order they were   *)
(* built in, if what lay before that day was the same when it was first     *)
(* looked at.                                                               *)
SameRow == \A r, q \in built : r.on = q.on /\ r.past = q.past => r.row = q.row

(* dataset.py:266-290: when every session was fetched once, the windows are *)
(* of exactly the last sessions before the day, holidays or not: the rank   *)
(* and the spread of the last so many, the level of the very last.          *)
Sessions(on) == {<<d, 0>> : d \in {t \in TradingDays : t < on}}
WindowsAreWhole ==
  \A r \in built :
    LET bars == Sessions(r.on)
    IN r.past.closes["vix"] = bars /\ r.past.closes["index"] = bars =>
         /\ \A d \in TradingDays : d < r.on /\ (\A t \in TradingDays : t < r.on => t <= d) => r.row.level = <<CloseOf["vix"][d]>>
         /\ Cardinality(bars) >= 2 => r.row.rank[2] = (IF Cardinality(bars) > RankDays THEN RankDays ELSE Cardinality(bars))
         /\ Cardinality(LastBars(bars, VolDays)) >= 3 => r.row.spread[1] = LastBars(bars, VolDays)

(* dataset.py:184-226: a day whose contract was listed is given that        *)
(* contract's expiry, though the calendar has changed since.                *)
DteIsListed ==
  \A r \in built : \A next \in r.past.expiries :
    next >= r.on /\ (\A e \in Expiries : e >= r.on => next <= e) => r.row.dte = next - r.on

FeatureTypeOK ==
  /\ dayNow \in 1..LastFeatureDay /\ listed \subseteq [base : Bases, expiry : Expiries]
  /\ \A r \in built : r.row \in FeatureRows

(* dataset.py, featurespec.py: a row of features is the one the engine      *)
(* would have seen at its moment.                                           *)
FeaturesAreOfTheMoment == FeatureTypeOK /\ SameRow /\ WindowsAreWhole /\ DteIsListed
=================================================================================
