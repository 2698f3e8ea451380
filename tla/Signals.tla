---------------------------------- MODULE Signals ----------------------------------
(***************************************************************************)
(* The rules a signal comes from (strategy/), minute by minute of one      *)
(* session, on the three frames a rule may be given: read afresh (the live *)
(* cycle), extended by what is new (a context kept over the day) and cut   *)
(* from a whole day built in advance (the backtests).                      *)
(*                                                                         *)
(* A frame is a sequence of one-minute bars; `at` counts minutes from the  *)
(* open, `seen` is when the bar came in.  Averages are in units of 1/Unit  *)
(* of a point, rounded down.                                               *)
(***************************************************************************)
EXTENDS Integers, Sequences, SequencesExt, FiniteSets

CONSTANTS
  Shapes,                \* what a minute may look like: [o, h, l, c, v]
  LastMinute, Unit,
  Yesterdays,            \* previous session's [h, l, c], or {} for none on record
  ExpiryToday,           \* "yes", "no", or "unknown" without a calendar
  MaxTrouble,            \* the most bars that are late or missing
  RangeMinutes, MinBars, WidthPct, Window, BandStdev, BurstMultiple,
  FastSpan, SlowSpan, SignalSpan, TrendBars, TrendPeriod, TrendMultiple,
  GapPct, ActAfter, StretchSigma, Period, LowReading, HighReading, Start, Stop, EnterAt,
  Coin                   \* what the control draws at each minute

(* orb.py: the range it waits for, and the bars it must find in it.         *)
OrbParams == RangeMinutes \in Nat /\ MinBars \in 1..RangeMinutes

ASSUME SignalAssumption == OrbParams /\ LastMinute \in Nat /\ Unit \in Nat \ {0} /\ MaxTrouble \in Nat

(* recorder.py: a minute's close lies between its low and its high.         *)
ASSUME ShapeAssumption ==
  /\ Shapes \subseteq [o : Int, h : Int, l : Int, c : Int, v : Nat] /\ \A shape \in Shapes : shape.l <= shape.c /\ shape.c <= shape.h
  /\ Yesterdays \subseteq {<<>>} \cup [h : Int, l : Int, c : Int]

VARIABLES minute, tape, kept, previous
signalVars == <<minute, tape, kept, previous>>

No == "skip"
Opposite(d) == CASE d = "call" -> "put" [] d = "put" -> "call" [] OTHER -> No
Toward(up, down) == IF up THEN "call" ELSE IF down THEN "put" ELSE No

SignalInit ==
  /\ minute = 0 /\ tape = <<>> /\ kept = <<>>
  /\ previous \in Yesterdays

-----------------------------------------------------------------------------
Bars == [at : 0..LastMinute, seen : 0..(LastMinute + 1), o : Int, h : Int, l : Int, c : Int, v : Nat]

(* The bars of a frame that are of a set, in their order.                   *)
Only(f, some) ==
  LET taken[k \in 0..Len(f)] ==
        IF k = 0 THEN <<>> ELSE IF f[k] \in some THEN Append(taken[k - 1], f[k]) ELSE taken[k - 1]
  IN taken[Len(f)]
EarlierThan(time) == {bar \in Bars : bar.at < time}
NotBefore(time) == {bar \in Bars : bar.at >= time}

(* asof.py: a bar is visible once it has closed and has come in.            *)
Closed(now) == {bar \in Bars : bar.at + 1 <= now}
BarsAsof(now) == Only(tape, {bar \in Closed(now) : bar.seen <= now})

(* All a rule reads with is its context: one instrument, one instant.       *)
ContextBars(now) == BarsAsof(now)

(* PrebuiltSession.visible_at cuts the day by the close alone.              *)
VisibleAtOpen(now) == Only(tape, EarlierThan(now + 1))
VisibleAt(now) == Only(tape, Closed(now))

(* The frame of a kept context: what it has, and the bars after its last.   *)
Extended(now) ==
  LET bars == ContextBars(now)
  IN IF kept = <<>> THEN bars ELSE kept \o Only(bars, NotBefore(Last(kept).at + 1))

-----------------------------------------------------------------------------
(* indicators.py.                                                           *)
Field(f, name) == [i \in DOMAIN f |-> f[i][name]]
Highest(s) == CHOOSE x \in {s[i] : i \in DOMAIN s} : \A i \in DOMAIN s : s[i] <= x
Lowest(s) == CHOOSE x \in {s[i] : i \in DOMAIN s} : \A i \in DOMAIN s : x <= s[i]
Total(s) == FoldLeft(LAMBDA sum, x : sum + x, 0, s)
Size(n) == IF n < 0 THEN -n ELSE n
Prior(s, n, back) == SubSeq(s, Len(s) - back - n + 1, Len(s) - back)     \* the n before the last `back`

(* Exponential average, every value so far: weight num in den.              *)
Ewm(s, num, den) ==
  LET out[k \in DOMAIN s] == IF k = 1 THEN s[k] ELSE (num * s[k] + (den - num) * out[k - 1]) \div den
  IN out
Ema(s, span) == Ewm(s, 2, span + 1)
Wilder(s) == Ewm(s, 1, Period)
InUnits(s) == [i \in DOMAIN s |-> s[i] * Unit]

OpeningRange(f, minutes) ==
  LET opening == Only(f, EarlierThan(minutes))
  IN IF Len(opening) < 3 \/ Last(f).at < minutes THEN <<>>
     ELSE <<Highest(Field(opening, "h")), Lowest(Field(opening, "l"))>>

(* Weighted by volume once any is there, by time for an index.              *)
SessionAverage(f) ==
  LET typical(bar) == ((bar.h + bar.l + bar.c) * Unit) \div 3
      volume == Total(Field(f, "v"))
  IN [i \in DOMAIN f |->
        LET upTo == SubSeq(f, 1, i)
            sofar == Total(Field(upTo, "v"))
        IN IF volume > 0
           THEN IF sofar = 0 THEN -1 ELSE Total([j \in 1..i |-> typical(f[j]) * f[j].v]) \div sofar
           ELSE Total([j \in 1..i |-> typical(f[j])]) \div i]

TrueRange(f) ==
  [i \in DOMAIN f |->
     IF i = 1 THEN f[i].h - f[i].l
     ELSE Highest(<<f[i].h - f[i].l, Size(f[i].h - f[i - 1].c), Size(f[i].l - f[i - 1].c)>>)]
(* Of the bars up to each; the rules read the one before.                   *)
Atr(f, n) == Ewm(InUnits(TrueRange(f)), 1, n)

(* The gains and losses from the second bar on, and the gains as a share of *)
(* both; there is none while nothing was lost.                              *)
Rsi(f) ==
  LET change == [i \in 1..(Len(f) - 1) |-> f[i + 1].c - f[i].c]
      gain == Wilder(InUnits([i \in DOMAIN change |-> IF change[i] > 0 THEN change[i] ELSE 0]))
      loss == Wilder(InUnits([i \in DOMAIN change |-> IF change[i] < 0 THEN -change[i] ELSE 0]))
  IN IF change = <<>> THEN <<>> ELSE IF Last(loss) = 0 THEN <<>> ELSE <<Last(gain), Last(gain) + Last(loss)>>

Stochastic(f) ==
  LET last == Prior(f, Period, 0)
      low == Lowest(Field(last, "l"))
      high == Highest(Field(last, "h"))
  IN IF Len(f) < Period THEN <<>> ELSE IF high = low THEN <<>> ELSE <<Last(f).c - low, high - low>>

(* Each bar's bands ratchet on those of the bar before, while it closed     *)
(* within them.                                                             *)
SuperTrend(f) ==
  LET atr == Atr(f, TrendPeriod)
      Band(i) == TrendMultiple * atr[i - 1]
      Middle(i) == ((f[i].h + f[i].l) * Unit) \div 2
      Close(i) == f[i].c * Unit
      trend[i \in DOMAIN f] ==
        IF i = 1 THEN [up |-> 1, upper |-> -1, lower |-> -1]
        ELSE LET was == trend[i - 1]
                 upper == Middle(i) + Band(i)
                 lower == Middle(i) - Band(i)
             IN IF i = 2 THEN [up |-> was.up, upper |-> upper, lower |-> lower]
                ELSE [up |-> IF Close(i) > was.upper THEN 1 ELSE IF Close(i) < was.lower THEN -1 ELSE was.up,
                      upper |-> IF Close(i - 1) <= was.upper /\ was.upper < upper THEN was.upper ELSE upper,
                      lower |-> IF Close(i - 1) >= was.lower /\ was.lower > lower THEN was.lower ELSE lower]
  IN trend

-----------------------------------------------------------------------------
(* rules/: each says "call", "put" or skips, of the last bar of its frame.  *)
StaysOut(f, high, low) == Toward(Last(f).c > high, Last(f).c < low)
CrossedOut(f, high, low) ==
  IF Len(f) < 2 \/ ~(low <= f[Len(f) - 1].c /\ f[Len(f) - 1].c <= high) THEN No
  ELSE Toward(Last(f).c > high, Last(f).c < low)

CrossDirection(above) ==
  IF Len(above) < 2 THEN No
  ELSE Toward(Last(above) /\ ~above[Len(above) - 1], ~Last(above) /\ above[Len(above) - 1])

OrbRule(f) ==
  LET range == OpeningRange(f, RangeMinutes)
  IN IF range = <<>> THEN No ELSE CrossedOut(f, range[1], range[2])
TightRange(f) ==
  LET range == OpeningRange(f, RangeMinutes)
  IN IF range = <<>> THEN No
     ELSE IF 100 * (range[1] - range[2]) >= WidthPct * range[2] THEN No ELSE CrossedOut(f, range[1], range[2])

(* orb.py keeps to the bars after the range, of which the first one counts  *)
(* as coming from inside, and asks for volume where there is any.           *)
Orb(f) ==
  LET opening == Only(f, EarlierThan(RangeMinutes))
      later == Only(f, NotBefore(RangeMinutes))
      high == Highest(Field(opening, "h"))
      low == Lowest(Field(opening, "l"))
      inside == Len(later) < 2 \/ (low <= later[Len(later) - 1].c /\ later[Len(later) - 1].c <= high)
      volume == Total(Field(opening, "v"))
  IN IF Len(opening) < MinBars \/ later = <<>> \/ ~inside THEN No
     ELSE IF volume > 0 /\ Last(later).v * Len(opening) < volume THEN No
     ELSE Toward(Last(later).c > high, Last(later).c < low)

Donchian(f) ==
  IF Len(f) <= Window THEN No
  ELSE Toward(Last(f).c > Highest(Field(Prior(f, Window, 1), "h")), Last(f).c < Lowest(Field(Prior(f, Window, 1), "l")))

(* A close more than k deviations from the mean of the window before the    *)
(* last bar, compared as squares.                                           *)
Beyond(c, s, k) ==
  LET n == Len(s)
      away == n * c - Total(s)
      spread == n * Total([i \in DOMAIN s |-> s[i] * s[i]]) - Total(s) * Total(s)
  IN IF away * away * (n - 1) <= k * k * n * spread THEN 0 ELSE IF away > 0 THEN 1 ELSE -1
Bollinger(f) ==
  LET before == Prior(Field(f, "c"), Window, 1)
  IN IF Len(f) <= Window \/ Cardinality({before[i] : i \in DOMAIN before}) = 1 THEN No
     ELSE IF Beyond(f[Len(f) - 1].c, before, BandStdev) # 0 THEN No
     ELSE Toward(Beyond(Last(f).c, before, BandStdev) = 1, Beyond(Last(f).c, before, BandStdev) = -1)

AtrExpansion(f) ==
  LET move == (Last(f).c - Last(f).o) * Unit
      normal == Atr(f, Period)[Len(f) - 1]
  IN IF Len(f) < 2 THEN No
     ELSE IF normal = 0 \/ Size(move) <= BurstMultiple * normal THEN No ELSE Toward(move > 0, move < 0)

InsideBar(f) ==
  IF Len(f) < 3 THEN No
  ELSE LET parent == f[Len(f) - 2]
           inside == f[Len(f) - 1]
       IN IF inside.h <= parent.h /\ inside.l >= parent.l THEN Toward(Last(f).c > inside.h, Last(f).c < inside.l) ELSE No

EmaCross(f) ==
  LET close == InUnits(Field(f, "c"))
      fast == Ema(close, FastSpan)
      slow == Ema(close, SlowSpan)
  IN IF Len(f) < 3 THEN No ELSE CrossDirection([i \in DOMAIN f |-> fast[i] > slow[i]])
MacdCross(f) ==
  LET close == InUnits(Field(f, "c"))
      fast == Ema(close, FastSpan)
      slow == Ema(close, SlowSpan)
      line == [i \in DOMAIN f |-> fast[i] - slow[i]]
      signal == Ema(line, SignalSpan)
  IN IF Len(f) < 3 THEN No ELSE CrossDirection([i \in DOMAIN f |-> line[i] > signal[i]])
TrendFlip(f) ==
  LET trend == SuperTrend(f)
  IN IF Len(f) < TrendBars THEN No ELSE CrossDirection([i \in DOMAIN f |-> trend[i].up = 1])
AverageCross(f) ==
  LET average == SessionAverage(f)
  IN IF Len(f) < 3 THEN No
     ELSE CrossDirection([i \in DOMAIN f |-> average[i] # -1 /\ f[i].c * Unit > average[i]])

(* The distance from the daily average against its own recent deviation.    *)
AverageReversion(f) ==
  LET average == SessionAverage(f)
      distance == [i \in DOMAIN f |-> ((f[i].c * Unit - average[i]) * Unit) \div average[i]]
      before == Prior(distance, Window, 1)
      n == Window
      spread == n * Total([i \in DOMAIN before |-> before[i] * before[i]]) - Total(before) * Total(before)
      z == Last(distance)
  IN IF Len(f) <= Window \/ -1 \in {average[i] : i \in DOMAIN f} THEN No
     ELSE IF spread = 0 \/ z * z * n * (n - 1) <= StretchSigma * StretchSigma * spread THEN No
     ELSE Toward(z < 0, z > 0)

Extreme(share) ==
  IF share = <<>> THEN No
  ELSE Toward(100 * share[1] <= LowReading * share[2], 100 * share[1] >= HighReading * share[2])
RsiReversion(f) == IF Len(f) < 2 THEN No ELSE Extreme(Rsi(Front(f)))
StochasticReversion(f) == IF Len(f) < 2 THEN No ELSE Extreme(Stochastic(Front(f)))

(* Rules that act on one minute of the day.                                 *)
Gap(f) == Head(f).o - previous.c
GapGo(f) ==
  IF previous = <<>> THEN No
  ELSE IF 100 * Size(Gap(f)) < GapPct * previous.c \/ Last(f).at # ActAfter THEN No
  ELSE Toward(Gap(f) > 0, Gap(f) < 0)
FirstHour(f) ==
  LET opening == Only(f, EarlierThan(RangeMinutes))
  IN IF Last(f).at # RangeMinutes \/ Len(opening) < 3 THEN No
     ELSE Toward(Last(opening).c > Head(opening).o, Last(opening).c < Head(opening).o)
Windowed(f) ==
  IF Last(f).at # Start \/ Start > Stop THEN No ELSE Toward(Last(f).c > Head(f).o, Last(f).c < Head(f).o)
ExpiryDay(f) == IF ExpiryToday = "yes" THEN Windowed(f) ELSE No
MorningPredicts(f) ==
  LET morning == Only(f, EarlierThan(RangeMinutes))
      from == IF previous = <<>> THEN Head(morning).o ELSE previous.c
  IN IF Last(f).at # EnterAt \/ Len(morning) < 3 THEN No ELSE Toward(Last(morning).c > from, Last(morning).c < from)
CoinFlip(f) == IF Last(f).at < ActAfter THEN No ELSE Coin[Last(f).at]

(* Rules on yesterday's levels, tripled where they divide by three.         *)
Thrice(f) == [i \in DOMAIN f |-> [f[i] EXCEPT !.c = 3 * @]]
PreviousDay(f) == IF previous = <<>> THEN No ELSE CrossedOut(f, previous.h, previous.l)
Pivot(f) ==
  LET sum == previous.h + previous.l + previous.c
  IN IF previous = <<>> THEN No ELSE CrossedOut(Thrice(f), 2 * sum - 3 * previous.l, 2 * sum - 3 * previous.h)
Camarilla(f) ==
  LET inTwentieths == [i \in DOMAIN f |-> [f[i] EXCEPT !.c = 20 * @]]
      reach == 11 * (previous.h - previous.l)
  IN IF previous = <<>> THEN No ELSE CrossedOut(inTwentieths, 20 * previous.c + reach, 20 * previous.c - reach)

Decide(r, f) ==
  CASE r = "orb60" -> OrbRule(f)         [] r = "orb60_fade" -> Opposite(OrbRule(f))
    [] r = "tight" -> TightRange(f)      [] r = "orb" -> Orb(f)
    [] r = "donchian" -> Donchian(f)     [] r = "bollinger" -> Bollinger(f)
    [] r = "burst" -> AtrExpansion(f)    [] r = "inside" -> InsideBar(f)
    [] r = "ema" -> EmaCross(f)          [] r = "macd" -> MacdCross(f)
    [] r = "trend" -> TrendFlip(f)       [] r = "average" -> AverageCross(f)
    [] r = "stretch" -> AverageReversion(f)
    [] r = "rsi" -> RsiReversion(f)      [] r = "stochastic" -> StochasticReversion(f)
    [] r = "gap_go" -> GapGo(f)          [] r = "gap_fill" -> Opposite(GapGo(f))
    [] r = "first_hour" -> FirstHour(f)  [] r = "window" -> Windowed(f)
    [] r = "expiry" -> ExpiryDay(f)      [] r = "morning" -> MorningPredicts(f)
    [] r = "levels" -> PreviousDay(f)    [] r = "pivot" -> Pivot(f)
    [] r = "camarilla" -> Camarilla(f)   [] r = "coin" -> CoinFlip(f)

Crossings == {"orb60", "tight", "orb", "inside", "ema", "macd", "trend", "levels", "pivot", "camarilla"}
Rules == Crossings \cup {"orb60_fade", "donchian", "bollinger", "burst", "average", "stretch", "rsi", "stochastic",
  "gap_go", "gap_fill", "first_hour", "window", "expiry", "morning", "coin"}

-----------------------------------------------------------------------------
(* The minute passes: its bar comes in on time, a minute late, or never,    *)
(* and the rules look at what there is.                                     *)
Bar(shape, late) == [at |-> minute, seen |-> minute + 1 + late, o |-> shape.o, h |-> shape.h, l |-> shape.l, c |-> shape.c, v |-> shape.v]

Pass(bars) ==
  /\ minute < LastMinute
  /\ minute' = minute + 1
  /\ tape' = tape \o bars
  /\ kept' = Extended(minute)
  /\ UNCHANGED previous

InTrouble == (minute - Len(tape)) + Len(Only(tape, {bar \in Bars : bar.seen > bar.at + 1}))

OnTime == \E shape \in Shapes : Pass(<<Bar(shape, 0)>>)
Late == InTrouble < MaxTrouble /\ \E shape \in Shapes : Pass(<<Bar(shape, 1)>>)
Missing == InTrouble < MaxTrouble /\ Pass(<<>>)

SignalNext == OnTime \/ Late \/ Missing
SignalSpec == SignalInit /\ [][SignalNext]_signalVars

-----------------------------------------------------------------------------
(* The day cut from its end, the day kept and the day read anew are one     *)
(* frame, at every minute: a backtest decides on what the live cycle would  *)
(* have seen, as long as bars come in when they close.                      *)
SameFrame ==
  (\A i \in DOMAIN tape : tape[i].seen = tape[i].at + 1) =>
    Extended(minute) = BarsAsof(minute) /\ VisibleAt(minute) = BarsAsof(minute)

(* A crossing is signalled once, not for as long as price stays beyond: on  *)
(* a minute whose frame has changed, the rule does not signal what it does  *)
(* on the frame without its newest bar.                                     *)
OncePerCrossing ==
  LET f == BarsAsof(minute)
  IN Len(f) >= 2 /\ f # BarsAsof(minute - 1) =>
       \A r \in Crossings : Decide(r, f) # No => Decide(r, Front(f)) # Decide(r, f)

SessionCaches == [frame : Seq(Bars), previous : Yesterdays]
SignalTypeOK == /\ minute \in 0..LastMinute /\ tape \in Seq(Bars)
                /\ [frame |-> kept, previous |-> previous] \in SessionCaches

SignalsAreCausal == SignalTypeOK /\ SameFrame /\ OncePerCrossing
=============================================================================
