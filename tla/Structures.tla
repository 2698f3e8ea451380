-------------------------------- MODULE Structures --------------------------------
(***************************************************************************)
(* The two labs of structures sold for their premium: the iron fly of      *)
(* te/backtest/straddle_lab.py and the credit spread of                    *)
(* te/backtest/spread_lab.py, with the choice of their contracts in        *)
(* te/data/option_history.py. A session is walked minute by minute over    *)
(* the closes the legs printed.                                            *)
(*                                                                         *)
(* Strikes and premiums share one small unit. A minute of the session is   *)
(* what each leg printed in it, 0 for a leg that did not trade. The spread *)
(* is the call side of the same four legs: the call sold, its wing bought. *)
(***************************************************************************)
EXTENDS Integers, Sequences, FiniteSets, SequencesExt

CONSTANTS Chains,       \* days to expiry -> the strikes listed, [calls, puts]
          IndexLevels,
          Wing,         \* wing_points
          LeastDays, MostDays,  \* the band of days to expiry
          StopFractions,  \* leg_stop_fraction in hundredths, 0 for none
          TakeHundredth,  \* take_profit_fraction and profit_target_pct
          SpreadStop,   \* stop_loss_multiple in hundredths
          LegQuotes,       \* what the legs may be priced at entry, [call, put, callWing, putWing]
          Prints,       \* what a minute may print
          LegCharge,    \* brokerage and taxes of one leg
          MaxMinutes, MaxSessions

(* __post_init__: the wing is away from the shorts, the band of days not    *)
(* reversed, each fraction on its own scale.                                *)
StraddleGeometry ==
  /\ Wing > 0 /\ LeastDays \in 0..MostDays
  /\ StopFractions \subseteq 0..200 /\ TakeHundredth \in 1..99
SpreadGeometry == SpreadStop \in Nat /\ TakeHundredth \in Nat /\ LeastDays \in Nat

(* Strikes and premiums are amounts; an expiry is so many days away.        *)
OfLegs(S) == [call : S, put : S, callWing : S, putWing : S]
MarketData ==
  /\ LegQuotes \cup Prints \subseteq OfLegs(Nat) /\ IndexLevels \subseteq Nat
  /\ \A chain \in Chains : /\ DOMAIN chain \subseteq Nat
                           /\ \A d \in DOMAIN chain : chain[d] \in [calls : SUBSET Nat, puts : SUBSET Nat]

ASSUME StructureAssumption ==
  /\ Wing \in Nat /\ MostDays \in Nat /\ StraddleGeometry /\ SpreadGeometry /\ MarketData
  /\ LegCharge \in Nat /\ MaxMinutes \in Nat /\ MaxSessions \in Nat

VARIABLES legs, entry, path, fraction, tally
structureVars == <<legs, entry, path, fraction, tally>>

NoLegs == [from |-> "no session"]
NoEntry == [call |-> 0, put |-> 0, callWing |-> 0, putWing |-> 0]
Sides == {"call", "put"}
NoBar == 0 - 1
WingOf == [call |-> "callWing", put |-> "putWing"]
Distance(a, b) == IF a < b THEN b - a ELSE a - b

(* round(): to the nearest whole, a half to the even one.                   *)
RoundedTo(n, d) ==
  LET up == 2 * (n % d) > d \/ (2 * (n % d) = d /\ (n \div d) % 2 = 1)
  IN n \div d + (IF up THEN 1 ELSE 0)

-----------------------------------------------------------------------------
(* strike_step: the commonest gap between neighbours, the smaller of two.   *)
GapsOf(strikes) ==
  LET sorted == SetToSortSeq(strikes, <)
  IN [i \in 1..(Len(sorted) - 1) |-> sorted[i + 1] - sorted[i]]
StrikeStep(strikes) ==
  LET gaps == GapsOf(strikes)
      Times(g) == Cardinality({i \in DOMAIN gaps : gaps[i] = g})
  IN CHOOSE g \in Range(gaps) :
       \A h \in Range(gaps) : Times(g) > Times(h) \/ (Times(g) = Times(h) /\ g <= h)

(* The listed strike nearest to a level, the lower of two.                  *)
NearestTo(strikes, level) ==
  CHOOSE k \in strikes : \A j \in strikes :
    Distance(k, level) < Distance(j, level) \/ (Distance(k, level) = Distance(j, level) /\ k <= j)

(* nearest(otm_points=...): of the first expiry in the band that lists the  *)
(* type; refused when the nearest strike is half a step away or further.    *)
AtPoints(chain, type, level) ==
  LET days == {d \in DOMAIN chain : d \in LeastDays..MostDays /\ chain[d][type] # {}}
      soonest == CHOOSE d \in days : \A e \in days : d <= e
      strikes == chain[soonest][type]
      best == NearestTo(strikes, level)
  IN IF days = {} THEN {}
     ELSE IF Cardinality(strikes) < 2 THEN {}
     ELSE IF 2 * Distance(best, level) >= StrikeStep(strikes) THEN {}
     ELSE {[strike |-> best, days |-> soonest]}

(* resolve_legs: four contracts of one expiry, the shorts at one strike,    *)
(* each wing beyond it; or the reason there is no such structure.           *)
ResolveLegs(chain, level) ==
  LET call == AtPoints(chain, "calls", level)
      put == AtPoints(chain, "puts", level)
  IN IF call = {} \/ put = {} THEN [from |-> "short_leg_not_listed"]
     ELSE LET c == CHOOSE x \in call : TRUE
              p == CHOOSE x \in put : TRUE
              callWing == AtPoints(chain, "calls", c.strike + Wing)
              putWing == AtPoints(chain, "puts", p.strike - Wing)
          IN IF c.strike # p.strike THEN [from |-> "would_be_a_strangle"]
             ELSE IF callWing = {} \/ putWing = {} THEN [from |-> "wing_not_listed"]
             ELSE IF Cardinality({x.days : x \in call \cup put \cup callWing \cup putWing}) > 1
                  THEN [from |-> "legs_on_different_expiries"]
             ELSE LET cw == (CHOOSE x \in callWing : TRUE).strike
                      pw == (CHOOSE x \in putWing : TRUE).strike
                  IN IF cw <= c.strike \/ pw >= p.strike THEN [from |-> "wing_collapsed_onto_short"]
                     ELSE [from |-> "resolved", call |-> c.strike, put |-> p.strike,
                           callWing |-> cw, putWing |-> pw]
Widths == [call |-> legs.callWing - legs.call, put |-> legs.put - legs.putWing]

CreditOf(q) == q.call + q.put - q.callWing - q.putWing

(* build_position and the first lines of walk_position.                     *)
Refusal(q) == IF 0 \in Range(q) THEN "leg_unpriced_at_entry"
              ELSE IF CreditOf(q) <= 0 THEN "credit_not_positive"
              ELSE IF CreditOf(q) >= Wing THEN "credit_exceeds_wing"
              ELSE "none"

-----------------------------------------------------------------------------
FirstOf(some) == CHOOSE i \in some : \A j \in some : i <= j
LastOf(some) == CHOOSE i \in some : \A j \in some : j <= i

(* The wing's last close of the whole series, whatever the minute.          *)
WingLatest(minutes, wing, i, opened) ==
  LET traded == {j \in DOMAIN minutes : minutes[j][wing] # 0}
  IN IF traded = {} THEN opened[wing] ELSE minutes[LastOf(traded)][wing]

(* _closes: the minutes in which a leg printed.                             *)
Closes(minutes, leg) == {i \in DOMAIN minutes : minutes[i][leg] # 0}

(* _wing_exit: the wing's close at a minute, or its last before it, or what *)
(* it was bought at.                                                        *)
WingAt(minutes, wing, i, opened) ==
  LET traded == Closes(minutes, wing) \cap 1..i
  IN IF traded = {} THEN opened[wing] ELSE minutes[LastOf(traded)][wing]

Both(minutes, a, b) == Closes(minutes, a) \cap Closes(minutes, b)

(* walk_position: a short leg is bought back at the first close at its      *)
(* stop, the other goes on.                                                 *)
StopsBy(minutes, opened, f, s, i) ==
  {j \in Both(minutes, "call", "put") :
     j <= i /\ f > 0 /\ minutes[j][s] >= RoundedTo(opened[s] * (100 + f), 100)}
BothStopped(minutes, opened, f, i) == \A s \in Sides : StopsBy(minutes, opened, f, s, i) # {}
ShortAt(minutes, opened, f, s, i) ==
  LET stops == StopsBy(minutes, opened, f, s, i)
  IN minutes[IF stops = {} THEN i ELSE FirstOf(stops)][s]

(* What the four legs are closed at when the walk ends at a minute.         *)
ExitsAt(minutes, opened, f, i) ==
  [call |-> ShortAt(minutes, opened, f, "call", i), put |-> ShortAt(minutes, opened, f, "put", i),
   callWing |-> WingAt(minutes, "callWing", i, opened), putWing |-> WingAt(minutes, "putWing", i, opened)]

(* The walk ends with both shorts bought back, at the target, or at the     *)
(* last minute both of them traded.                                         *)
FlyTarget(opened) == RoundedTo(CreditOf(opened) * (100 - TakeHundredth), 100)
FlyEnds(minutes, opened, f) ==
  {i \in Both(minutes, "call", "put") :
     BothStopped(minutes, opened, f, i) \/ CreditOf(ExitsAt(minutes, opened, f, i)) <= FlyTarget(opened)}
WalkEnd(ends, shared) == IF ends = {} THEN LastOf(shared) ELSE FirstOf(ends)
WalkFly(minutes, opened, f) ==
  LET shared == Both(minutes, "call", "put")
      ends == FlyEnds(minutes, opened, f)
      end == WalkEnd(ends, shared)
      alone == \E s \in Sides : StopsBy(minutes, opened, f, s, end) # {}
  IN IF Closes(minutes, "call") = {} THEN [reason |-> "no_bars_after_entry"]
     ELSE IF shared = {} THEN [reason |-> "shorts_never_traded_together"]
     ELSE [reason |-> IF ends = {} THEN (IF alone THEN "one_leg_stopped" ELSE "time")
                      ELSE IF BothStopped(minutes, opened, f, end) THEN "both_legs_stopped" ELSE "target",
           at |-> end, exits |-> ExitsAt(minutes, opened, f, end),
           early |-> \E s \in Sides : \E j \in StopsBy(minutes, opened, f, s, end) : j < end]

(* score_trade: what the structure made per unit before and after the       *)
(* charges of its eight legs, and the two widths less the credit.           *)
GrossOf(opened, exits) == CreditOf(opened) - CreditOf(exits)
NetOfFly(opened, exits) == GrossOf(opened, exits) - 8 * LegCharge
MaxLossOfFly(opened) == Widths.call + Widths.put - CreditOf(opened)
StraddleTrade(opened, walked) ==
  [reason |-> walked.reason, credit |-> CreditOf(opened), net |-> NetOfFly(opened, walked.exits), risk |-> MaxLossOfFly(opened)]

-----------------------------------------------------------------------------
(* _walk_spread: the target before the stop, the last minute both legs      *)
(* traded if neither comes.                                                 *)
SpreadToClose(minutes, i) == minutes[i].call - minutes[i].callWing
SpreadHitsTarget(minutes, credit, i) ==
  SpreadToClose(minutes, i) <= RoundedTo(credit * (100 - TakeHundredth), 100)
SpreadEnds(minutes, credit) ==
  {i \in Both(minutes, "call", "callWing") :
     SpreadHitsTarget(minutes, credit, i) \/ SpreadToClose(minutes, i) >= RoundedTo(credit * SpreadStop, 100)}
WalkSpread(minutes, opened) ==
  LET credit == opened.call - opened.callWing
      shared == Both(minutes, "call", "callWing")
      ends == SpreadEnds(minutes, credit)
      end == WalkEnd(ends, shared)
  IN IF opened.call = 0 \/ opened.callWing = 0 \/ credit <= 0 \/ shared = {} THEN [reason |-> "unresolved"]
     ELSE [reason |-> IF ends = {} THEN "time" ELSE IF SpreadHitsTarget(minutes, credit, end) THEN "target" ELSE "stop",
           at |-> end, toClose |-> SpreadToClose(minutes, end)]

GreaterOf(a, b) == IF a > b THEN a ELSE b

(* _score_trade of the spread: four legs, the risk floored at the credit.   *)
NetOfSpread(credit, toClose) == credit - toClose - 4 * LegCharge
MaxLossOfSpread(credit) == GreaterOf(Widths.call - credit, credit)

-----------------------------------------------------------------------------
StructureInit ==
  /\ legs = NoLegs /\ entry = NoEntry /\ path = <<>> /\ fraction \in StopFractions
  /\ tally = [sessions |-> 0, trades |-> 0, unresolved |-> 0, exceeded |-> 0]

(* _index_level_at: a session the index opened late in has no level.        *)
IndexLevelAt(level) == level # NoBar

(* collect_positions: a session is resolved and priced, or counted with its *)
(* reason.                                                                  *)
OpenSession ==
  /\ legs = NoLegs /\ tally.sessions < MaxSessions
  /\ \E days \in Chains, level \in IndexLevels \cup {NoBar}, q \in LegQuotes :
       LET resolved == IF IndexLevelAt(level) THEN ResolveLegs(days, level) ELSE [from |-> "no_index_bar_at_entry"]
       IN IF resolved.from = "resolved" /\ Refusal(q) = "none"
          THEN /\ legs' = resolved /\ entry' = q
               /\ tally' = [tally EXCEPT !.sessions = @ + 1]
          ELSE /\ UNCHANGED <<legs, entry>>
               /\ tally' = [tally EXCEPT !.sessions = @ + 1, !.unresolved = @ + 1]
  /\ UNCHANGED <<path, fraction>>

(* A minute of the session after the entry.                                 *)
Minute ==
  /\ legs # NoLegs /\ Len(path) < MaxMinutes
  /\ \E m \in Prints : path' = Append(path, m)
  /\ UNCHANGED <<legs, entry, fraction, tally>>

(* label_positions: the trade of the session, or the reason there is none.  *)
LabelSession ==
  /\ legs # NoLegs /\ Len(path) = MaxMinutes
  /\ LET walked == WalkFly(path, entry, fraction)
     IN tally' =
          IF walked.reason \in {"no_bars_after_entry", "shorts_never_traded_together"}
          THEN [tally EXCEPT !.unresolved = @ + 1]
          ELSE LET trade == StraddleTrade(entry, walked)
                   beyond == Distance(trade.net, 0) > trade.risk
               IN [tally EXCEPT !.trades = @ + 1, !.exceeded = @ + (IF beyond THEN 1 ELSE 0),
                                !.unresolved = @ + (IF beyond THEN 1 ELSE 0)]
  /\ legs' = NoLegs /\ entry' = NoEntry /\ path' = <<>>
  /\ UNCHANGED fraction

StructureNext == OpenSession \/ Minute \/ LabelSession
StructureSpec == StructureInit /\ [][StructureNext]_structureVars

-----------------------------------------------------------------------------
(* straddle_lab.py:381-525, spread_lab.py:224-308: a walk that ends before  *)
(* the session does knows nothing of the rest: cut the session where it     *)
(* ended, or anywhere after, and it is the same walk at the same prices.    *)
WalksAreCausal ==
  legs # NoLegs => \A k \in 1..Len(path) :
    LET cut == SubSeq(path, 1, k)
        fly == WalkFly(cut, entry, fraction)
        spread == WalkSpread(cut, entry)
    IN /\ fly.reason \in {"target", "both_legs_stopped"} => fly = WalkFly(path, entry, fraction)
       /\ spread.reason \in {"target", "stop"} => spread = WalkSpread(path, entry)

(* straddle_lab.py:567-606: two wing widths less the credit are the most a  *)
(* fly can lose before charges, as long as no spread of a side is worth     *)
(* more than its width, the wings traded, and no short was bought back      *)
(* before the rest. The spread's own bound needs only the first of these.   *)
Worth(i) == \A s \in Sides : path[i][s] # 0 /\ path[i][WingOf[s]] # 0
                            /\ path[i][s] - path[i][WingOf[s]] \in 0..Widths[s]
LossWithinWings ==
  legs # NoLegs /\ path # <<>> /\ (\A i \in DOMAIN path : Worth(i)) =>
    LET fly == WalkFly(path, entry, fraction)
        credit == entry.call - entry.callWing
        spread == WalkSpread(path, entry)
    IN /\ ~ fly.early => NetOfFly(entry, fly.exits) + 8 * LegCharge >= - MaxLossOfFly(entry)
       /\ spread.reason # "unresolved" =>
            NetOfSpread(credit, spread.toClose) + 4 * LegCharge >= - MaxLossOfSpread(credit)

(* spread_lab.py:275-301: no loser vanishes. A spread sold for a credit     *)
(* whose legs traded together at all after its entry gets an outcome.       *)
NoSurvivorship ==
  legs # NoLegs /\ entry.call > entry.callWing /\ (\E i \in DOMAIN path : path[i].call # 0 /\ path[i].callWing # 0)
    => WalkSpread(path, entry).reason # "unresolved"

(* straddle_lab.py:632-724: every session ends as one trade or as one       *)
(* reason; only the overshoots are counted beside their trades.             *)
SessionsAreCounted ==
  tally.trades + tally.unresolved - tally.exceeded + (IF legs = NoLegs THEN 0 ELSE 1) = tally.sessions

(* The four contracts; what a walk says; a session with its legs priced.    *)
ResolvedLegs == [from : {"resolved"}, call : Nat, put : Nat, callWing : Nat, putWing : Nat]
Walks == [reason : {"target", "time", "one_leg_stopped", "both_legs_stopped"}, at : 1..MaxMinutes,
          exits : OfLegs(Nat), early : BOOLEAN]
SessionPosition ==
  /\ legs \in ResolvedLegs /\ entry \in OfLegs(Nat \ {0})
  /\ path \in Seq(OfLegs(Nat)) /\ Len(path) <= MaxMinutes

StructureTypeOK ==
  /\ fraction \in StopFractions /\ tally \in [DOMAIN tally -> Nat]
  /\ legs # NoLegs => SessionPosition
  /\ legs # NoLegs /\ Both(path, "call", "put") # {} => WalkFly(path, entry, fraction) \in Walks

StructuresAreHonest ==
  StructureTypeOK /\ WalksAreCausal /\ LossWithinWings /\ NoSurvivorship /\ SessionsAreCounted
=================================================================================
