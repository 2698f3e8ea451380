---------------------------------- MODULE Sizing ----------------------------------
(***************************************************************************)
(* From a premium to an order and to what it loses: charges                *)
(* (domain/costs.py), net result (domain/pnl.py), where the exits sit      *)
(* (domain/geometry.py), how many lots (risk/sizing.py, risk/regime.py),   *)
(* and the half of the entry cycle that puts them together.                *)
(*                                                                         *)
(* Money is in paise, rates in tenths of a basis point, percentages        *)
(* whole, size multipliers in per cent.                                    *)
(***************************************************************************)
EXTENDS Integers, Sequences, FiniteSets

CONSTANTS
  RateTable,      \* the rows of config/charges.yaml
  TradeDays, Premiums, LotSizes, Equities, FreezeQtys, MlMultipliers,   \* the inputs
  MaxLoss, TargetMultiple,      \* of RupeeRiskGeometry
  StopPct, TargetPct,           \* of PremiumPercentGeometry
  StopPoints, TargetPoints,     \* of AbsolutePointGeometry
  LockPct, LockBufferPct,
  RiskPct, PositionPct, EdgePct,      \* risk_budget_pct, max_position_size_pct, min_edge_multiple
  MaxLots, ThrottlePct

(* One versioned row; the exchange's own charge differs by exchange.        *)
OptionExchanges == {"NFO", "BFO"}
ChargeRates == [from : Nat, order : Nat, stt : Nat, exercise : Nat, exch : [OptionExchanges -> Nat],
                sebi : Nat, gst : Nat, stamp : Nat]

(* settings.py: the money one trade may risk, and where its exits sit.      *)
RiskSettings == {RiskPct, EdgePct, PositionPct} \subseteq Nat
RupeeSettings == {MaxLots, MaxLoss, TargetMultiple} \subseteq Nat \ {0}
PointSettings == {StopPoints, TargetPoints} \subseteq Nat
PercentSettings == StopPct \in 1..99 /\ TargetPct \in Nat \ {0}
LockSettings ==
  /\ LockPct \in Nat \ {0} /\ LockBufferPct \in 1..99
  /\ LockPct < TargetPct      \* PremiumPercentGeometry does not ask for it
ThrottleSettings == ThrottlePct \in 0..75      \* RegimeThrottleConfig's top tercile, under its middle one

(* charges.yaml: no rate is above a tenth of the turnover, the tax on them  *)
(* is no more than they are, and no trade is older than the table.          *)
RatesAreSmall == \A r \in RateTable : /\ r.stt <= 10000 /\ r.sebi <= 10000 /\ r.gst <= 100
                                      /\ \A x \in OptionExchanges : r.exch[x] <= 10000
RatesReachBack == \A on \in TradeDays : \E r \in RateTable : r.from <= on

(* The resolver passes no premium of less than a rupee (min_premium_paise), *)
(* no index option has a lot below six, the model never buys more.          *)
InputsAreSane == (\A p \in Premiums : p >= 100) /\ (\A lot \in LotSizes : lot >= 6) /\ MlMultipliers \subseteq 0..100

ASSUME SizingAssumption ==
  /\ TradeDays \cup Premiums \cup LotSizes \cup Equities \subseteq Nat \ {0}
  /\ FreezeQtys \cup MlMultipliers \subseteq Nat /\ RateTable \subseteq ChargeRates
  /\ RatesAreSmall /\ RatesReachBack /\ InputsAreSane
  /\ RiskSettings /\ RupeeSettings /\ PointSettings /\ PercentSettings /\ LockSettings /\ ThrottleSettings

VARIABLES ticket, pnl
sizingVars == <<ticket, pnl>>

Unset == 0 - 1
NoTicket == [lots |-> 0, why |-> "none"]

SizingInit == ticket = NoTicket /\ pnl = 0

-----------------------------------------------------------------------------
(* costs.py: every component to the nearest paisa, halves up.               *)

HalfUp(n, d) == n \div d + (IF 2 * (n % d) >= d THEN 1 ELSE 0)
Charge(notional, rate) == HalfUp(notional * rate, 100000)

(* The row in force; there is none before the first.                        *)
RatesFor(on) ==
  CHOOSE row \in RateTable : row.from <= on /\ \A other \in RateTable : other.from <= on => other.from <= row.from

Gst(brokerage, exch, sebi, r) == HalfUp((brokerage + exch + sebi) * r.gst, 100)

Leg(r, x, side, premium, qty) ==
  LET notional == premium * qty
      exch == Charge(notional, r.exch[x])
      sebi == Charge(notional, r.sebi)
  IN r.order + exch + sebi + Gst(r.order, exch, sebi, r)
       + (IF side = "SELL" THEN Charge(notional, r.stt) ELSE Charge(notional, r.stamp))

RoundTrip(r, x, entry, exit, qty) ==
  LET both == (entry + exit) * qty
      exch == Charge(both, r.exch[x])
      sebi == Charge(both, r.sebi)
  IN 2 * r.order + exch + sebi + Gst(2 * r.order, exch, sebi, r)
       + Charge(exit * qty, r.stt) + Charge(entry * qty, r.stamp)

(* Only the holder of an option in the money pays, on the intrinsic value.  *)
Settlement(r, intrinsic, qty) == IF intrinsic <= 0 THEN 0 ELSE Charge(intrinsic * qty, r.exercise)

NetPnl(r, x, entry, exit, qty) == (exit - entry) * qty - RoundTrip(r, x, entry, exit, qty)

-----------------------------------------------------------------------------
(* geometry.py: the levels, or why there are none.                          *)

Percent(n, pct) == (n * pct) \div 100

NoLevels(why) == [why |-> why, stop |-> 0, target |-> 0, lock |-> Unset]

PercentLevels(p) ==
  [why |-> "ok", stop |-> p - Percent(p, StopPct), target |-> p + Percent(p, TargetPct), lock |-> p + Percent(p, LockPct)]

PointLevels(p) ==
  IF StopPoints >= p THEN NoLevels("degenerate")
  ELSE [why |-> "ok", stop |-> p - StopPoints, target |-> p + TargetPoints, lock |-> Unset]

(* The stop leaves room for the charges, which depend on the stop: three    *)
(* passes of a fixed point.                                                 *)
GrossDistance(r, x, p, qty) == MaxLoss \div qty
Closer(r, x, p, qty, d) == (MaxLoss - RoundTrip(r, x, p, p - d, qty)) \div qty
TwicePassed(r, x, p, qty) == Closer(r, x, p, qty, Closer(r, x, p, qty, MaxLoss \div qty))
NetDistance(r, x, p, qty) == Closer(r, x, p, qty, TwicePassed(r, x, p, qty))

(* geometry.py: "the cost curve is nearly flat over the small range a stop  *)
(* can move within one position". So flat that the first two passes move    *)
(* the charges by at most a paisa a unit; then the third one settles them.  *)
ASSUME CostCurveIsFlat ==
  \A r \in RateTable, x \in OptionExchanges, p \in Premiums, lot \in LotSizes :
    LET most == lot * MaxLots
    IN RoundTrip(r, x, p, p - TwicePassed(r, x, p, most), most)
         <= RoundTrip(r, x, p, p - (MaxLoss \div most), most) + most

RupeeLevels(r, x, p, qty) ==
  LET d == NetDistance(r, x, p, qty)
      target == p + d * TargetMultiple
      lock == p + Percent(p, LockPct)
  IN IF d <= 0 THEN NoLevels("raises")
     ELSE IF d >= p THEN NoLevels("degenerate")
     ELSE [why |-> "ok", stop |-> p - d, target |-> target, lock |-> IF lock < target THEN lock ELSE Unset]

(* One form of the exits, whatever else is configured: the rupees a trade   *)
(* may lose, per cents of the premium if both are set, or distances.        *)
ExitGeometry(rupees, percents) == IF rupees THEN "rupee" ELSE IF percents THEN "percent" ELSE "points"

Levels(g, r, x, p, qty) ==
  CASE g = "rupee" -> RupeeLevels(r, x, p, qty)
    [] g = "percent" -> PercentLevels(p)
    [] g = "points" -> PointLevels(p)

(* ExitPlan.__post_init__, which runs after the order is in.                *)
PlanAccepted(p, l) ==
  /\ l.stop < p /\ p < l.target
  /\ l.lock # Unset => l.stop < l.lock /\ l.lock < l.target

-----------------------------------------------------------------------------
(* sizing.py.                                                               *)

Least(a, b) == IF a < b THEN a ELSE b
LotsIn(amount, perLot) == IF perLot > 0 THEN amount \div perLot ELSE 0

(* The owner's ceiling, if there is one, comes last.                        *)
Capped(lots, ceiling) == IF ceiling THEN Least(lots, MaxLots) ELSE lots

SizePosition(r, x, capital, p, stop, target, lot, ceiling) ==
  LET edge == (target - p) * lot
      risk == (p - stop) * lot
      byRisk == LotsIn(Percent(capital, RiskPct), risk)
      byCapital == LotsIn(capital, p * lot)
      byPosition == LotsIn(Percent(capital, PositionPct), p * lot)
  IN IF \/ edge <= 0 \/ 100 * edge < RoundTrip(r, x, p, target, lot) * EdgePct
        \/ risk <= 0 \/ byRisk < 1 \/ byCapital < 1 \/ byPosition < 1
     THEN 0
     ELSE Capped(Least(byRisk, Least(byCapital, byPosition)), ceiling)

(* regime.py: thrice the boundaries of the terciles of a sorted history, and *)
(* the multiplier; of it the cycle uses the top one, when throttled.        *)
Boundary(history, i) ==
  LET at == i * (Len(history) - 1)
      j == at \div 3
      over == at % 3
  IN IF over = 0 THEN 3 * history[j + 1] ELSE history[j + 1] * (3 - over) + history[j + 2] * over
RegimePct(vix, history) ==
  IF 3 * vix <= Boundary(history, 1) THEN 100 ELSE IF 3 * vix <= Boundary(history, 2) THEN 75 ELSE ThrottlePct

Composed(a, b) == a * b      \* of 100 * 100

-----------------------------------------------------------------------------
(* run_entry_cycle from the resolved contract to the order.                 *)

FreezeCapped(lots, lot, freeze) ==
  IF freeze < lot THEN lots ELSE Least(lots, freeze \div lot)

Ticket(in) ==
  LET r == RatesFor(in.on)
      most == IF in.ceiling THEN in.lot * MaxLots ELSE in.lot
      l == Levels(ExitGeometry(in.rupees, in.percents), r, in.exchange, in.premium, most)
      sized == SizePosition(r, in.exchange, in.equity, in.premium, l.stop, l.target, in.lot, in.ceiling)
      lots == (sized * Composed(IF in.throttled THEN ThrottlePct ELSE 100, in.ml)) \div 10000
  IN IF l.why # "ok" THEN [lots |-> 0, why |-> l.why]
     ELSE IF sized = 0 THEN [lots |-> 0, why |-> "sizing"]
     ELSE IF lots < 1 THEN [lots |-> 0, why |-> "multiplier"]
     ELSE [lots |-> FreezeCapped(lots, in.lot, in.freeze), why |-> "ok", in |-> in, levels |-> l]

Inputs == [on : TradeDays, exchange : OptionExchanges, rupees : BOOLEAN, percents : BOOLEAN, ceiling : BOOLEAN,
           premium : Premiums, lot : LotSizes, equity : Equities, freeze : FreezeQtys,
           throttled : BOOLEAN, ml : MlMultipliers]

(* CycleConfig.__post_init__: rupees are only pinned by a ceiling of lots.  *)
ConfigAccepted(in) == in.rupees => in.ceiling

Enters ==
  /\ ticket = NoTicket
  /\ \E in \in {i \in Inputs : ConfigAccepted(i)} : ticket' = Ticket(in)
  /\ UNCHANGED pnl

(* The close, at the stop or the target, by the formula of the mark.        *)
Leaves ==
  /\ ticket.lots > 0 /\ pnl = 0
  /\ \E exit \in {ticket.levels.stop, ticket.levels.target} :
       pnl' = NetPnl(RatesFor(ticket.in.on), ticket.in.exchange, ticket.in.premium, exit, ticket.lots * ticket.in.lot)
  /\ UNCHANGED ticket

SizingNext == Enters \/ Leaves
SizingSpec == SizingInit /\ [][SizingNext]_sizingVars

-----------------------------------------------------------------------------
(* An order that goes out is whole: its plan is one ExitPlan accepts, for   *)
(* after the order a refusal would leave a position without a row.          *)
PlanStands == PlanAccepted(ticket.in.premium, ticket.levels)

(* It is within the budget at the stop, the share of one position and the   *)
(* exchange's freeze quantity, through every multiplier.                    *)
WithinBudget ==
  LET in == ticket.in
      qty == ticket.lots * in.lot
  IN /\ (in.premium - ticket.levels.stop) * qty <= Percent(in.equity, RiskPct)
     /\ in.premium * qty <= Percent(in.equity, PositionPct)
     /\ in.freeze >= in.lot => qty <= in.freeze

(* The rupees one trade may lose are what it loses, charges included.       *)
CapIsNet == ticket.in.rupees => pnl >= -MaxLoss

EntryKeepsItsWord == ticket.lots > 0 => PlanStands /\ WithinBudget /\ CapIsNet
=============================================================================
