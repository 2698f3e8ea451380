-------------------------------- MODULE Account --------------------------------
(***************************************************************************)
(* The account's guardrails and its drawdown breaker: PUT /api/engine/     *)
(* guardrails (api/routers/engine.py, engine/state.py) against the entry   *)
(* cycle's portfolio gates (engine/scheduler.py run_once, engine/cycle.py, *)
(* risk/limits.py).                                                        *)
(*                                                                         *)
(* A cycle reads the guardrails and the moment capital was set in one      *)
(* session and gates on them in a later one, after the broker's quotes.    *)
(***************************************************************************)
EXTENDS Integers, Sequences, FiniteSets

CONSTANTS
  Capitals,      \* capitals an operator may enter
  LossLimits,    \* daily loss limits an operator may enter
  Nets, Marks,   \* net results of trades, and of the open positions
  SeedCapital, SeedLoss,   \* Settings.paper_cycle_*
  DrawdownPct,   \* max_drawdown_pct
  MaxTrades,     \* bound on trades
  MaxSaves       \* bound on saves

NoValue == -1000000

ASSUME AccountAssumption ==
  /\ Capitals \cup {SeedCapital} \subseteq Nat \ {0}
  /\ LossLimits \cup {SeedLoss} \subseteq Nat
  /\ Nets \cup Marks \subseteq Int /\ 0 \in Marks
  /\ DrawdownPct \in 1 .. 20
AccountBounds == MaxTrades \in Nat /\ MaxSaves \in Nat
ASSUME AccountBoundsAssumption == AccountBounds

VARIABLES
  stored,     \* the guardrail rows, [capital, loss], or the seed with saved = FALSE
  since,      \* how many trades were closed when capital was last changed, or 0
  trades,     \* the net of every closed trade
  unrealized, \* the mark-to-market of the open positions
  today,      \* how many trades were closed before today
  peak,       \* peak_equity_paise, or NoValue
  halt,       \* "none", "daily" or "human"
  cycle,      \* what the running cycle read, or NoCycle
  top,        \* the highest equity since capital last changed
  excused,    \* the watermark may come from another account, see Save
  saves

account == <<stored, since, peak>>
accountVars == <<account, trades, unrealized, today, halt, cycle, top, excused, saves>>

NoCycle == [capital |-> NoValue, loss |-> NoValue, since |-> 0]

(* total_net_pnl_paise(since), daily_net_pnl_paise.                         *)
SumFrom(s, n) == LET f[i \in 0 .. Len(s)] == IF i <= n THEN 0 ELSE f[i-1] + s[i] IN f[Len(s)]
Realized(from) == SumFrom(trades, from)
Today == SumFrom(trades, today)

Equity == stored.capital + Realized(since) + unrealized
Higher(a, b) == IF a > b THEN a ELSE b
Lower(a, b) == IF a < b THEN a ELSE b

LossCeiling(capital) == (capital * 7) \div 100
Clamped(loss, capital) == Lower(loss, LossCeiling(capital))

(* drawdown_breached, daily_loss_breached.                                  *)
DrawdownBreached(equity, from) == from > 0 /\ (from - equity) * 100 >= DrawdownPct * from
LossBreached(net, limit) == net <= -limit

AccountInit ==
  /\ stored = [saved |-> FALSE, capital |-> SeedCapital, loss |-> SeedLoss]
  /\ since = 0 /\ trades = <<>> /\ unrealized = 0 /\ today = 0
  /\ peak = NoValue /\ halt = "none" /\ cycle = NoCycle
  /\ top = SeedCapital /\ excused = FALSE /\ saves = 0

-----------------------------------------------------------------------------
(* set_guardrails.  A changed capital re-bases the account: the anchor      *)
(* moves and the watermark is forgotten, except on the first save ever.     *)
Rebases(c) == stored.saved /\ c # stored.capital

(* It wrote the new capital for the watermark.                              *)
ForgottenToCapital(c) == c
Forgotten(c) == NoValue

Accepted(c, l) == c > 0 /\ l >= 0 /\ l <= LossCeiling(c)

Save(c, l) ==
  /\ saves < MaxSaves /\ saves' = saves + 1
  /\ IF Accepted(c, l)
     THEN /\ stored' = [saved |-> TRUE, capital |-> c, loss |-> l]
          /\ IF Rebases(c) THEN since' = Len(trades) /\ peak' = Forgotten(c) ELSE UNCHANGED <<since, peak>>
          /\ top' = IF c # stored.capital
                    THEN c + SumFrom(trades, since') + unrealized ELSE top
          /\ excused' = IF c = stored.capital THEN excused
                        ELSE cycle # NoCycle \/ (~stored.saved /\ peak # NoValue)
     ELSE UNCHANGED <<stored, since, peak, top, excused>>
  /\ UNCHANGED <<trades, unrealized, today, halt, cycle>>

-----------------------------------------------------------------------------
(* The cycle: what run_once reads, and the gates of run_entry_cycle.        *)

CycleReads ==
  /\ cycle = NoCycle
  /\ cycle' = [capital |-> stored.capital, loss |-> Clamped(stored.loss, stored.capital),
               since |-> since]
  /\ UNCHANGED <<account, trades, unrealized, today, halt, top, excused, saves>>

CycleEquity == cycle.capital + Realized(cycle.since) + unrealized
Ratchet(e) == IF peak = NoValue THEN e ELSE Higher(peak, e)

CycleGates ==
  /\ cycle # NoCycle
  /\ cycle' = NoCycle
  /\ IF halt # "none" THEN UNCHANGED <<peak, halt>>
     ELSE IF LossBreached(Today + unrealized, cycle.loss)
          THEN halt' = "daily" /\ UNCHANGED <<peak>>
          ELSE /\ peak' = Ratchet(CycleEquity)
               /\ halt' = IF DrawdownBreached(CycleEquity, peak') THEN "human" ELSE halt
  /\ UNCHANGED <<stored, since, trades, unrealized, today, top, excused, saves>>

-----------------------------------------------------------------------------
(* Quotes move, positions are closed, a day ends, the operator resets.      *)

MarkMoves(u) ==
  /\ unrealized' = u
  /\ top' = Higher(top, Equity - unrealized + u)
  /\ UNCHANGED <<account, trades, today, halt, cycle, excused, saves>>

CloseTrade(n) ==
  /\ Len(trades) < MaxTrades
  /\ trades' = Append(trades, n)
  /\ unrealized' = 0
  /\ top' = Higher(top, Equity - unrealized + n)
  /\ UNCHANGED <<account, today, halt, cycle, excused, saves>>

NewDay ==
  /\ cycle = NoCycle /\ today # Len(trades)
  /\ today' = Len(trades)
  /\ halt' \in {halt, IF halt = "daily" THEN "none" ELSE halt}   \* the 09:05 job may be missed
  /\ UNCHANGED <<account, trades, unrealized, cycle, top, excused, saves>>

OperatorResets ==
  /\ halt # "none"
  /\ halt' = "none"
  /\ UNCHANGED <<account, trades, unrealized, today, cycle, top, excused, saves>>

AccountNext ==
  \/ \E c \in Capitals, l \in LossLimits : Save(c, l)
  \/ CycleReads \/ CycleGates
  \/ \E u \in Marks : MarkMoves(u)
  \/ \E n \in Nets : CloseTrade(n)
  \/ NewDay \/ OperatorResets

AccountSpec == AccountInit /\ [][AccountNext]_accountVars

-----------------------------------------------------------------------------
AccountTypeOK ==
  /\ stored \in [saved : BOOLEAN, capital : Nat, loss : Nat]
  /\ trades \in Seq(Int) /\ Len(trades) <= MaxTrades
  /\ {since, today} \subseteq 0 .. Len(trades)
  /\ {unrealized, peak, top} \subseteq Int
  /\ halt \in {"none", "daily", "human"}
  /\ cycle \in [capital : Int, loss : Int, since : Nat]
  /\ excused \in BOOLEAN
  /\ saves \in 0 .. MaxSaves

(* "A check meant to measure trading losses only": an account is halted for *)
(* a drawdown only when its equity is that far below what it has been since *)
(* capital was last changed - unless a change landed between what a cycle   *)
(* read and its gates, or was the first one, over a watermark of the seed.  *)
NoFalseDrawdown ==
  [][halt # "human" /\ halt' = "human" => excused \/ DrawdownBreached(Equity, top)]_accountVars
=============================================================================
