----------------------------- MODULE PositionBook -----------------------------
(***************************************************************************)
(* The life of a position over one session: run_entry_cycle opens it,      *)
(* run_exit_cycle or the square-off endpoint closes it (engine/cycle.py,   *)
(* api/routers/positions.py), over the open_positions and trades tables    *)
(* (persistence/repos/paper_trading.py).                                   *)
(*                                                                         *)
(* One paper cycle runs at a time; square-off requests run beside it in    *)
(* the API's threads.  Every commit and every broker call is a step of its *)
(* own, so the others can run in between, and whoever is running can fail  *)
(* there: an exception that leaves the handler, or the process dying.      *)
(* Each call builds its own SimulatedBroker, which fills at once: a        *)
(* position is bought when its BUY is submitted and sold when a SELL of    *)
(* its whole quantity is.                                                  *)
(***************************************************************************)
EXTENDS Integers, FiniteSets

CONSTANTS
  Positions,         \* one element per BUY order the cycle may mint
  Underlyings,       \* the active instruments of the cycle's config
  UnderlyingOf,      \* [Positions -> Underlyings]
  Priceable,         \* the positions that have a quote or an earlier mark
  MaxOpen,           \* risk_limits.max_concurrent_positions
  MaxTrades,         \* risk_limits.max_trades_per_day
  MaxPerUnderlying,  \* max_entries_per_underlying_per_day
  Requests,          \* square-off requests that may be in flight together
  MaxFailures,       \* bound on how often an actor fails midway
  NoPosition

ASSUME PositionsAssumption ==
  /\ IsFiniteSet(Positions)
  /\ UnderlyingOf \in [Positions -> Underlyings]
  /\ Priceable \subseteq Positions
  /\ NoPosition \notin Positions
ASSUME LimitsAssumption == {MaxOpen, MaxTrades, MaxPerUnderlying, MaxFailures} \subseteq Nat
ASSUME RequestsAssumption == "cycle" \notin Requests

VARIABLES
  row,       \* [Positions -> {"none", "open", "closed"}]: open_positions
  trades,    \* the trades table: <<position, id>>
  bought,    \* the positions whose BUY was filled
  sold,      \* [Positions -> Nat]: how many SELLs of it were filled
  halted,    \* the persisted halt flag
  late,      \* the clock has passed hard_exit_by
  stage,     \* [Actors -> Stage]: the next step of each call
  target,    \* [Actors -> Positions or NoPosition]: what it is about
  asOfLate,  \* whether the running cycle's as_of is past hard_exit_by
  todo,      \* the instruments the running entry cycle has still to visit
  current,   \* the one it is at, as a set of at most one
  openSeen,  \* the open rows of that underlying it has counted
  unseen,    \* the rows the running exit cycle has read and not yet visited
  failures   \* how often an actor has failed

tables == <<row, trades>>
fills  == <<bought, sold>>
loops  == <<asOfLate, todo, current, openSeen, unseen>>
vars == <<tables, fills, halted, late, stage, target, loops, failures>>

Actors == {"cycle"} \cup Requests
EntryStage == {"risk", "instruments", "counting", "gates", "buying", "booking"}
CloseStage == {"selling", "closing"}
Stage == {"idle", "reading", "exits"} \cup EntryStage \cup CloseStage

Init ==
  /\ row = [p \in Positions |-> "none"]
  /\ trades = {}
  /\ bought = {}
  /\ sold = [p \in Positions |-> 0]
  /\ halted = FALSE
  /\ late = FALSE
  /\ stage = [a \in Actors |-> "idle"]
  /\ target = [a \in Actors |-> NoPosition]
  /\ asOfLate = FALSE
  /\ todo = {}
  /\ current = {}
  /\ openSeen = 0
  /\ unseen = {}
  /\ failures = 0

On(u) == {p \in Positions : UnderlyingOf[p] = u}
OpenRows == {p \in Positions : row[p] = "open"}
Entries == {p \in Positions : row[p] # "none"}
TradesOn(u) == {t \in trades : t[1] \in On(u)}

At(a, s) == stage[a] = s
Goto(a, s) == stage' = [stage EXCEPT ![a] = s]
About(a, p) == target' = [target EXCEPT ![a] = p]

-----------------------------------------------------------------------------
(* PaperCycleRunner.run_once: a pause or a halt skips the entry cycle only. *)

BeginSkipsExits(paused) ==
  Goto("cycle", IF halted \/ paused THEN "idle" ELSE "risk")
AfterGates(paused) ==
  Goto("cycle", IF halted \/ paused THEN "reading" ELSE "risk")

CycleBegin ==
  /\ At("cycle", "idle")
  /\ \E paused \in BOOLEAN : AfterGates(paused)
  /\ asOfLate' = late
  /\ UNCHANGED <<tables, fills, halted, late, target, todo, current, openSeen,
                 unseen, failures>>

-----------------------------------------------------------------------------
(* run_entry_cycle.                                                         *)

(* The portfolio gates, once per cycle: the kill switch, the daily loss and *)
(* drawdown limits, which set the halt, and the late-entry cut-off.         *)
RiskGates ==
  /\ At("cycle", "risk")
  /\ \/ /\ ~halted /\ ~asOfLate
        /\ Goto("cycle", "instruments")
        /\ todo' = Underlyings
        /\ UNCHANGED halted
     \/ /\ halted \/ asOfLate
        /\ Goto("cycle", "reading")
        /\ UNCHANGED <<halted, todo>>
     \/ /\ ~halted
        /\ halted' = TRUE
        /\ Goto("cycle", "reading")
        /\ UNCHANGED todo
  /\ UNCHANGED <<tables, fills, late, target, asOfLate, current, openSeen,
                 unseen, failures>>

(* The next instrument: the strategy has no signal, or it has one and the   *)
(* open positions of the underlying are counted.                            *)
Evaluate ==
  /\ At("cycle", "instruments")
  /\ \E u \in todo :
       /\ todo' = todo \ {u}
       /\ \/ /\ Goto("cycle", "counting")
             /\ current' = {u}
             /\ openSeen' = Cardinality(OpenRows \cap On(u))
          \/ UNCHANGED <<stage, current, openSeen>>
  /\ UNCHANGED <<tables, fills, halted, late, target, asOfLate, unseen, failures>>

EntriesDone ==
  /\ At("cycle", "instruments") /\ todo = {}
  /\ Goto("cycle", "reading")
  /\ UNCHANGED <<tables, fills, halted, late, target, loops, failures>>

(* underlying_entries_today's second query counts the trades closed today;  *)
(* a row closed since the first one is counted by both.                     *)
CountOpenOnly(u) == openSeen
CountEntries(u) == openSeen + Cardinality(TradesOn(u))

NextInstrument ==
  /\ Goto("cycle", "instruments")
  /\ current' = {}
  /\ openSeen' = 0

CountTrades ==
  /\ At("cycle", "counting")
  /\ \E u \in current :
       \/ /\ CountEntries(u) < MaxPerUnderlying
          /\ Goto("cycle", "gates")
          /\ UNCHANGED <<current, openSeen>>
       \/ /\ CountEntries(u) >= MaxPerUnderlying
          /\ NextInstrument
  /\ UNCHANGED <<tables, fills, halted, late, target, asOfLate, todo, unseen,
                 failures>>

PassesOneTooMany ==
  /\ ~halted
  /\ Cardinality(OpenRows) <= MaxOpen
  /\ Cardinality(Entries) < MaxTrades
PassesGates ==
  /\ ~halted
  /\ Cardinality(OpenRows) < MaxOpen
  /\ Cardinality(Entries) < MaxTrades

(* The gates repeated per instrument, then everything that can still turn   *)
(* the signal down: losing streak, no contract, no stop, no lots, ML veto.  *)
InstrumentGates ==
  /\ At("cycle", "gates")
  /\ \/ /\ PassesGates
        /\ \E u \in current : On(u) \ bought # {}    \* bound: Positions
        /\ Goto("cycle", "buying")
        /\ UNCHANGED <<current, openSeen>>
     \/ NextInstrument
  /\ UNCHANGED <<tables, fills, halted, late, target, asOfLate, todo, unseen,
                 failures>>

(* execution.submit of the BUY.  Its own halt check raises HaltedError,     *)
(* which leaves run_once: no exit cycle this minute.                        *)
SubmitBuy ==
  /\ At("cycle", "buying")
  /\ \/ /\ halted
        /\ Goto("cycle", "idle")
        /\ todo' = {} /\ current' = {} /\ openSeen' = 0
        /\ UNCHANGED <<bought, target>>
     \/ /\ ~halted
        /\ \E u \in current : \E p \in On(u) \ bought :
             /\ bought' = bought \cup {p}
             /\ About("cycle", p)
        /\ Goto("cycle", "booking")
        /\ UNCHANGED <<todo, current, openSeen>>
  /\ UNCHANGED <<tables, sold, halted, late, asOfLate, unseen, failures>>

(* insert_open_position, in a transaction of its own after the fill.        *)
BookEntry ==
  /\ At("cycle", "booking")
  /\ row' = [row EXCEPT ![target["cycle"]] = "open"]
  /\ About("cycle", NoPosition)
  /\ NextInstrument
  /\ UNCHANGED <<trades, fills, halted, late, asOfLate, todo, unseen, failures>>

-----------------------------------------------------------------------------
(* run_exit_cycle: one query at the start; the rows are then held as they   *)
(* were read (expire_on_commit is off).                                     *)

ReadRows ==
  /\ At("cycle", "reading")
  /\ unseen' = OpenRows
  /\ Goto("cycle", "exits")
  /\ UNCHANGED <<tables, fills, halted, late, target, asOfLate, todo, current,
                 openSeen, failures>>

(* No exit is due, or there is no price to act on.                          *)
Hold(p) ==
  /\ At("cycle", "exits") /\ p \in unseen
  /\ ~(asOfLate /\ p \in Priceable)
  /\ unseen' = unseen \ {p}
  /\ UNCHANGED <<tables, fills, halted, late, stage, target, asOfLate, todo,
                 current, openSeen, failures>>

(* A stop, target, trail or the clock fires: _close_position begins, and    *)
(* commits the marks.                                                       *)
FireExit(p) ==
  /\ At("cycle", "exits") /\ p \in unseen
  /\ p \in Priceable
  /\ unseen' = unseen \ {p}
  /\ About("cycle", p)
  /\ Goto("cycle", "selling")
  /\ UNCHANGED <<tables, fills, halted, late, asOfLate, todo, current, openSeen,
                 failures>>

ExitsDone ==
  /\ At("cycle", "exits") /\ unseen = {}
  /\ Goto("cycle", "idle")
  /\ UNCHANGED <<tables, fills, halted, late, target, loops, failures>>

(* POST /api/positions/squareoff: find_open_position takes any open row of  *)
(* the symbol; the endpoint's earlier look-ups change nothing.              *)
SquareOff(r) ==
  /\ At(r, "idle")
  /\ \E p \in OpenRows \cap Priceable : About(r, p)
  /\ Goto(r, "selling")
  /\ UNCHANGED <<tables, fills, halted, late, loops, failures>>

(* _close_position: the SELL is reduce_only, so no halt stops it, and its   *)
(* outcome is not looked at.                                                *)
Sell(a) ==
  /\ At(a, "selling")
  /\ sold' = [sold EXCEPT ![target[a]] = @ + 1]
  /\ Goto(a, "closing")
  /\ UNCHANGED <<tables, bought, halted, late, target, loops, failures>>

(* mark_position_closed and insert_trade, in one commit.                    *)
TradeOf(p) == trades' = trades \cup {<<p, Cardinality(trades) + 1>>}
RecordCloseNoTrade(a) ==
  /\ row' = [row EXCEPT ![target[a]] = "closed"]
  /\ UNCHANGED trades
RecordCloseNoMark(a) ==
  /\ UNCHANGED row
  /\ TradeOf(target[a])
RecordClose(a) ==
  /\ row' = [row EXCEPT ![target[a]] = "closed"]
  /\ TradeOf(target[a])

BookClose(a) ==
  /\ At(a, "closing")
  /\ RecordClose(a)
  /\ About(a, NoPosition)
  /\ Goto(a, IF a = "cycle" THEN "exits" ELSE "idle")
  /\ UNCHANGED <<fills, halted, late, loops, failures>>

-----------------------------------------------------------------------------
(* An exception leaves the handler, or the process dies, before its next    *)
(* step: what is not committed is gone, fills and commits stay.             *)
Fail(a) ==
  /\ failures < MaxFailures
  /\ ~At(a, "idle")
  /\ failures' = failures + 1
  /\ Goto(a, "idle")
  /\ About(a, NoPosition)
  /\ IF a = "cycle" THEN todo' = {} /\ current' = {} /\ openSeen' = 0 /\ unseen' = {}
                    ELSE UNCHANGED <<todo, current, openSeen, unseen>>
  /\ UNCHANGED <<tables, fills, halted, late, asOfLate>>

(* The halt flag moves for reasons outside the book (see HaltLadder).       *)
HaltMoves ==
  /\ halted' = ~halted
  /\ UNCHANGED <<tables, fills, late, stage, target, loops, failures>>

ClockPassesHardExit ==
  /\ ~late
  /\ late' = TRUE
  /\ UNCHANGED <<tables, fills, halted, stage, target, loops, failures>>

-----------------------------------------------------------------------------
EntryStep ==
  RiskGates \/ Evaluate \/ EntriesDone \/ CountTrades \/ InstrumentGates
    \/ SubmitBuy \/ BookEntry
ExitStep ==
  \/ ReadRows \/ ExitsDone
  \/ \E p \in Positions : Hold(p) \/ FireExit(p)
CloseStep(a) == Sell(a) \/ BookClose(a)
CycleStep == CycleBegin \/ EntryStep \/ ExitStep \/ CloseStep("cycle")
Environment == HaltMoves \/ ClockPassesHardExit

Next ==
  \/ CycleStep
  \/ \E r \in Requests : SquareOff(r) \/ CloseStep(r)
  \/ \E a \in Actors : Fail(a)
  \/ Environment

Spec == Init /\ [][Next]_vars

(* The scheduler runs the cycle every minute of the session (dry-run mode), *)
(* and a running cycle goes on.  Nothing else is promised.                  *)
FairSpec == Spec /\ WF_vars(CycleStep)

-----------------------------------------------------------------------------
(* Properties.                                                              *)

TypeOK ==
  /\ row \in [Positions -> {"none", "open", "closed"}]
  /\ trades \subseteq Positions \X Nat /\ IsFiniteSet(trades)
  /\ bought \subseteq Positions
  /\ sold \in [Positions -> Nat]
  /\ halted \in BOOLEAN /\ late \in BOOLEAN /\ asOfLate \in BOOLEAN
  /\ stage \in [Actors -> Stage]
  /\ target \in [Actors -> Positions \cup {NoPosition}]
  /\ \A a \in Actors :
       target[a] \in Positions <=> stage[a] \in {"booking"} \cup CloseStage
  /\ todo \subseteq Underlyings /\ current \subseteq Underlyings
  /\ openSeen \in Nat
  /\ unseen \subseteq Positions
  /\ failures \in 0 .. MaxFailures

Holding == {p \in bought : sold[p] = 0}
Within(S, T) ==
  /\ Cardinality(S) <= MaxOpen
  /\ Cardinality(T) <= MaxTrades
  /\ \A u \in Underlyings : Cardinality(T \cap On(u)) <= MaxPerUnderlying

(* As long as nothing failed, whatever square-offs run beside the cycle,    *)
(* what the broker holds and what we bought this session stay within the    *)
(* limits, although the gates count rows, in several queries, before the    *)
(* order is sent (check_max_concurrent_positions, check_max_trades_per_day, *)
(* underlying_entries_today).                                               *)
FillsWithinLimits == failures = 0 => Within(Holding, bought)

(* With failures anywhere the limits still hold of the tables.              *)
RowsWithinLimits == Within(OpenRows, Entries)

(* max_concurrent_positions, max_trades_per_day and                         *)
(* max_entries_per_underlying_per_day, of the tables and, until a step      *)
(* fails, of the broker (run_entry_cycle).                                  *)
WithinLimits == RowsWithinLimits /\ FillsWithinLimits

(* The trades table and the order log never part: a position is closed if   *)
(* and only if it has a trade, and every trade has a SELL of its own, also  *)
(* when two actors close one position or one fails between the SELL and the *)
(* commit (_close_position).                                                *)
TradesHaveSells ==
  \A p \in Positions :
    /\ row[p] = "closed" <=> \E t \in trades : t[1] = p
    /\ Cardinality({t \in trades : t[1] = p}) <= sold[p]

(* A reduce_only order never opens exposure (OrderRequest.reduce_only): no  *)
(* position is sold twice.                                                  *)
NeverShort == \A p \in Positions : sold[p] <= 1

(* Alone and without failures the cycle implements the ledger, halts and    *)
(* pauses included: no position is sold twice or bought past a limit.       *)
Pos == [p \in Positions |->
          IF p \notin bought THEN "none"
          ELSE IF sold[p] = 0 THEN "held" ELSE IF sold[p] = 1 THEN "flat" ELSE "short"]
Ledger == INSTANCE PositionLedger WITH pos <- Pos
ImplementsLedger == Ledger!Spec

(* Past the hard exit every open position that can be priced is closed,     *)
(* whatever the halt flag and the pause do and however often a cycle fails  *)
(* (run_once: "exits still run").                                           *)
PastHardExitCloses ==
  \A p \in Priceable : late /\ row[p] = "open" ~> row[p] = "closed"
=============================================================================
