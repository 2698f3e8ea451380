--------------------------------- MODULE Audit ----------------------------------
(***************************************************************************)
(* The audit of the day (te/audit/session_audit.py, run at 15:35 by the    *)
(* scheduler) beside the gates it audits (te/risk/limits.py and the        *)
(* counters of te/persistence/repos/paper_trading.py) and the statistics   *)
(* shown of the trades (te/api/trade_stats.py).                            *)
(*                                                                         *)
(* `book` is the entry ledger: [under, opened, closed, net]; a row has a   *)
(* trade when it is closed. An instant is [day, minute]. The audit counts  *)
(* for itself what the gates counted with other queries.                   *)
(*                                                                         *)
(* A cycle looks at the caps, submits and writes the row in transactions   *)
(* of their own (`entryCycle`, the order it has in hand): the order may    *)
(* fill and its row never be written, the operator may lift a halt and     *)
(* square-offs close rows at any moment between.                           *)
(***************************************************************************)
EXTENDS Integers, Sequences, FiniteSets, FiniteSetsExt

CONSTANTS Instruments,
          Nets,            \* what a closed trade may have made
          MaxTrades, MaxPerUnderlying, MaxPositions, MaxLosses, MaxDailyLoss,
          Marks,           \* what the open positions may be worth, unrealized
          ClosingMinute, LastAuditDay, MaxBook, MaxClears, MaxMishaps

(* The limits of the gates, and those the audit is handed: the same and one *)
(* more.                                                                    *)
RiskLimitsConfig == {MaxDailyLoss, MaxPositions, MaxTrades} \subseteq Nat \ {0} /\ MaxLosses \in Nat \ {0}
AuditLimits == RiskLimitsConfig /\ MaxPerUnderlying \in Nat \ {0}

ASSUME AuditAssumption ==
  /\ AuditLimits /\ {ClosingMinute, LastAuditDay} \subseteq Nat \ {0}
  /\ {MaxBook, MaxClears, MaxMishaps} \subseteq Nat /\ Nets \subseteq Int

VARIABLES clock, book, report,
          dayHalt,         \* the halt flag and its kind
          riskEvents,      \* when the day's daily-loss halts were recorded
          cleared,         \* when the operator lifted a halt in the day
          entryCycle,      \* the cycle running and the order it has in hand
          fills            \* the day's orders, as the venue knows them
auditVars == <<clock, book, report, dayHalt, riskEvents, cleared, entryCycle, fills>>

(* Orders filled, those of them whose row was never written, and rows of    *)
(* orders the venue did not fill.                                           *)
NoFills == [made |-> 0, lost |-> 0, unfilled |-> 0]
NoReport == [fills |-> NoFills, entries |-> 0, findings |-> {}, streak |-> 0]
StillOpen == [day |-> 0, minute |-> 0]

(* One entry of the day, and what the audit says of all of them.            *)
Instants == [day : 1..LastAuditDay, minute : 1..ClosingMinute]
EntryFact == [under : Instruments, opened : Instants, closed : Instants \cup {StillOpen}, net : Nets \cup {0}]
AuditRules == {"max_trades_per_day", "max_entries_per_underlying_per_day", "max_concurrent_positions",
          "max_consecutive_losses", "max_daily_loss", "closed_by_session_end", "no_entries_after_halt"}
Fills == [made : Nat, lost : Nat, unfilled : Nat]
SessionAudit == [fills : Fills, entries : Nat, findings : SUBSET AuditRules, streak : Nat]
EntryCycle == [at : {"idle", "entries"}] \cup [at : {"gated", "filled", "unfilled"}, under : Instruments]
Before(a, b) == a.day < b.day \/ (a.day = b.day /\ a.minute < b.minute)
OpenNow == {i \in DOMAIN book : book[i].closed = StillOpen}
ClosedOn(d) == {i \in DOMAIN book : book[i].closed.day = d}

-----------------------------------------------------------------------------
(* The gates.                                                               *)

(* entries_count_today as it was before August 2026: the exit ledger.       *)
ExitsToday(d) == Cardinality(ClosedOn(d))
EntriesToday(d) == Cardinality({i \in DOMAIN book : book[i].opened.day = d})

(* underlying_entries_today: open rows of any day and trades closed today.  *)
OnUnderlying(u, d) == Cardinality({i \in OpenNow \cup ClosedOn(d) : book[i].under = u})

(* daily_net_pnl_paise.                                                     *)
NetOf(rows) == FoldSet(LAMBDA i, sum : sum + book[i].net, 0, rows)

(* trades_today, newest first, a tie left as it was booked;                 *)
(* _consecutive_loss_streak: the trades before the first that is no loss.   *)
Newer(i, j) == Before(book[j].closed, book[i].closed) \/ (book[i].closed = book[j].closed /\ i < j)
StreakNow(d) ==
  Cardinality({i \in ClosedOn(d) : \A j \in ClosedOn(d) : j = i \/ Newer(j, i) => book[j].net < 0})

MayEnter(u, d) ==
  /\ dayHalt = "no"
  /\ OnUnderlying(u, d) < MaxPerUnderlying
  /\ Cardinality(OpenNow) < MaxPositions
  /\ EntriesToday(d) < MaxTrades
  /\ StreakNow(d) < MaxLosses

-----------------------------------------------------------------------------
(* The audit.                                                               *)

(* A slip of it: the day's entries read from the exit ledger.               *)
CollectedTrades(d) == {i \in DOMAIN book : book[i].opened.day = d /\ book[i].closed # StillOpen}

(* collect_entries: every row opened in the day, its trade joined in.       *)
Collected(d) == {i \in DOMAIN book : book[i].opened.day = d}

(* peak_concurrent: a close before an open at the same instant; an open row *)
(* is held to the end of the day.                                           *)
HeldAt(rows, t) ==
  {i \in rows : ~ Before(t, book[i].opened) /\ (book[i].closed = StillOpen \/ Before(t, book[i].closed))}
PeakHeld(rows) ==
  LET counts == {Cardinality(HeldAt(rows, book[i].opened)) : i \in rows}
  IN IF rows = {} THEN 0 ELSE CHOOSE n \in counts : \A m \in counts : m <= n

(* longest_loss_streak: in the order of the closes, a tie left as it was    *)
(* opened; a flat trade ends one.                                           *)
Sooner(i, j) == Before(book[i].closed, book[j].closed) \/ (book[i].closed = book[j].closed /\ i < j)
LossesUpTo(trades, i) ==
  {j \in trades : ~ Sooner(i, j) /\ \A k \in trades : ~ Sooner(k, j) /\ ~ Sooner(i, k) => book[k].net < 0}
LongestStreak(rows) ==
  LET trades == {i \in rows : book[i].closed # StillOpen}
      runs == {0} \cup {Cardinality(LossesUpTo(trades, i)) : i \in trades}
  IN CHOOSE n \in runs : \A m \in runs : m <= n

Found(rule, broken) == IF broken THEN {rule} ELSE {}

(* Rules 1 to 5, on the day as a whole.                                     *)
OverCaps(rows) ==
  Found("max_trades_per_day", Cardinality(rows) > MaxTrades)
  \cup Found("max_entries_per_underlying_per_day",
             \E u \in Instruments : Cardinality({i \in rows : book[i].under = u}) > MaxPerUnderlying)
  \cup Found("max_concurrent_positions", PeakHeld(rows) > MaxPositions)
  \cup Found("max_consecutive_losses", LongestStreak(rows) > MaxLosses)
  \cup Found("max_daily_loss", NetOf(rows) < - MaxDailyLoss)

(* Rules 11 and 12.                                                         *)
LeftOpen(rows) == Found("closed_by_session_end", \E i \in rows : book[i].closed = StillOpen)
AfterHalt(rows) == Found("no_entries_after_halt", \E i \in rows, t \in riskEvents : Before(t, book[i].opened))

AuditOf(d) ==
  LET rows == Collected(d)
  IN [entries |-> Cardinality(rows), streak |-> LongestStreak(rows),
      findings |-> OverCaps(rows) \cup LeftOpen(rows) \cup AfterHalt(rows)]

(* summarize_trades: the trades in the order of their closes, and the       *)
(* largest fall from a peak of the running total.                           *)
ByClose(rows) == [k \in 1 .. Cardinality(rows) |-> CHOOSE i \in rows : Cardinality({j \in rows : Sooner(j, i)}) = k - 1]
Drawdown(nets) ==
  LET curve[k \in 0 .. Len(nets)] ==
        IF k = 0 THEN [total |-> 0, peak |-> 0, worst |-> 0]
        ELSE LET total == curve[k - 1].total + nets[k]
                 peak == IF total > curve[k - 1].peak THEN total ELSE curve[k - 1].peak
             IN [total |-> total, peak |-> peak,
                 worst |-> IF peak - total > curve[k - 1].worst THEN peak - total ELSE curve[k - 1].worst]
  IN curve[Len(nets)].worst

-----------------------------------------------------------------------------
(* The book begins on a late minute of its first day.                       *)
AuditInit ==
  /\ clock = [day |-> 1, minute |-> ClosingMinute] /\ book = <<>> /\ report = NoReport
  /\ dayHalt = "no" /\ riskEvents = {} /\ cleared = {}
  /\ entryCycle = [at |-> "idle"] /\ fills = NoFills

MoreMishaps == fills.lost + fills.unfilled < MaxMishaps
InSession == clock.minute <= ClosingMinute
Idle == entryCycle.at = "idle"

(* check_killswitch and check_daily_loss_limit on realized and unrealized,  *)
(* once at the start of a cycle: a breach is recorded and halts, and the    *)
(* cycle enters nothing.  An instant of the model holds several cycles.     *)
Unrealized == IF OpenNow = {} THEN {0} ELSE Marks
Breached(unrealized) == NetOf(ClosedOn(clock.day)) + unrealized <= - MaxDailyLoss
BeginsCycle == InSession /\ Idle /\ dayHalt = "no"

LossHalt ==
  /\ BeginsCycle /\ \E mark \in Unrealized : Breached(mark)
  /\ dayHalt' = "daily" /\ riskEvents' = riskEvents \cup {clock}
  /\ UNCHANGED <<clock, book, report, cleared, entryCycle, fills>>

PassLossGate ==
  /\ BeginsCycle /\ \E mark \in Unrealized : ~ Breached(mark)
  /\ entryCycle' = [at |-> "entries"]
  /\ UNCHANGED <<clock, book, report, dayHalt, riskEvents, cleared, fills>>

(* The gates of one underlying; then submit, which looks at the halt flag   *)
(* again and ends the cycle if it is set.  A place_order that raises is     *)
(* swallowed: the venue may or may not have the order.                      *)
PassEntryGates ==
  /\ entryCycle.at = "entries" /\ Len(book) + fills.lost < MaxBook
  /\ \E u \in Instruments :
       MayEnter(u, clock.day) /\ entryCycle' = [at |-> "gated", under |-> u]
  /\ UNCHANGED <<clock, book, report, dayHalt, riskEvents, cleared, fills>>

Submit ==
  /\ entryCycle.at = "gated"
  /\ \/ /\ dayHalt # "no"
        /\ entryCycle' = [at |-> "idle"] /\ UNCHANGED fills
     \/ /\ dayHalt = "no"
        /\ entryCycle' = [entryCycle EXCEPT !.at = "filled"] /\ fills' = [fills EXCEPT !.made = @ + 1]
     \/ /\ dayHalt = "no" /\ MoreMishaps
        /\ entryCycle' = [entryCycle EXCEPT !.at = "unfilled"] /\ UNCHANGED fills
  /\ UNCHANGED <<clock, book, report, dayHalt, riskEvents, cleared>>

(* insert_open_position, a transaction of its own, stamped with the cycle's *)
(* time and whether the order filled or not.                                *)
WriteRow ==
  /\ entryCycle.at \in {"filled", "unfilled"}
  /\ book' = Append(book, [under |-> entryCycle.under, opened |-> clock, closed |-> StillOpen, net |-> 0])
  /\ entryCycle' = [at |-> "entries"]
  /\ fills' = IF entryCycle.at = "filled" THEN fills ELSE [fills EXCEPT !.unfilled = @ + 1]
  /\ UNCHANGED <<clock, report, dayHalt, riskEvents, cleared>>

CycleEnds ==
  /\ entryCycle.at = "entries" /\ entryCycle' = [at |-> "idle"]
  /\ UNCHANGED <<clock, book, report, dayHalt, riskEvents, cleared, fills>>

(* The process dies, or the insert raises: a filled order keeps no row.     *)
CycleDies ==
  /\ ~ Idle /\ MoreMishaps /\ entryCycle' = [at |-> "idle"]
  /\ fills' = IF entryCycle.at = "filled" THEN [fills EXCEPT !.lost = @ + 1] ELSE fills
  /\ UNCHANGED <<clock, book, report, dayHalt, riskEvents, cleared>>

(* run_exit_cycle, or a square-off beside the cycle: the trade is booked.   *)
CloseOne ==
  /\ InSession
  /\ \E i \in OpenNow, net \in Nets :
       book' = [book EXCEPT ![i].closed = clock, ![i].net = net]
  /\ UNCHANGED <<clock, report, dayHalt, riskEvents, cleared, entryCycle, fills>>

(* Any other halt, and clear_halt from the API, at any moment.              *)
OtherHalt ==
  /\ dayHalt # "human" /\ dayHalt' = "human"
  /\ UNCHANGED <<clock, book, report, riskEvents, cleared, entryCycle, fills>>

OperatorClears ==
  /\ dayHalt # "no" /\ Cardinality(cleared) < MaxClears
  /\ dayHalt' = "no" /\ cleared' = cleared \cup {clock}
  /\ UNCHANGED <<clock, book, report, riskEvents, entryCycle, fills>>

NextMinute ==
  /\ InSession /\ Idle
  /\ clock' = [clock EXCEPT !.minute = @ + 1]
  /\ UNCHANGED <<book, report, dayHalt, riskEvents, cleared, entryCycle, fills>>

(* run_session_audit at 15:35.                                              *)
RunAudit ==
  /\ ~ InSession
  /\ report = NoReport
  /\ LET audit == AuditOf(clock.day)
     IN report' = [fills |-> fills, entries |-> audit.entries, streak |-> audit.streak, findings |-> audit.findings]
  /\ UNCHANGED <<clock, book, dayHalt, riskEvents, cleared, entryCycle, fills>>

(* The next session: reset_daily_loss_halt at 09:05, if the job runs, lifts *)
(* the halt of the day and no other.                                        *)
NewDay ==
  /\ ~ InSession /\ clock.day < LastAuditDay
  /\ clock' = [day |-> clock.day + 1, minute |-> 1]
  /\ dayHalt' \in {dayHalt, IF dayHalt = "daily" THEN "no" ELSE dayHalt}
  /\ riskEvents' = {} /\ cleared' = {} /\ fills' = NoFills /\ report' = NoReport
  /\ UNCHANGED <<book, entryCycle>>

AuditNext ==
  \/ LossHalt \/ PassLossGate \/ PassEntryGates \/ Submit \/ WriteRow \/ CycleEnds \/ CycleDies
  \/ CloseOne \/ OtherHalt \/ OperatorClears \/ NextMinute \/ RunAudit \/ NewDay
AuditSpec == AuditInit /\ [][AuditNext]_auditVars

-----------------------------------------------------------------------------
(* session_audit.py:49-61 ("the row exists from the instant of entry") and  *)
(* cycle.py:830-863: the row is written after the order, so the audit       *)
(* misses the fills whose row never was, and those only; and it counts a    *)
(* row whose order never filled.  Still open or closed, it counts the rest. *)
AuditMissesNothing ==
  report.entries = report.fills.made - report.fills.lost + report.fills.unfilled

(* limits.py:184-243 and paper_trading.py:318-436, as session_audit.py      *)
(* judges them: the gates, which count otherwise and long before the row is *)
(* there, leave no day that the audit finds over a cap on entries; and an   *)
(* entry after a daily-loss halt has an operator's reset between the two,   *)
(* so that rule 12 (session_audit.py:489-513) finds no other.               *)
ClearedBetween(t, opened) == \E c \in cleared : ~ Before(c, t) /\ ~ Before(opened, c)
GatesPassTheAudit ==
  /\ report.findings \cap {"max_trades_per_day", "max_entries_per_underlying_per_day"} = {}
  /\ \A t \in riskEvents, i \in Collected(clock.day) : Before(t, book[i].opened) => ClearedBetween(t, book[i].opened)
  /\ "no_entries_after_halt" \in report.findings =>
       \E t \in riskEvents, i \in Collected(clock.day) : ClearedBetween(t, book[i].opened)

(* session_audit.py:271-287, limits.py:80-99, 193-221: the cap on losses is *)
(* looked at on the way in only, so what is still open may carry a streak   *)
(* past its cap, by one less than the positions that may be open. Nothing   *)
(* bounds it on a day that two trades close in one instant, which the gate  *)
(* and the audit put in opposite orders, or that a trade of the day before  *)
(* is closed, which only the gate sees.                                     *)
ClosedOneByOne(d) == \A i, j \in ClosedOn(d) : book[i].closed = book[j].closed => i = j
StreakIsBounded ==
  ClosedOneByOne(clock.day) /\ ClosedOn(clock.day) \subseteq Collected(clock.day)
    => report.streak <= MaxLosses + MaxPositions - 1

(* trade_stats.py:66-76: the drawdown shown is the worst fall between two   *)
(* moments of the account, the start included.                              *)
DeepestFall(nets) ==
  LET account[k \in 0 .. Len(nets)] == IF k = 0 THEN 0 ELSE account[k - 1] + nets[k]
      falls == {account[p[1]] - account[p[2]] : p \in {q \in (0 .. Len(nets)) \X (0 .. Len(nets)) : q[1] <= q[2]}}
  IN CHOOSE f \in falls : \A g \in falls : g <= f
DrawdownIsWorst ==
  ~ InSession =>
  LET order == ByClose(ClosedOn(clock.day))
      nets == [k \in DOMAIN order |-> book[order[k]].net]
  IN Drawdown(nets) = DeepestFall(nets)

AuditTypeOK ==
  /\ clock.day \in 1..LastAuditDay /\ clock.minute \in 1..(ClosingMinute + 1)
  /\ book \in Seq(EntryFact) /\ report \in SessionAudit /\ fills \in Fills
  /\ riskEvents \subseteq Instants /\ dayHalt \in {"no", "daily", "human"}
  /\ entryCycle \in EntryCycle

AuditIsIndependent == /\ AuditTypeOK
                      /\ AuditMissesNothing /\ GatesPassTheAudit /\ StreakIsBounded /\ DrawdownIsWorst
=================================================================================
