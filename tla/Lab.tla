----------------------------------- MODULE Lab -----------------------------------
(***************************************************************************)
(* The strategy lab: one strategy walked over history under the risk       *)
(* limits (te/backtest/strategy_lab.py, run_many), the sweep that collects *)
(* the firings once and replays them from their labels                     *)
(* (te/backtest/sweep.py), the daily report of the trades                  *)
(* (te/backtest/daily.py, report.py) and the scoring of a batch against    *)
(* the trial ledger (te/backtest/scoring.py).                              *)
(*                                                                         *)
(* An instant is day * DayLength + minute. What the market makes of a      *)
(* firing is an outcome [lasts, net, unit]: the minutes until its barrier, *)
(* its net and its price per lot; or it finds no contract or no prints and *)
(* stays unlabelled.                                                       *)
(***************************************************************************)
EXTENDS Integers, Sequences, FiniteSets, SequencesExt

CONSTANTS LabDays, DayLength,
          LastEntry,        \* LAST_ENTRY
          MaxEntries,       \* MAX_ENTRIES_PER_DAY
          Outcomes,
          Capital, LotCap,  \* what sizing may not exceed
          LossLimit, StreakLimit, DropPct,
          MinTrades,        \* MIN_TRADES of a sample that can be scored
          Sharpes,          \* what the trial of another sample may have read
          MaxTrials         \* bound of the trials other runs add

ASSUME LabAssumption ==
  /\ LabDays \in Nat /\ DayLength \in Nat \ {0} /\ LastEntry \in 1..(DayLength - 1) /\ MaxEntries \in Nat
  /\ Capital \in Nat \ {0} /\ LotCap \in Nat /\ LossLimit \in Nat \ {0} /\ StreakLimit \in Nat \ {0}
  /\ DropPct \in 1..100 /\ MinTrades \in Nat /\ MaxTrials \in Nat
  /\ Sharpes \subseteq Int

(* ml/labeling.py:364: a label looks at the minutes after the entry only.   *)
ASSUME OutcomesAssumption ==
  \A o \in Outcomes : o.lasts \in Nat \ {0} /\ o.net \in Int /\ o.unit \in Nat \ {0}

VARIABLES
  at,          \* as_of of the walk
  compound,    \* compound_equity
  firings,     \* what collect_firings collects: [enters, ends, net, unit, labelled]
  entered,     \* entries_today of run_many
  trades,      \* the trades of run_many: the firing, which it is, and its lots
  pending,     \* the trades not settled yet
  account,     \* equity, peak, the day's net, its nets from the last, the flags and their days
  misses,      \* unaffordable, unlabelled
  trials,      \* the Sharpe ratios of the trial ledger in this scope
  scored       \* the batch: who is recorded, the bar each member is held to

labVars == <<at, compound, firings, entered, trades, pending, account, misses, trials, scored>>

LabStart == [equity |-> Capital, peak |-> Capital, dayNet |-> 0, nets |-> <<>>,
          dropped |-> FALSE, halted |-> FALSE, stood |-> FALSE, haltDays |-> 0, standDays |-> 0]
Members == {"walked", "other"}
Unjudged == [n |-> 0, mean |-> 0, spread |-> <<0, 1>>]
NoScore == [recorded |-> {}, batch |-> {}, bar |-> [m \in Members |-> Unjudged], from |-> 0]
DayOf(t) == t \div DayLength
Clipped(t, day) == IF t < (day + 1) * DayLength THEN t ELSE (day + 1) * DayLength - 1

-----------------------------------------------------------------------------
(* te/risk/limits.py: the predicates the live gates ask as well.            *)
LossBreached(net) == net <= - LossLimit
StreakBreached(nets) == Len(nets) >= StreakLimit /\ \A i \in 1..StreakLimit : nets[i] < 0
DropBreached(equity, peak) == peak > 0 /\ 100 * (peak - equity) >= DropPct * peak

(* size_position, reduced to what a stake buys.                             *)
LotsFor(money, unit) ==
  IF money <= 0 THEN 0 ELSE IF money \div unit < LotCap THEN money \div unit ELSE LotCap

(* A settled trade moves the account and is held against each limit. An     *)
(* account that is wiped out stops the run if stakes follow equity          *)
(* (run_many), or in any case (replay): `wiped`.                            *)
Credit(acc, net, wiped) ==
  LET equity == acc.equity + net
      peak == IF equity > acc.peak THEN equity ELSE acc.peak
      loss == ~ acc.halted /\ LossBreached(acc.dayNet + net)
      streak == ~ acc.stood /\ StreakBreached(<<net>> \o acc.nets)
  IN [equity |-> equity, peak |-> peak, dayNet |-> acc.dayNet + net, nets |-> <<net>> \o acc.nets,
      dropped |-> acc.dropped \/ DropBreached(equity, peak) \/ (wiped /\ equity <= 0),
      halted |-> acc.halted \/ loss, stood |-> acc.stood \/ streak,
      haltDays |-> acc.haltDays + (IF loss THEN 1 ELSE 0),
      standDays |-> acc.standDays + (IF streak THEN 1 ELSE 0)]
NewSession(acc) == [acc EXCEPT !.dayNet = 0, !.nets = <<>>, !.halted = FALSE, !.stood = FALSE]
Gated(acc) == acc.dropped \/ acc.halted \/ acc.stood

NetOfTrade(t) == t.of.net * t.lots
EndOf(t) == t.of.ends

(* A slip of what is due, as it was until August 2026: the outcome of a     *)
(* trade is credited once the trade is entered.                             *)
DueAtOnce(upto) == pending

(* _settle: the trades due by an instant, in the order they resolved. The   *)
(* last is credited to the account the others leave.                        *)
DueBy(upto) == {i \in pending : EndOf(trades[i]) <= upto}
ResolvesBefore(i, j) == EndOf(trades[i]) < EndOf(trades[j]) \/ (EndOf(trades[i]) = EndOf(trades[j]) /\ i < j)
LastResolved(some) == CHOOSE i \in some : \A j \in some \ {i} : ResolvesBefore(j, i)
Settled(upto) ==
  LET after[some \in SUBSET DueBy(upto)] ==
        IF some = {} THEN account
        ELSE LET i == LastResolved(some)
             IN Credit(after[some \ {i}], NetOfTrade(trades[i]), compound)
  IN after[DueBy(upto)]
StillPending(upto) == pending \ DueBy(upto)

-----------------------------------------------------------------------------
LabInit ==
  /\ at = DayLength /\ compound \in BOOLEAN /\ firings = <<>> /\ entered = 0 /\ trades = <<>> /\ pending = {}
  /\ account = LabStart /\ misses = [unaffordable |-> 0, unlabelled |-> 0]
  /\ trials = <<>> /\ scored = NoScore

Walking == DayOf(at) <= LabDays
FiredToday == Cardinality({i \in DOMAIN firings : DayOf(firings[i].enters) = DayOf(at)})

(* A minute in which the strategy does not fire.                            *)
Quiet ==
  /\ Walking /\ at % DayLength < LastEntry
  /\ account' = Settled(at) /\ pending' = StillPending(at)
  /\ at' = at + 1
  /\ UNCHANGED <<compound, firings, entered, trades, misses, trials, scored>>

(* A minute in which it does. The sweep's walk takes the firing whatever    *)
(* the account; run_many asks the gates, labels it and sizes it.            *)
Fire ==
  /\ Walking /\ at % DayLength < LastEntry /\ FiredToday < MaxEntries
  /\ \E o \in Outcomes, found \in BOOLEAN :
       LET acc == Settled(at)
           asks == ~ Gated(acc) /\ entered < MaxEntries
           lots == LotsFor(IF compound THEN acc.equity ELSE Capital, o.unit)
           enters == asks /\ found /\ lots > 0
           firing == [enters |-> at, ends |-> Clipped(at + o.lasts, DayOf(at)),
                      net |-> o.net, unit |-> o.unit, labelled |-> found]
       IN /\ found \/ o = CHOOSE any \in Outcomes : TRUE
          /\ account' = acc
          /\ firings' = Append(firings, firing)
          /\ entered' = IF asks THEN entered + 1 ELSE entered
          /\ trades' = IF enters THEN Append(trades, [index |-> Len(firings) + 1, of |-> firing, lots |-> lots]) ELSE trades
          /\ pending' = IF enters THEN StillPending(at) \cup {Len(trades) + 1} ELSE StillPending(at)
          /\ misses' = [unaffordable |-> misses.unaffordable + (IF asks /\ found /\ lots = 0 THEN 1 ELSE 0),
                        unlabelled |-> misses.unlabelled + (IF asks /\ ~ found THEN 1 ELSE 0)]
  /\ at' = at + 1
  /\ UNCHANGED <<compound, trials, scored>>

(* The session is over: what is open settles, the day's state starts anew.  *)
EndSession ==
  /\ Walking /\ at % DayLength = LastEntry
  /\ account' = NewSession(Settled(at + DayLength)) /\ pending' = {} /\ entered' = 0
  /\ at' = (DayOf(at) + 1) * DayLength
  /\ UNCHANGED <<compound, firings, trades, misses, trials, scored>>

-----------------------------------------------------------------------------
(* score_many. A sample of too few trades is neither recorded nor scored.   *)
Ready(m) == m = "other" \/ Len(trades) >= MinTrades

Sample(m) == IF m = "walked" THEN Len(trades) ELSE MinTrades
SharpesOf(m) ==
  LET mean == FoldLeft(LAMBDA sum, t : sum + t.of.net, 0, trades)
  IN IF m = "other" THEN Sharpes ELSE {IF mean > 0 THEN 1 ELSE IF mean < 0 THEN 0 - 1 ELSE 0}

(* Phase 1: the trial of every member is recorded.                          *)
Recorded(m) == [scored EXCEPT !.recorded = @ \cup {m}]

(* _trial_population: how many trials there were, their mean and variance   *)
(* over that many; one trial has neither.                                   *)
Population ==
  LET n == Len(trials)
      total == FoldLeft(+, 0, trials)
      squares == FoldLeft(LAMBDA sum, x : sum + x * x, 0, trials)
  IN IF n < 2 THEN [n |-> 1, mean |-> 0, spread |-> <<0, 1>>]
     ELSE [n |-> n, mean |-> total, spread |-> <<n * squares - total * total, n * n>>]

(* _deflate: the bar is for two trials at least, is never below no skill at *)
(* all, and is as wide as the scatter of one estimate.                      *)
Deflated(observations, population) ==
  [n |-> IF population.n < 2 THEN 2 ELSE population.n,
   mean |-> IF population.mean < 0 THEN 0 ELSE population.mean,
   spread |-> IF population.spread[1] * observations < population.spread[2] THEN <<1, observations>> ELSE population.spread]

RecordTrial ==
  /\ ~ Walking
  /\ \E m \in Members \ scored.recorded :
       /\ Ready(m)
       /\ scored' = IF scored.recorded = {} THEN [Recorded(m) EXCEPT !.from = Len(trials)] ELSE Recorded(m)
       /\ \E sharpe \in SharpesOf(m) : trials' = Append(trials, sharpe)
  /\ UNCHANGED <<at, compound, firings, entered, trades, pending, account, misses>>

(* Phase 2: the population is read once, and judges every member.           *)
ScoreBatch ==
  /\ ~ Walking /\ scored.batch = {} /\ scored.recorded = {m \in Members : Ready(m)}
  /\ scored' = [scored EXCEPT !.batch = @ \cup scored.recorded,
                 !.bar = [m \in Members |-> IF m \in scored.recorded THEN Deflated(Sample(m), Population) ELSE Unjudged]]
  /\ UNCHANGED <<at, compound, firings, entered, trades, pending, account, misses, trials>>

(* Another run of the lab adds its own trial to the scope.                  *)
ForeignTrial ==
  /\ ~ Walking /\ Len(trials) < MaxTrials /\ scored.batch = {}
  /\ \E sharpe \in Sharpes : trials' = Append(trials, sharpe)
  /\ UNCHANGED <<at, compound, firings, entered, trades, pending, account, misses, scored>>

LabNext == Quiet \/ Fire \/ EndSession \/ RecordTrial \/ ScoreBatch \/ ForeignTrial
LabSpec == LabInit /\ [][LabNext]_labVars

-----------------------------------------------------------------------------
(* A signal before any parameter has met it; what came of one.              *)
LabFiring == [enters : Nat, ends : Nat, net : Int, unit : Nat \ {0}, labelled : BOOLEAN]
StrategyTrade == [index : Nat \ {0}, of : LabFiring, lots : 1..LotCap]

(* replay: entries and exits as events of their own, by time, entries       *)
(* before exits of the same minute.                                         *)
Events ==
  LET labelled == {i \in DOMAIN firings : firings[i].labelled}
  IN {[ts |-> firings[i].enters, kind |-> 0, index |-> i, of |-> firings[i]] : i \in labelled}
     \cup {[ts |-> firings[i].ends, kind |-> 1, index |-> i, of |-> firings[i]] : i \in labelled}
EventBefore(e, g) ==
  \/ e.ts < g.ts
  \/ e.ts = g.ts /\ (e.kind < g.kind \/ (e.kind = g.kind /\ e.index < g.index))
LastEvent(some) == CHOOSE e \in some : \A g \in some \ {e} : EventBefore(g, e)

ReplayStart == [day |-> 0, book |-> LabStart, held |-> {}, taken |-> 0, unaffordable |-> 0]
BookOn(r, day) == IF day = r.day THEN r.book ELSE NewSession(r.book)
TakeEntry(r, e, compounding) ==
  LET lots == LotsFor(IF compounding THEN r.book.equity ELSE Capital, e.of.unit)
  IN IF Gated(r.book) THEN r
     ELSE IF lots = 0 THEN [r EXCEPT !.unaffordable = @ + 1]
     ELSE [r EXCEPT !.held = @ \cup {[index |-> e.index, of |-> e.of, lots |-> lots]}, !.taken = @ + 1]
TakeExit(r, e) ==
  LET mine == {t \in r.held : t.index = e.index}
      net == NetOfTrade(CHOOSE t \in mine : TRUE)
  IN IF mine = {} THEN r ELSE [r EXCEPT !.held = @ \ mine, !.book = Credit(@, net, TRUE)]
ReplayStep(r, e, compounding) ==
  LET here == [r EXCEPT !.day = DayOf(e.ts), !.book = BookOn(r, DayOf(e.ts))]
  IN IF e.kind = 0 THEN TakeEntry(here, e, compounding) ELSE TakeExit(here, e)
ReplayOf(events, compounding) ==
  LET after[some \in SUBSET events] ==
        IF some = {} THEN ReplayStart
        ELSE LET e == LastEvent(some) IN ReplayStep(after[some \ {e}], e, compounding)
  IN after[events]

(* What a run comes to, by either way: the walk's account and the misses    *)
(* beside it, or a cell of the sweep's grid.                                *)
BacktestResult ==
  [trades |-> Len(trades), unaffordable |-> misses.unaffordable, halted |-> account.haltDays,
   stood |-> account.standDays, dropped |-> account.dropped, equity |-> account.equity]
SweepCell(replayed) ==
  [trades |-> replayed.taken, unaffordable |-> replayed.unaffordable,
   halted |-> replayed.book.haltDays, stood |-> replayed.book.standDays,
   dropped |-> replayed.book.dropped, equity |-> replayed.book.equity]
Sweep == SweepCell(ReplayOf(Events, compound))

-----------------------------------------------------------------------------
(* te/backtest/daily.py and report.py.                                      *)
Made(some) ==
  LET sum[k \in 0..Len(trades)] ==
        IF k = 0 THEN 0 ELSE sum[k - 1] + (IF k \in some THEN NetOfTrade(trades[k]) ELSE 0)
  IN sum[Len(trades)]
ClosedIn(day) == {i \in DOMAIN trades : DayOf(EndOf(trades[i])) = day}
DailyNet == [d \in {DayOf(EndOf(trades[i])) : i \in DOMAIN trades} |-> Made(ClosedIn(d))]

(* max_drawdown: the deepest fall from a peak, the start being the first.   *)
WorstFall(c, net) ==
  LET total == c.total + net
      top == IF total > c.top THEN total ELSE c.top
  IN [total |-> total, top |-> top, worst |-> IF top - total > c.worst THEN top - total ELSE c.worst]

DailyReport ==
  LET curve[d \in 0..LabDays] ==
        IF d = 0 THEN [total |-> 0, top |-> 0, worst |-> 0]
        ELSE IF d \in DOMAIN DailyNet THEN WorstFall(curve[d - 1], DailyNet[d]) ELSE curve[d - 1]
  IN [sessions |-> Cardinality(DOMAIN DailyNet), total |-> curve[LabDays].total, drawdown |-> curve[LabDays].worst,
      losing |-> Cardinality({d \in DOMAIN DailyNet : DailyNet[d] < 0})]

-----------------------------------------------------------------------------
(* strategy_lab.py:400-415: no trade is sized off money another has not     *)
(* made yet. The stake of a trade is the capital and the nets of the trades *)
(* that had resolved by the minute it was entered, all of them and no other.*)
NoMoneyFromTheFuture ==
  compound => \A i \in DOMAIN trades :
    LET made == {j \in DOMAIN trades : j # i /\ EndOf(trades[j]) <= trades[i].of.enters}
    IN trades[i].lots = LotsFor(Capital + Made(made), trades[i].of.unit)

(* sweep.py:240-375: the replay of the labels, which has no state of the    *)
(* walk, arrives at its account: the same equity, lots, days cut short and  *)
(* refusals. They part only where an entry shares its minute with an exit.  *)
ReplayAgrees ==
  LET apart == \A e, g \in Events : e.kind = 0 /\ g.kind = 1 => e.ts # g.ts
  IN ~ Walking /\ apart => Sweep = BacktestResult

(* strategy_lab.py:579-623, daily.py:147-231: the report of the days is of  *)
(* the same money: its total is what the account gained, and a run that was *)
(* never stopped by the drawdown gate shows no daily drawdown that deep.    *)
ReportIsOfTheAccount ==
  ~ Walking => /\ DailyReport.total = account.equity - Capital
               /\ ~ account.dropped => 100 * DailyReport.drawdown < DropPct * account.peak

(* scoring.py:55-93, 142-221: the members of a batch are judged by one bar, *)
(* which counts all their trials and all that were in the ledger before.    *)
JudgedAlike ==
  scored.batch # {} => \A m \in scored.batch : \A n \in scored.batch :
    /\ scored.bar[m].n = scored.bar[n].n /\ scored.bar[m].mean = scored.bar[n].mean
    /\ scored.bar[m].n >= scored.from + Cardinality(scored.batch)

LabTypeOK ==
  /\ pending \subseteq DOMAIN trades /\ entered \in 0..MaxEntries /\ trials \in Seq(Int)
  /\ firings \in Seq(LabFiring) /\ trades \in Seq(StrategyTrade)
  /\ \A i \in DOMAIN trades : trades[i].index \in DOMAIN firings /\ trades[i].of = firings[trades[i].index]

LabIsHonest == LabTypeOK /\ NoMoneyFromTheFuture /\ ReplayAgrees /\ ReportIsOfTheAccount /\ JudgedAlike
=================================================================================
