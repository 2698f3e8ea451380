------------------------------ MODULE HaltLadder ------------------------------
(***************************************************************************)
(* The persisted halt flag over several days: who sets it, under which     *)
(* label, and who may clear it (execution/halt.py, risk/limits.py, the     *)
(* gates and the exit loop of engine/cycle.py, the 09:05 job of            *)
(* engine/scheduler.py, the reset endpoint of api/routers/engine.py).      *)
(*                                                                         *)
(* A halt is "daily" (kind DAILY_LOSS_HALT, cleared by the 09:05 job) or   *)
(* "human" (no kind: only an operator clears it).  What the account has    *)
(* lost and which contracts are quoted is the environment.                 *)
(***************************************************************************)
EXTENDS Integers

CONSTANTS
  Positions,
  Misfires,     \* TRUE: the 09:05 job may be missed (1 s of grace, no catch-up)
  MaxDays,      \* bound on the days
  MaxResets     \* bound on the operator's resets

ASSUME LadderAssumption ==
  Misfires \in BOOLEAN /\ MaxDays \in Nat /\ MaxResets \in Nat

VARIABLES
  halt,       \* "no", "daily" or "human": the flag and its kind
  haltDay,    \* the day of the last set_halt
  owed,       \* a halt that needs a human was set and no operator has come
  book,       \* [Positions -> Book]
  day, time,  \* the date and the part of the day
  jobDone,    \* the 09:05 job has fired today
  lateRun,    \* a cycle has run to its end past hard_exit_by today
  stage,      \* the next step of the paper cycle
  asOfLate,   \* its as_of is past hard_exit_by
  unseen,     \* the rows its exit loop has still to visit
  overdue,    \* found unpriceable past the hard exit, and not priced since
              \* nor known to an operator who reset the halt
  resets      \* how often the operator has reset

flag  == <<halt, haltDay, owed>>
clock == <<day, time, jobDone, lateRun>>
cycle == <<stage, asOfLate, unseen>>
vars == <<flag, book, clock, cycle, overdue, resets>>

Halt == {"no", "daily", "human"}
Book == {"none", "unpriced", "priced", "closed"}
Time == {"night", "0905", "session", "late"}
Stage == {"idle", "gates", "entries", "exits"}

Init ==
  /\ halt = "no" /\ haltDay = 0 /\ owed = FALSE
  /\ book = [p \in Positions |-> "none"]
  /\ day = 1 /\ time = "night" /\ jobDone = FALSE /\ lateRun = FALSE
  /\ stage = "idle" /\ asOfLate = FALSE /\ unseen = {}
  /\ overdue = {}
  /\ resets = 0

Open == {p \in Positions : book[p] \in {"unpriced", "priced"}}

(* set_halt overwrites flag, reason and kind.                               *)
SetHalt(kind) ==
  /\ halt' = kind
  /\ haltDay' = day
  /\ owed' = (owed \/ kind = "human")

(* clear_halt.                                                              *)
ClearHalt == halt' = "no" /\ UNCHANGED haltDay

-----------------------------------------------------------------------------
(* The paper cycle.                                                         *)

(* open_positions: the exit loop reads its rows once, the open ones.        *)
ToExits == stage' = "exits" /\ unseen' = Open

(* run_once: a halt or a pause goes straight to the exits.                  *)
CycleBegin ==
  /\ stage = "idle" /\ time \in {"session", "late"}
  /\ asOfLate' = (time = "late")
  /\ \E paused \in BOOLEAN :
       IF paused \/ halt # "no" THEN ToExits
                                ELSE stage' = "gates" /\ unseen' = {}
  /\ UNCHANGED <<flag, book, clock, overdue, resets>>

(* The portfolio gates in their order: the daily loss is looked at first,   *)
(* and when it halts, the drawdown is not looked at.                        *)
PortfolioGates ==
  /\ stage = "gates"
  /\ \/ /\ halt # "no"
        /\ UNCHANGED flag /\ ToExits
     \/ /\ halt = "no"                          \* check_daily_loss_limit
        /\ SetHalt("daily") /\ ToExits
     \/ /\ halt = "no"                          \* check_max_drawdown
        /\ SetHalt("human") /\ ToExits
     \/ /\ halt = "no" /\ asOfLate
        /\ UNCHANGED flag /\ ToExits
     \/ /\ halt = "no" /\ ~asOfLate
        /\ stage' = "entries" /\ UNCHANGED <<flag, unseen>>
  /\ UNCHANGED <<book, clock, asOfLate, overdue, resets>>

(* A BUY is filled; draining its fills may meet an overfill, which halts.   *)
Enter(p) ==
  /\ stage = "entries" /\ halt = "no" /\ book[p] = "none"
  /\ book' = [book EXCEPT ![p] = "unpriced"]
  /\ SetHalt("human") \/ UNCHANGED flag
  /\ UNCHANGED <<clock, cycle, overdue, resets>>

EntriesDone ==
  /\ stage = "entries"
  /\ ToExits
  /\ UNCHANGED <<flag, book, clock, asOfLate, overdue, resets>>

Visited(p) == unseen' = unseen \ {p} /\ UNCHANGED <<stage, asOfLate>>


(* A row with a price, now or earlier: held, or closed; past the hard exit  *)
(* it is closed.                                                            *)
VisitPriced(p) ==
  /\ stage = "exits" /\ p \in unseen
  /\ Visited(p)
  /\ \/ book' = [book EXCEPT ![p] = "closed"]
     \/ ~asOfLate /\ book' = [book EXCEPT ![p] = "priced"]
  /\ overdue' = overdue \ {p}
  /\ UNCHANGED <<flag, clock, resets>>

(* A row without any price: nothing but a risk event before the hard exit;  *)
(* past it a halt for a human, unless there is a halt already.              *)
Skip == UNCHANGED flag
HaltForHuman == IF halt = "no" THEN SetHalt("human") ELSE UNCHANGED flag

VisitUnpriced(p) ==
  /\ stage = "exits" /\ p \in unseen /\ book[p] = "unpriced"
  /\ Visited(p)
  /\ IF asOfLate THEN HaltForHuman /\ overdue' = overdue \cup {p}
                 ELSE UNCHANGED <<flag, overdue>>
  /\ UNCHANGED <<book, clock, resets>>

CycleEnd ==
  /\ stage = "exits" /\ unseen = {}
  /\ stage' = "idle"
  /\ lateRun' = (lateRun \/ asOfLate)
  /\ UNCHANGED <<flag, book, day, time, jobDone, asOfLate, unseen, overdue,
                 resets>>

-----------------------------------------------------------------------------
(* clear_daily_halt, and mutated forms of it.                               *)
ClearAnyHalt == ClearHalt
ClearNoHalt == UNCHANGED <<halt, haltDay>>
ClearDailyHalt == IF halt = "daily" THEN ClearHalt ELSE UNCHANGED <<halt, haltDay>>

(* The 09:05 job, reset_daily_loss_halt.                                    *)
DailyReset ==
  /\ time = "0905" /\ ~jobDone
  /\ jobDone' = TRUE
  /\ ClearDailyHalt
  /\ UNCHANGED <<owed, book, day, time, lateRun, cycle, overdue, resets>>

(* POST /api/engine/reset-drawdown-breaker, in an API thread, at any moment *)
(* but between a write of the exit loop and its commit: the loop is one     *)
(* SQLite transaction between two closes.                                   *)
OperatorReset ==
  /\ resets < MaxResets
  /\ halt # "no"
  /\ stage = "exits" => unseen = Open
  /\ ClearHalt
  /\ owed' = FALSE
  /\ overdue' = {}
  /\ resets' = resets + 1
  /\ UNCHANGED <<book, clock, cycle>>

(* The clock.  The cycle runs every minute, so no part of the day passes    *)
(* while one is running for long, and the last one runs past the hard exit. *)
Tick ==
  /\ stage = "idle"
  /\ \/ time = "night" /\ time' = "0905" /\ UNCHANGED <<day, jobDone, lateRun>>
     \/ /\ time = "0905" /\ (jobDone \/ Misfires)
        /\ time' = "session" /\ UNCHANGED <<day, jobDone, lateRun>>
     \/ time = "session" /\ time' = "late" /\ UNCHANGED <<day, jobDone, lateRun>>
     \/ /\ time = "late" /\ lateRun /\ day < MaxDays
        /\ time' = "night" /\ day' = day + 1
        /\ jobDone' = FALSE /\ lateRun' = FALSE
  /\ UNCHANGED <<flag, book, cycle, overdue, resets>>

-----------------------------------------------------------------------------
CycleStep ==
  \/ CycleBegin \/ PortfolioGates \/ EntriesDone \/ CycleEnd
  \/ \E p \in Positions : Enter(p) \/ VisitPriced(p) \/ VisitUnpriced(p)

Next == CycleStep \/ DailyReset \/ OperatorReset \/ Tick

Spec == Init /\ [][Next]_vars

(* The scheduler runs the cycle and the engine goes on with it.             *)
FairSpec == Spec /\ WF_vars(CycleStep)

-----------------------------------------------------------------------------
(* Properties.                                                              *)

TypeOK ==
  /\ halt \in Halt /\ haltDay \in Nat /\ owed \in BOOLEAN
  /\ book \in [Positions -> Book]
  /\ day \in Nat /\ time \in Time /\ jobDone \in BOOLEAN /\ lateRun \in BOOLEAN
  /\ stage \in Stage /\ asOfLate \in BOOLEAN /\ unseen \subseteq Open
  /\ overdue \subseteq Open
  /\ resets \in 0 .. MaxResets

(* A drawdown, an overfill and an unpriceable position past its exit halt   *)
(* the engine until an operator clears it: no daily reset, no daily-loss    *)
(* halt and no new day takes that halt away or relabels it                  *)
(* (clear_daily_halt: "all still require a human").                         *)
HumanHaltStays == owed => halt = "human"

(* "A halt left over from yesterday's daily loss limit must be gone by the  *)
(* time the cycle asks whether it may trade" (build_scheduler): it is, on   *)
(* every day the 09:05 job runs.                                            *)
YesterdaysHaltIsGone ==
  time \in {"session", "late"} /\ jobDone /\ halt = "daily" => haltDay = day

(* A position that cannot be priced past its hard exit does not go          *)
(* unnoticed that day: it gets a price, the engine is halted, or an         *)
(* operator comes (run_exit_cycle).                                         *)
UnpricedIsNoticed ==
  \A p \in Positions, r \in 0 .. MaxResets :
    time = "late" /\ ~lateRun /\ book[p] = "unpriced" /\ resets = r
      ~> halt # "no" \/ book[p] # "unpriced" \/ resets # r

(* "This must NOT clear itself overnight.  It is exactly the case a human   *)
(* has to see" (run_exit_cycle): no entries while a position is overdue.    *)
OverdueBlocksEntries == stage = "entries" => overdue = {}
=============================================================================
