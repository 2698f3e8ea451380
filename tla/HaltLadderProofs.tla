--------------------------- MODULE HaltLadderProofs ---------------------------
(***************************************************************************)
(* Proofs about HaltLadder, for any set of positions, any number of days   *)
(* and of resets: a halt that needs a human stays one, and a daily-loss    *)
(* halt is gone before the session of every day the 09:05 job runs.        *)
(***************************************************************************)
EXTENDS HaltLadder, TLAPS

(* The types of the state are kept by every step.                          *)
THEOREM TypeCorrect == Spec => []TypeOK
<1>1. Init => TypeOK
  <2> SUFFICES ASSUME Init PROVE TypeOK
    OBVIOUS
  <2>1. owed \in BOOLEAN /\ jobDone \in BOOLEAN /\ lateRun \in BOOLEAN /\ asOfLate \in BOOLEAN
    BY Zenon DEF Init
  <2>2. resets \in 0 .. MaxResets
    BY LadderAssumption DEF Init, LadderAssumption
  <2>3. halt \in Halt /\ time \in Time /\ stage \in Stage
    BY DEF Init, Halt, Time, Stage
  <2>4. haltDay \in Nat /\ day \in Nat
    BY DEF Init
  <2>5. book \in [Positions -> Book]
    BY DEF Init, Book
  <2>6. unseen \subseteq Open /\ overdue \subseteq Open
    BY Zenon DEF Init
  <2> QED
    BY <2>1, <2>2, <2>3, <2>4, <2>5, <2>6, Zenon DEF TypeOK
<1>2. TypeOK /\ [Next]_vars => TypeOK'
  <2> SUFFICES ASSUME TypeOK, [Next]_vars PROVE TypeOK'
    OBVIOUS
  <2> USE DEF TypeOK, Halt, Book, Time, Stage, Open, flag, clock, cycle
  <2>1. CASE CycleBegin
    BY <2>1 DEF CycleBegin, ToExits
  <2>2. CASE PortfolioGates
    BY <2>2 DEF PortfolioGates, ToExits, SetHalt
  <2>3. CASE EntriesDone
    BY <2>3 DEF EntriesDone, ToExits
  <2>4. CASE CycleEnd
    BY <2>4 DEF CycleEnd
  <2>5. ASSUME NEW p \in Positions, Enter(p) PROVE TypeOK'
    BY <2>5 DEF Enter, SetHalt
  <2>6. ASSUME NEW p \in Positions, VisitPriced(p) PROVE TypeOK'
    BY <2>6 DEF VisitPriced, Visited
  <2>7. ASSUME NEW p \in Positions, VisitUnpriced(p) PROVE TypeOK'
    BY <2>7 DEF VisitUnpriced, Visited, HaltForHuman, SetHalt
  <2>8. CASE DailyReset
    <3>1. jobDone' \in BOOLEAN
      BY <2>8, Zenon DEF DailyReset
    <3>2. halt' \in Halt /\ haltDay' \in Nat
      BY <2>8 DEF DailyReset, ClearDailyHalt, ClearHalt
    <3>3. UNCHANGED <<owed, book, day, time, lateRun, cycle, overdue, resets>>
      BY <2>8, Zenon DEF DailyReset
    <3> QED
      BY <3>1, <3>2, <3>3
  <2>9. CASE OperatorReset
    <3>1. owed' \in BOOLEAN
      BY <2>9, Zenon DEF OperatorReset
    <3>2. resets' \in 0 .. MaxResets
      BY <2>9, LadderAssumption DEF OperatorReset, LadderAssumption
    <3>3. halt' \in Halt /\ UNCHANGED haltDay /\ overdue' = {}
      BY <2>9 DEF OperatorReset, ClearHalt
    <3>4. UNCHANGED <<book, clock, cycle>>
      BY <2>9, Zenon DEF OperatorReset
    <3> QED
      BY <3>1, <3>2, <3>3, <3>4
  <2>10. CASE Tick
    <3>1. jobDone' \in BOOLEAN /\ lateRun' \in BOOLEAN
      BY <2>10, Zenon DEF Tick
    <3>2. day' \in Nat /\ time' \in Time
      BY <2>10 DEF Tick
    <3>3. UNCHANGED <<flag, book, cycle, overdue, resets>>
      BY <2>10, Zenon DEF Tick
    <3> QED
      BY <3>1, <3>2, <3>3
  <2>11. CASE UNCHANGED vars
    BY <2>11 DEF vars
  <2> QED
    BY <2>1, <2>2, <2>3, <2>4, <2>5, <2>6, <2>7, <2>8, <2>9, <2>10, <2>11
    DEF Next, CycleStep
<1> QED
  BY <1>1, <1>2, PTL DEF Spec

(* A halt that needs a human is never cleared or relabelled by the daily   *)
(* reset, by a daily-loss halt or by time.                                 *)
THEOREM HumanDecides == Spec => []HumanHaltStays
<1>1. Init => HumanHaltStays
  BY DEF Init, HumanHaltStays
<1>2. HumanHaltStays /\ [Next]_vars => HumanHaltStays'
  <2> SUFFICES ASSUME HumanHaltStays, [Next]_vars PROVE HumanHaltStays'
    OBVIOUS
  <2> USE DEF HumanHaltStays, flag
  <2>1. CASE CycleBegin \/ EntriesDone \/ CycleEnd \/ Tick
    BY <2>1 DEF CycleBegin, EntriesDone, CycleEnd, Tick
  <2>2. CASE PortfolioGates
    BY <2>2 DEF PortfolioGates, SetHalt
  <2>3. ASSUME NEW p \in Positions, Enter(p) PROVE HumanHaltStays'
    BY <2>3 DEF Enter, SetHalt
  <2>4. ASSUME NEW p \in Positions, VisitPriced(p) \/ VisitUnpriced(p)
        PROVE HumanHaltStays'
    BY <2>4 DEF VisitPriced, VisitUnpriced, HaltForHuman, SetHalt
  <2>5. CASE DailyReset
    BY <2>5 DEF DailyReset, ClearDailyHalt, ClearHalt
  <2>6. CASE OperatorReset
    BY <2>6 DEF OperatorReset, ClearHalt
  <2>7. CASE UNCHANGED vars
    BY <2>7 DEF vars
  <2> QED
    BY <2>1, <2>2, <2>3, <2>4, <2>5, <2>6, <2>7 DEF Next, CycleStep
<1> QED
  BY <1>1, <1>2, PTL DEF Spec

-----------------------------------------------------------------------------
(* What makes YesterdaysHaltIsGone inductive: the cycle runs in the session *)
(* only, and once the job has run no older daily halt is left.              *)
DailyInv ==
  /\ stage # "idle" => time \in {"session", "late"}
  /\ time = "0905" /\ jobDone /\ halt = "daily" => haltDay = day
  /\ time = "night" => ~jobDone
  /\ YesterdaysHaltIsGone

(* On every day the 09:05 job runs, a daily-loss halt of an earlier day is  *)
(* gone by the time a cycle can run.                                       *)
THEOREM DailyHaltIsDaily == Spec => []YesterdaysHaltIsGone
<1>1. Init => DailyInv
  BY DEF Init, DailyInv, YesterdaysHaltIsGone
<1>2. TypeOK /\ DailyInv /\ [Next]_vars => DailyInv'
  <2> SUFFICES ASSUME TypeOK, DailyInv, [Next]_vars PROVE DailyInv'
    OBVIOUS
  <2> USE DEF DailyInv, YesterdaysHaltIsGone, flag, clock, cycle, TypeOK, Time, Stage, Halt
  <2>1. CASE CycleBegin
    BY <2>1 DEF CycleBegin, ToExits
  <2>2. CASE PortfolioGates
    BY <2>2 DEF PortfolioGates, ToExits, SetHalt
  <2>3. CASE EntriesDone \/ CycleEnd
    BY <2>3 DEF EntriesDone, CycleEnd, ToExits
  <2>4. ASSUME NEW p \in Positions, Enter(p) PROVE DailyInv'
    BY <2>4 DEF Enter, SetHalt
  <2>5. ASSUME NEW p \in Positions, VisitPriced(p) \/ VisitUnpriced(p)
        PROVE DailyInv'
    BY <2>5 DEF VisitPriced, VisitUnpriced, Visited, HaltForHuman, SetHalt
  <2>6. CASE DailyReset
    BY <2>6 DEF DailyReset, ClearDailyHalt, ClearHalt
  <2>7. CASE OperatorReset
    BY <2>7 DEF OperatorReset, ClearHalt
  <2>8. CASE Tick
    BY <2>8 DEF Tick
  <2>9. CASE UNCHANGED vars
    BY <2>9 DEF vars
  <2> QED
    BY <2>1, <2>2, <2>3, <2>4, <2>5, <2>6, <2>7, <2>8, <2>9 DEF Next, CycleStep
<1>3. DailyInv => YesterdaysHaltIsGone
  BY DEF DailyInv
<1> QED
  BY <1>1, <1>2, <1>3, TypeCorrect, PTL DEF Spec
=============================================================================
