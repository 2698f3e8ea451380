-------------------------- MODULE PositionBookProofs --------------------------
(***************************************************************************)
(* Theorems of PositionBook for every set of positions, underlyings and    *)
(* requests and every value of the limits.                                 *)
(***************************************************************************)
EXTENDS PositionBook, FiniteSetTheorems, TLAPS

LEMMA CycleIsActor == "cycle" \in Actors
BY DEF Actors

(* Everything the engine counts is a set of positions or of trades.         *)
LEMMA CountOpenType == ASSUME NEW u PROVE Cardinality(OpenRows \cap On(u)) \in Nat
<1>1. IsFiniteSet(OpenRows \cap On(u))
  BY PositionsAssumption, FS_Subset DEF OpenRows, On
<1>2. QED
  BY <1>1, FS_CardinalityType

LEMMA TypeInit == Init => TypeOK
<1> SUFFICES ASSUME Init PROVE TypeOK
  OBVIOUS
<1>1. IsFiniteSet(trades)
  BY FS_EmptySet DEF Init
<1>2. MaxFailures \in Nat
  BY LimitsAssumption
<1>3. /\ stage \in [Actors -> Stage] /\ target \in [Actors -> Positions \cup {NoPosition}]
      /\ \A a \in Actors :
           target[a] \in Positions <=> stage[a] \in {"booking"} \cup CloseStage
  BY PositionsAssumption DEF Init, Stage, CloseStage
<1>4. /\ trades \subseteq Positions \X Nat /\ bought \subseteq Positions
      /\ todo \subseteq Underlyings /\ current \subseteq Underlyings
      /\ unseen \subseteq Positions
      /\ halted \in BOOLEAN /\ late \in BOOLEAN /\ asOfLate \in BOOLEAN
  BY Zenon DEF Init
<1>5. openSeen \in Nat /\ failures \in 0 .. MaxFailures
  BY <1>2, SMT DEF Init
<1>6. row \in [Positions -> {"none", "open", "closed"}] /\ sold \in [Positions -> Nat]
  BY DEF Init
<1>7. QED
  BY <1>1, <1>3, <1>4, <1>5, <1>6 DEF TypeOK

LEMMA TypeStep == TypeOK /\ [Next]_vars => TypeOK'
<1> SUFFICES ASSUME TypeOK, [Next]_vars PROVE TypeOK'
  OBVIOUS
<1> USE CycleIsActor, PositionsAssumption, LimitsAssumption
<1> USE DEF TypeOK, tables, fills, loops, At, Goto, About, Stage, EntryStage, CloseStage
<1>1. CASE CycleBegin
  BY <1>1 DEF CycleBegin, AfterGates
<1>2. CASE RiskGates
  BY <1>2 DEF RiskGates
<1>3. CASE Evaluate
  BY <1>3, CountOpenType DEF Evaluate
<1>4. CASE EntriesDone \/ ReadRows \/ ExitsDone
  BY <1>4 DEF EntriesDone, ReadRows, ExitsDone, OpenRows
<1>5. CASE CountTrades
  BY <1>5 DEF CountTrades, NextInstrument
<1>6. CASE InstrumentGates
  BY <1>6 DEF InstrumentGates, NextInstrument
<1>7. CASE SubmitBuy
  <2>1. CASE halted
    BY <1>7, <2>1 DEF SubmitBuy
  <2>2. CASE ~halted
    <3>1. PICK p \in Positions : bought' = bought \cup {p} /\ About("cycle", p)
      BY <1>7, <2>2 DEF SubmitBuy, On
    <3>2. QED
      BY <1>7, <2>2, <3>1 DEF SubmitBuy
  <2>3. QED
    BY <2>1, <2>2
<1>8. CASE BookEntry
  BY <1>8 DEF BookEntry, NextInstrument
<1>9. CASE \E p \in Positions : Hold(p) \/ FireExit(p)
  BY <1>9 DEF Hold, FireExit
<1>10. CASE \E a \in Actors : Sell(a)
  <2>1. PICK a \in Actors : Sell(a)
    BY <1>10
  <2>2. target[a] \in Positions
    BY <2>1 DEF Sell
  <2>3. QED
    BY <2>1, <2>2 DEF Sell
<1>11. CASE \E a \in Actors : BookClose(a)
  <2>1. PICK a \in Actors : BookClose(a)
    BY <1>11
  <2>2. target[a] \in Positions
    BY <2>1 DEF BookClose
  <2> DEFINE t == <<target[a], Cardinality(trades) + 1>>
  <2>3. trades' = trades \cup {t}
    BY <2>1 DEF BookClose, RecordClose, TradeOf
  <2>4. t \in Positions \X Nat
    BY <2>2, FS_CardinalityType
  <2> HIDE DEF t
  <2>5. IsFiniteSet(trades')
    BY <2>3, FS_AddElement
  <2>6. trades' \subseteq Positions \X Nat
    BY <2>3, <2>4
  <2>7. QED
    BY <2>1, <2>2, <2>5, <2>6 DEF BookClose, RecordClose
<1>12. CASE \E r \in Requests : SquareOff(r)
  <2>1. PICK r \in Requests : SquareOff(r)
    BY <1>12
  <2>2. PICK p \in OpenRows : About(r, p)
    BY <2>1 DEF SquareOff
  <2>3. r \in Actors /\ p \in Positions
    BY DEF Actors, OpenRows
  <2>4. QED
    BY <2>1, <2>2, <2>3 DEF SquareOff
<1>13. CASE \E a \in Actors : Fail(a)
  BY <1>13 DEF Fail
<1>14. CASE HaltMoves \/ ClockPassesHardExit
  BY <1>14 DEF HaltMoves, ClockPassesHardExit
<1>15. CASE UNCHANGED vars
  BY <1>15 DEF vars
<1>16. Requests \subseteq Actors
  BY DEF Actors
<1>17. QED
  BY <1>1, <1>2, <1>3, <1>4, <1>5, <1>6, <1>7, <1>8, <1>9, <1>10, <1>11, <1>12,
     <1>13, <1>14, <1>15, <1>16
     DEF Next, CycleStep, EntryStep, ExitStep, CloseStep, Environment

(* Every variable keeps its type, and an actor has a position in hand       *)
(* exactly while it is between finding and recording it (run_entry_cycle,   *)
(* _close_position), for any number of requests and failures.               *)
THEOREM TypeCorrect == Spec => []TypeOK
<1>1. QED
  BY TypeInit, TypeStep, PTL DEF Spec

-----------------------------------------------------------------------------
(* The limits, of the tables, whatever requests and failures do.  The gates *)
(* read them at three moments before the order; RowInv says what each       *)
(* reading still guarantees when the row is written: square-offs only       *)
(* close rows and add trades, which makes what was read an overestimate.    *)

EntriesOn(u) == Entries \cap On(u)

ClosedRowsHaveTrades == \A p \in Positions : row[p] = "closed" => \E t \in trades : t[1] = p
RowsInHand ==
  /\ \A a \in Actors : stage[a] \in CloseStage => row[target[a]] # "none"
  /\ unseen \subseteq Entries
CountIsEnough ==
  stage["cycle"] = "counting" =>
    \A u \in current : Cardinality(EntriesOn(u)) <= openSeen + Cardinality(TradesOn(u))
UnderlyingHasRoom ==
  stage["cycle"] \in {"gates", "buying", "booking"} =>
    \A u \in current : Cardinality(EntriesOn(u)) < MaxPerUnderlying
BookHasRoom ==
  stage["cycle"] \in {"buying", "booking"} =>
    Cardinality(OpenRows) < MaxOpen /\ Cardinality(Entries) < MaxTrades
BuysTheCurrent ==
  stage["cycle"] = "booking" => UnderlyingOf[target["cycle"]] \in current

OneAtATime == \A u, v \in current : u = v

RowInv ==
  /\ TypeOK
  /\ OneAtATime
  /\ ClosedRowsHaveTrades
  /\ RowsInHand
  /\ CountIsEnough
  /\ UnderlyingHasRoom
  /\ BookHasRoom
  /\ BuysTheCurrent
  /\ RowsWithinLimits

LEMMA RowSetsFinite ==
  /\ IsFiniteSet(OpenRows) /\ Cardinality(OpenRows) \in Nat
  /\ IsFiniteSet(Entries) /\ Cardinality(Entries) \in Nat
  /\ \A u : IsFiniteSet(EntriesOn(u)) /\ Cardinality(EntriesOn(u)) \in Nat
  /\ \A u : IsFiniteSet(OpenRows \cap On(u)) /\ Cardinality(OpenRows \cap On(u)) \in Nat
<1> USE PositionsAssumption
<1>1. IsFiniteSet(OpenRows) /\ IsFiniteSet(Entries)
  BY FS_Subset DEF OpenRows, Entries
<1>2. \A u : IsFiniteSet(EntriesOn(u)) /\ IsFiniteSet(OpenRows \cap On(u))
  BY <1>1, FS_Subset DEF EntriesOn
<1>3. QED
  BY <1>1, <1>2, FS_CardinalityType

(* The trades on an underlying are at least as many as its closed rows.     *)
LEMMA CountedEntries ==
  ASSUME TypeOK, ClosedRowsHaveTrades, NEW u
  PROVE  /\ IsFiniteSet(TradesOn(u)) /\ Cardinality(TradesOn(u)) \in Nat
         /\ Cardinality(EntriesOn(u)) <= Cardinality(OpenRows \cap On(u)) + Cardinality(TradesOn(u))
<1> DEFINE Traded == {t[1] : t \in TradesOn(u)}
           f == [t \in TradesOn(u) |-> t[1]]
           Opened == OpenRows \cap On(u)
<1>1. IsFiniteSet(TradesOn(u)) /\ Cardinality(TradesOn(u)) \in Nat
  <2>1. TradesOn(u) \in SUBSET trades
    BY DEF TradesOn
  <2>2. IsFiniteSet(TradesOn(u))
    BY <2>1, FS_Subset DEF TypeOK
  <2>3. QED
    BY <2>2, FS_CardinalityType
<1>2. f \in Surjection(TradesOn(u), Traded)
  BY DEF Surjection
<1>3. IsFiniteSet(Traded) /\ Cardinality(Traded) <= Cardinality(TradesOn(u))
  BY <1>1, <1>2, FS_Surjection
<1>4. EntriesOn(u) \subseteq Opened \cup Traded
  <2> SUFFICES ASSUME NEW p \in EntriesOn(u), p \notin Opened PROVE p \in Traded
    OBVIOUS
  <2>1. p \in Positions /\ p \in On(u) /\ row[p] = "closed"
    BY DEF EntriesOn, Entries, OpenRows, TypeOK
  <2>2. PICK t \in trades : t[1] = p
    BY <2>1 DEF ClosedRowsHaveTrades
  <2>3. t \in TradesOn(u)
    BY <2>1, <2>2 DEF TradesOn
  <2>4. QED
    BY <2>2, <2>3
<1> HIDE DEF Traded, f
<1>5. IsFiniteSet(Opened) /\ Cardinality(Opened) \in Nat
  BY RowSetsFinite
<1> HIDE DEF Opened
<1>6. Cardinality(Traded) \in Nat /\ Cardinality(Opened \cap Traded) \in Nat
  <2>1. IsFiniteSet(Opened \cap Traded)
    BY <1>5, FS_Intersection
  <2>2. QED
    BY <1>3, <2>1, FS_CardinalityType
<1>7. /\ IsFiniteSet(Opened \cup Traded)
      /\ Cardinality(Opened \cup Traded)
           = Cardinality(Opened) + Cardinality(Traded) - Cardinality(Opened \cap Traded)
  BY <1>3, <1>5, FS_Union
<1>8. Cardinality(EntriesOn(u)) <= Cardinality(Opened \cup Traded)
  BY <1>4, <1>7, FS_Subset
<1>9. Cardinality(EntriesOn(u)) \in Nat
  BY RowSetsFinite
<1>10. Cardinality(EntriesOn(u)) <= Cardinality(Opened) + Cardinality(TradesOn(u))
  BY <1>1, <1>3, <1>5, <1>6, <1>7, <1>8, <1>9
<1>11. QED
  BY <1>1, <1>10 DEF Opened

LEMMA RowInit == Init => RowInv
<1> SUFFICES ASSUME Init PROVE RowInv
  OBVIOUS
<1> USE CycleIsActor
<1>1. TypeOK
  BY TypeInit
<1>2. OpenRows = {} /\ Entries = {}
  BY DEF Init, OpenRows, Entries
<1>3. ClosedRowsHaveTrades /\ RowsInHand /\ CountIsEnough
  BY DEF Init, ClosedRowsHaveTrades, RowsInHand, CountIsEnough, CloseStage
<1>4. UnderlyingHasRoom /\ BookHasRoom /\ BuysTheCurrent /\ OneAtATime
  BY DEF Init, UnderlyingHasRoom, BookHasRoom, BuysTheCurrent, OneAtATime
<1>5. RowsWithinLimits
  <2>1. \A u \in Underlyings : Entries \cap On(u) = {}
    BY <1>2
  <2>2. MaxOpen \in Nat /\ MaxTrades \in Nat /\ MaxPerUnderlying \in Nat
    BY LimitsAssumption
  <2>3. QED
    BY <1>2, <2>1, <2>2, FS_EmptySet DEF RowsWithinLimits, Within
<1>6. QED
  BY <1>1, <1>3, <1>4, <1>5 DEF RowInv

(* The steps that write no row.                                             *)
LEMMA QuietRows ==
  ASSUME RowInv, UNCHANGED tables
  PROVE  /\ OpenRows' = OpenRows /\ Entries' = Entries
         /\ \A u : EntriesOn(u)' = EntriesOn(u) /\ TradesOn(u)' = TradesOn(u)
         /\ ClosedRowsHaveTrades' /\ RowsWithinLimits'
<1>1. row' = row /\ trades' = trades
  BY DEF tables
<1>2. OpenRows' = OpenRows /\ Entries' = Entries
  BY <1>1 DEF OpenRows, Entries
<1>3. \A u : EntriesOn(u)' = EntriesOn(u) /\ TradesOn(u)' = TradesOn(u)
  BY <1>1, <1>2 DEF EntriesOn, TradesOn, On
<1>4. ClosedRowsHaveTrades'
  BY <1>1 DEF RowInv, ClosedRowsHaveTrades
<1>5. RowsWithinLimits'
  BY <1>2 DEF RowInv, RowsWithinLimits, Within, On
<1>6. QED
  BY <1>2, <1>3, <1>4, <1>5

(* Steps of the cycle between two writes.                                   *)
LEMMA RowQuietCycle ==
  ASSUME RowInv, TypeOK',
         \/ CycleBegin \/ RiskGates \/ Evaluate \/ EntriesDone \/ CountTrades
         \/ InstrumentGates \/ SubmitBuy \/ ReadRows \/ ExitsDone
         \/ \E p \in Positions : Hold(p) \/ FireExit(p)
  PROVE  RowInv'
<1> USE CycleIsActor DEF At, Goto, About
<1>1. UNCHANGED tables
  BY DEF CycleBegin, RiskGates, Evaluate, EntriesDone, CountTrades, InstrumentGates,
         SubmitBuy, ReadRows, ExitsDone, Hold, FireExit
<1>2. /\ OpenRows' = OpenRows /\ Entries' = Entries
      /\ \A u : EntriesOn(u)' = EntriesOn(u) /\ TradesOn(u)' = TradesOn(u)
      /\ ClosedRowsHaveTrades' /\ RowsWithinLimits'
  BY <1>1, QuietRows
<1>3. stage \in [Actors -> Stage] /\ target \in [Actors -> Positions \cup {NoPosition}]
  BY DEF RowInv, TypeOK
<1>4. row' = row
  BY <1>1 DEF tables
<1>5. RowsInHand'
  <2>1. CASE \E p \in Positions : FireExit(p)
    <3>1. PICK p \in Positions : FireExit(p)
      BY <2>1
    <3>2. row[p] # "none"
      BY <3>1 DEF FireExit, RowInv, RowsInHand, Entries
    <3>3. \A a \in Actors : stage'[a] \in CloseStage => row'[target'[a]] # "none"
      <4> SUFFICES ASSUME NEW a \in Actors, stage'[a] \in CloseStage
                   PROVE  row'[target'[a]] # "none"
        OBVIOUS
      <4>1. CASE a = "cycle"
        BY <3>1, <3>2, <4>1, <1>3, <1>4 DEF FireExit
      <4>2. CASE a # "cycle"
        BY <3>1, <4>2, <1>3, <1>4 DEF FireExit, RowInv, RowsInHand
      <4>3. QED
        BY <4>1, <4>2
    <3>4. unseen' \subseteq Entries'
      BY <3>1, <1>2 DEF FireExit, RowInv, RowsInHand
    <3>5. QED
      BY <3>3, <3>4 DEF RowsInHand
  <2>2. CASE SubmitBuy
    <3>1. \A a \in Actors : stage'[a] \in CloseStage =>
             stage[a] \in CloseStage /\ target'[a] = target[a]
      BY <2>2, <1>3 DEF SubmitBuy, CloseStage
    <3>2. QED
      BY <2>2, <3>1, <1>2, <1>4 DEF SubmitBuy, RowInv, RowsInHand
  <2>3. CASE ReadRows
    BY <2>3, <1>2, <1>3, <1>4 DEF ReadRows, OpenRows, Entries, RowInv, RowsInHand, CloseStage
  <2>4. CASE \/ CycleBegin \/ RiskGates \/ Evaluate \/ EntriesDone \/ CountTrades
             \/ InstrumentGates \/ ExitsDone \/ \E p \in Positions : Hold(p)
    <3>1. target' = target /\ unseen' \subseteq unseen
      BY <2>4 DEF CycleBegin, RiskGates, Evaluate, EntriesDone, CountTrades,
                  InstrumentGates, ExitsDone, Hold, loops
    <3>2. \A a \in Actors : stage'[a] \in CloseStage => stage[a] \in CloseStage
      BY <2>4, <1>3 DEF CycleBegin, RiskGates, Evaluate, EntriesDone, CountTrades,
                  InstrumentGates, ExitsDone, Hold, AfterGates, NextInstrument, CloseStage
    <3>3. QED
      BY <3>1, <3>2, <1>2, <1>4 DEF RowInv, RowsInHand
  <2>5. QED
    BY <2>1, <2>2, <2>3, <2>4
<1>6. CountIsEnough'
  <2>1. CASE Evaluate
    <3> SUFFICES ASSUME stage'["cycle"] = "counting", NEW u \in current'
                 PROVE  Cardinality(EntriesOn(u)') <= openSeen' + Cardinality(TradesOn(u)')
      BY DEF CountIsEnough
    <3>1. openSeen' = Cardinality(OpenRows \cap On(u))
      BY <2>1, <1>3 DEF Evaluate
    <3>2. QED
      BY <3>1, <1>2, CountedEntries DEF RowInv
  <2>2. CASE ~Evaluate
    BY <2>2, <1>2, <1>3 DEF CycleBegin, RiskGates, EntriesDone, CountTrades, InstrumentGates,
         SubmitBuy, ReadRows, ExitsDone, Hold, FireExit, AfterGates, NextInstrument,
         CountIsEnough, RowInv
  <2>3. QED
    BY <2>1, <2>2
<1>7. UnderlyingHasRoom'
  <2>1. CASE CountTrades
    <3> SUFFICES ASSUME stage'["cycle"] \in {"gates", "buying", "booking"}, NEW u \in current'
                 PROVE  Cardinality(EntriesOn(u)') < MaxPerUnderlying
      BY DEF UnderlyingHasRoom
    <3>1. u \in current /\ stage["cycle"] = "counting"
      BY <2>1, <1>3 DEF CountTrades, NextInstrument
    <3>2. PICK v \in current : CountEntries(v) < MaxPerUnderlying
      BY <2>1, <3>1, <1>3 DEF CountTrades, NextInstrument
    <3>3. v = u
      BY <3>1, <3>2 DEF RowInv, OneAtATime
    <3>4. Cardinality(EntriesOn(u)) <= openSeen + Cardinality(TradesOn(u))
      BY <3>1 DEF RowInv, CountIsEnough
    <3>5. Cardinality(EntriesOn(u)) \in Nat /\ Cardinality(TradesOn(u)) \in Nat
      BY RowSetsFinite, CountedEntries DEF RowInv
    <3>6. openSeen \in Nat /\ MaxPerUnderlying \in Nat
      BY LimitsAssumption DEF RowInv, TypeOK
    <3>7. QED
      BY <1>2, <3>2, <3>3, <3>4, <3>5, <3>6 DEF CountEntries
  <2>2. CASE ~CountTrades
    BY <2>2, <1>2, <1>3 DEF CycleBegin, RiskGates, EntriesDone, Evaluate, InstrumentGates,
         SubmitBuy, ReadRows, ExitsDone, Hold, FireExit, AfterGates, NextInstrument,
         UnderlyingHasRoom, RowInv
  <2>3. QED
    BY <2>1, <2>2
<1>8. BookHasRoom'
  <2>1. CASE InstrumentGates
    BY <2>1, <1>2, <1>3 DEF InstrumentGates, PassesGates, NextInstrument, BookHasRoom
  <2>2. CASE ~InstrumentGates
    BY <2>2, <1>2, <1>3 DEF CycleBegin, RiskGates, EntriesDone, Evaluate, CountTrades,
         SubmitBuy, ReadRows, ExitsDone, Hold, FireExit, AfterGates, NextInstrument,
         BookHasRoom, RowInv
  <2>3. QED
    BY <2>1, <2>2
<1>9. BuysTheCurrent'
  <2>1. CASE SubmitBuy
    <3> SUFFICES ASSUME stage'["cycle"] = "booking"
                 PROVE  UnderlyingOf[target'["cycle"]] \in current'
      BY DEF BuysTheCurrent
    <3>1. ~halted /\ current' = current
      BY <2>1, <1>3 DEF SubmitBuy
    <3>2. PICK u \in current : \E p \in On(u) \ bought : About("cycle", p)
      BY <2>1, <3>1 DEF SubmitBuy
    <3> PICK p \in On(u) \ bought : About("cycle", p)
      BY <3>2
    <3>3. target'["cycle"] = p /\ UnderlyingOf[p] = u
      BY <1>3 DEF On
    <3>4. QED
      BY <3>1, <3>2, <3>3
  <2>2. CASE ~SubmitBuy
    BY <2>2, <1>3 DEF CycleBegin, RiskGates, EntriesDone, Evaluate, CountTrades, InstrumentGates,
         ReadRows, ExitsDone, Hold, FireExit, AfterGates, NextInstrument, BuysTheCurrent
  <2>3. QED
    BY <2>1, <2>2
<1>10. OneAtATime'
  BY <1>3 DEF CycleBegin, RiskGates, EntriesDone, Evaluate, CountTrades, InstrumentGates,
         SubmitBuy, ReadRows, ExitsDone, Hold, FireExit, NextInstrument, loops, OneAtATime, RowInv
<1>11. QED
  BY <1>2, <1>5, <1>6, <1>7, <1>8, <1>9, <1>10 DEF RowInv

LEMMA AddBelow ==
  ASSUME NEW S, IsFiniteSet(S), NEW x, NEW n \in Nat, Cardinality(S) < n
  PROVE  Cardinality(S \cup {x}) <= n
<1>1. Cardinality(S) \in Nat
  BY FS_CardinalityType
<1>2. Cardinality(S \cup {x}) = IF x \in S THEN Cardinality(S) ELSE Cardinality(S) + 1
  BY FS_AddElement
<1>3. QED
  BY <1>1, <1>2

(* The row of the position just bought.                                     *)
LEMMA RowBookEntry == RowInv /\ TypeOK' /\ BookEntry => RowInv'
<1> SUFFICES ASSUME RowInv, TypeOK', BookEntry PROVE RowInv'
  OBVIOUS
<1> USE CycleIsActor DEF At, Goto, About
<1> DEFINE p == target["cycle"]
<1>1. /\ stage \in [Actors -> Stage] /\ target \in [Actors -> Positions \cup {NoPosition}]
      /\ row \in [Positions -> {"none", "open", "closed"}]
  BY DEF RowInv, TypeOK
<1>2. p \in Positions /\ stage["cycle"] = "booking"
  BY DEF BookEntry, RowInv, TypeOK
<1>3. row' = [row EXCEPT ![p] = "open"] /\ trades' = trades
  BY DEF BookEntry
<1>4. OpenRows' = OpenRows \cup {p} /\ Entries' = Entries \cup {p}
  BY <1>1, <1>2, <1>3 DEF OpenRows, Entries
<1>5. stage'["cycle"] = "instruments" /\ current' = {} /\ unseen' = unseen
  BY <1>1 DEF BookEntry, NextInstrument
<1> HIDE DEF p
<1>6. ClosedRowsHaveTrades'
  BY <1>1, <1>2, <1>3 DEF RowInv, ClosedRowsHaveTrades
<1>7. RowsInHand'
  <2>1. \A a \in Actors : stage'[a] \in CloseStage => row'[target'[a]] # "none"
    <3> SUFFICES ASSUME NEW a \in Actors, stage'[a] \in CloseStage
                 PROVE  row'[target'[a]] # "none"
      OBVIOUS
    <3>1. a # "cycle"
      BY <1>5 DEF CloseStage
    <3>2. stage[a] = stage'[a] /\ target'[a] = target[a]
      BY <3>1, <1>1 DEF BookEntry, NextInstrument
    <3>3. target[a] \in Positions
      BY <3>2 DEF RowInv, TypeOK
    <3>4. QED
      BY <3>2, <3>3, <1>1, <1>2, <1>3 DEF RowInv, RowsInHand
  <2>2. QED
    BY <2>1, <1>4, <1>5 DEF RowInv, RowsInHand
<1>8. CountIsEnough' /\ UnderlyingHasRoom' /\ BookHasRoom' /\ BuysTheCurrent' /\ OneAtATime'
  BY <1>5 DEF CountIsEnough, UnderlyingHasRoom, BookHasRoom, BuysTheCurrent, OneAtATime
<1>9. MaxOpen \in Nat /\ MaxTrades \in Nat /\ MaxPerUnderlying \in Nat
  BY LimitsAssumption
<1>10. Cardinality(OpenRows \cup {p}) <= MaxOpen
  BY <1>2, <1>9, RowSetsFinite, AddBelow DEF RowInv, BookHasRoom
<1>11. Cardinality(Entries \cup {p}) <= MaxTrades
  BY <1>2, <1>9, RowSetsFinite, AddBelow DEF RowInv, BookHasRoom
<1>12. ASSUME NEW u \in Underlyings
       PROVE  Cardinality((Entries \cup {p}) \cap On(u)) <= MaxPerUnderlying
  <2>1. CASE UnderlyingOf[p] = u
    <3>1. p \in On(u) /\ u \in current
      BY <1>2, <2>1 DEF On, RowInv, BuysTheCurrent, p
    <3>2. (Entries \cup {p}) \cap On(u) = EntriesOn(u) \cup {p}
      BY <3>1 DEF EntriesOn
    <3>3. Cardinality(EntriesOn(u)) < MaxPerUnderlying
      BY <1>2, <3>1 DEF RowInv, UnderlyingHasRoom
    <3>4. IsFiniteSet(EntriesOn(u))
      BY RowSetsFinite
    <3>5. QED
      BY <3>2, <3>3, <3>4, <1>9, AddBelow
  <2>2. CASE UnderlyingOf[p] # u
    <3>1. (Entries \cup {p}) \cap On(u) = Entries \cap On(u)
      BY <2>2 DEF On
    <3>2. QED
      BY <3>1 DEF RowInv, RowsWithinLimits, Within
  <2>3. QED
    BY <2>1, <2>2
<1>13. RowsWithinLimits'
  BY <1>4, <1>10, <1>11, <1>12 DEF RowsWithinLimits, Within, On
<1>14. QED
  BY <1>6, <1>7, <1>8, <1>13 DEF RowInv

(* A close, by whoever: entries stay, open rows become fewer, trades more.  *)
LEMMA RowBookClose ==
  ASSUME RowInv, TypeOK', NEW a \in Actors, BookClose(a)
  PROVE  RowInv'
<1> USE CycleIsActor DEF At, Goto, About
<1> DEFINE p == target[a]
<1>1. /\ stage \in [Actors -> Stage] /\ target \in [Actors -> Positions \cup {NoPosition}]
      /\ row \in [Positions -> {"none", "open", "closed"}]
  BY DEF RowInv, TypeOK
<1>2. p \in Positions /\ row[p] # "none" /\ stage[a] = "closing"
  BY DEF BookClose, RowInv, TypeOK, RowsInHand, CloseStage
<1>3. row' = [row EXCEPT ![p] = "closed"]
  BY DEF BookClose, RecordClose
<1>4. \E t \in trades' : t[1] = p
  <2>1. <<p, Cardinality(trades) + 1>> \in trades'
    BY DEF BookClose, RecordClose, TradeOf
  <2>2. QED
    BY <2>1
<1>5. trades \subseteq trades'
  BY DEF BookClose, RecordClose, TradeOf
<1>6. Entries' = Entries /\ OpenRows' \subseteq OpenRows
  BY <1>1, <1>2, <1>3 DEF Entries, OpenRows
<1>7. /\ stage' = [stage EXCEPT ![a] = IF a = "cycle" THEN "exits" ELSE "idle"]
      /\ target' = [target EXCEPT ![a] = NoPosition]
      /\ current' = current /\ openSeen' = openSeen /\ unseen' = unseen
  BY DEF BookClose, loops
<1> HIDE DEF p
<1>8. ClosedRowsHaveTrades'
  BY <1>1, <1>2, <1>3, <1>4, <1>5 DEF RowInv, ClosedRowsHaveTrades
<1>9. RowsInHand'
  <2>1. \A b \in Actors : stage'[b] \in CloseStage => row'[target'[b]] # "none"
    <3> SUFFICES ASSUME NEW b \in Actors, stage'[b] \in CloseStage
                 PROVE  row'[target'[b]] # "none"
      OBVIOUS
    <3>1. b # a
      BY <1>1, <1>7 DEF CloseStage
    <3>2. stage[b] = stage'[b] /\ target'[b] = target[b]
      BY <3>1, <1>1, <1>7
    <3>3. target[b] \in Positions
      BY <3>2 DEF RowInv, TypeOK
    <3>4. QED
      BY <3>2, <3>3, <1>1, <1>2, <1>3 DEF RowInv, RowsInHand
  <2>2. QED
    BY <2>1, <1>6, <1>7 DEF RowInv, RowsInHand
<1>10. stage'["cycle"] \in EntryStage => stage["cycle"] = stage'["cycle"] /\ a # "cycle"
  BY <1>1, <1>7 DEF EntryStage
<1>11. Cardinality(OpenRows') \in Nat /\ Cardinality(OpenRows') <= Cardinality(OpenRows)
  <2>1. IsFiniteSet(OpenRows') /\ Cardinality(OpenRows') <= Cardinality(OpenRows)
    BY <1>6, RowSetsFinite, FS_Subset
  <2>2. QED
    BY <2>1, FS_CardinalityType
<1>12. \A u : EntriesOn(u)' = EntriesOn(u)
  BY <1>6 DEF EntriesOn, On
<1>13. CountIsEnough'
  <2> SUFFICES ASSUME stage'["cycle"] = "counting", NEW u \in current'
               PROVE  Cardinality(EntriesOn(u)') <= openSeen' + Cardinality(TradesOn(u)')
    BY DEF CountIsEnough
  <2>1. TradesOn(u) \subseteq TradesOn(u)' /\ TradesOn(u)' \subseteq trades'
    BY <1>5 DEF TradesOn, On
  <2>2. IsFiniteSet(TradesOn(u)') /\ IsFiniteSet(TradesOn(u))
    BY <2>1, FS_Subset DEF TypeOK
  <2>3. Cardinality(TradesOn(u)) <= Cardinality(TradesOn(u)')
    BY <2>1, <2>2, FS_Subset
  <2>4. Cardinality(TradesOn(u)) \in Nat /\ Cardinality(TradesOn(u)') \in Nat
    BY <2>2, FS_CardinalityType
  <2>5. Cardinality(EntriesOn(u)) <= openSeen + Cardinality(TradesOn(u))
    BY <1>7, <1>10 DEF RowInv, CountIsEnough, EntryStage
  <2>6. openSeen \in Nat /\ Cardinality(EntriesOn(u)) \in Nat
    BY RowSetsFinite DEF RowInv, TypeOK
  <2>7. QED
    BY <1>7, <1>12, <2>3, <2>4, <2>5, <2>6
<1>14. UnderlyingHasRoom'
  BY <1>7, <1>10, <1>12 DEF RowInv, UnderlyingHasRoom, EntryStage
<1>15. MaxOpen \in Nat /\ Cardinality(OpenRows) \in Nat
  BY LimitsAssumption, RowSetsFinite
<1>16. BookHasRoom'
  BY <1>6, <1>10, <1>11, <1>15 DEF RowInv, BookHasRoom, EntryStage
<1>17. BuysTheCurrent' /\ OneAtATime'
  BY <1>1, <1>7, <1>10 DEF RowInv, BuysTheCurrent, OneAtATime, EntryStage
<1>18. RowsWithinLimits'
  BY <1>6, <1>11, <1>15 DEF RowInv, RowsWithinLimits, Within, On
<1>19. QED
  BY <1>8, <1>9, <1>13, <1>14, <1>16, <1>17, <1>18 DEF RowInv

LEMMA RowSell ==
  ASSUME RowInv, TypeOK', NEW a \in Actors, Sell(a)
  PROVE  RowInv'
<1> USE CycleIsActor DEF At, Goto
<1>1. stage \in [Actors -> Stage]
  BY DEF RowInv, TypeOK
<1>2. /\ UNCHANGED tables /\ row' = row /\ target' = target
      /\ current' = current /\ openSeen' = openSeen /\ unseen' = unseen
      /\ stage' = [stage EXCEPT ![a] = "closing"] /\ stage[a] = "selling"
  BY DEF Sell, tables, loops
<1>3. /\ OpenRows' = OpenRows /\ Entries' = Entries
      /\ \A u : EntriesOn(u)' = EntriesOn(u) /\ TradesOn(u)' = TradesOn(u)
      /\ ClosedRowsHaveTrades' /\ RowsWithinLimits'
  BY <1>2, QuietRows
<1>4. RowsInHand'
  BY <1>1, <1>2, <1>3 DEF RowInv, RowsInHand, CloseStage
<1>5. stage'["cycle"] \in EntryStage => stage["cycle"] = stage'["cycle"]
  BY <1>1, <1>2 DEF EntryStage
<1>6. CountIsEnough' /\ UnderlyingHasRoom' /\ BookHasRoom' /\ BuysTheCurrent' /\ OneAtATime'
  BY <1>2, <1>3, <1>5 DEF RowInv, CountIsEnough, UnderlyingHasRoom, BookHasRoom,
     BuysTheCurrent, OneAtATime, EntryStage
<1>7. QED
  BY <1>3, <1>4, <1>6 DEF RowInv

LEMMA RowSquareOff ==
  ASSUME RowInv, TypeOK', NEW r \in Requests, SquareOff(r)
  PROVE  RowInv'
<1> USE CycleIsActor DEF At, Goto, About
<1>1. stage \in [Actors -> Stage] /\ target \in [Actors -> Positions \cup {NoPosition}]
  BY DEF RowInv, TypeOK
<1>2. PICK p \in OpenRows : About(r, p)
  BY DEF SquareOff
<1>3. /\ UNCHANGED tables /\ row' = row /\ target' = [target EXCEPT ![r] = p]
      /\ current' = current /\ openSeen' = openSeen /\ unseen' = unseen
      /\ stage' = [stage EXCEPT ![r] = "selling"]
  BY <1>2 DEF SquareOff, tables, loops
<1>4. r # "cycle" /\ r \in Actors
  BY RequestsAssumption DEF Actors
<1>5. stage'["cycle"] = stage["cycle"] /\ target'["cycle"] = target["cycle"]
  BY <1>1, <1>3, <1>4
<1>6. /\ OpenRows' = OpenRows /\ Entries' = Entries
      /\ \A u : EntriesOn(u)' = EntriesOn(u) /\ TradesOn(u)' = TradesOn(u)
      /\ ClosedRowsHaveTrades' /\ RowsWithinLimits'
  BY <1>3, QuietRows
<1>7. RowsInHand'
  <2>1. row[p] # "none"
    BY DEF OpenRows
  <2>2. QED
    BY <2>1, <1>1, <1>3, <1>4, <1>6 DEF RowInv, RowsInHand
<1>8. CountIsEnough' /\ UnderlyingHasRoom' /\ BookHasRoom' /\ BuysTheCurrent' /\ OneAtATime'
  BY <1>3, <1>5, <1>6 DEF RowInv, CountIsEnough, UnderlyingHasRoom, BookHasRoom,
     BuysTheCurrent, OneAtATime
<1>9. QED
  BY <1>6, <1>7, <1>8 DEF RowInv

LEMMA RowFail ==
  ASSUME RowInv, TypeOK', NEW a \in Actors, Fail(a)
  PROVE  RowInv'
<1> USE CycleIsActor DEF At, Goto, About
<1>1. stage \in [Actors -> Stage] /\ target \in [Actors -> Positions \cup {NoPosition}]
  BY DEF RowInv, TypeOK
<1>2. /\ UNCHANGED tables /\ row' = row
      /\ stage' = [stage EXCEPT ![a] = "idle"] /\ target' = [target EXCEPT ![a] = NoPosition]
      /\ current' \subseteq current /\ unseen' \subseteq unseen
      /\ a # "cycle" => current' = current /\ openSeen' = openSeen
  BY DEF Fail, tables
<1>3. /\ OpenRows' = OpenRows /\ Entries' = Entries
      /\ \A u : EntriesOn(u)' = EntriesOn(u) /\ TradesOn(u)' = TradesOn(u)
      /\ ClosedRowsHaveTrades' /\ RowsWithinLimits'
  BY <1>2, QuietRows
<1>4. RowsInHand'
  BY <1>1, <1>2, <1>3 DEF RowInv, RowsInHand, CloseStage
<1>5. stage'["cycle"] \in EntryStage =>
        a # "cycle" /\ stage["cycle"] = stage'["cycle"] /\ target["cycle"] = target'["cycle"]
  BY <1>1, <1>2 DEF EntryStage
<1>6. CountIsEnough' /\ UnderlyingHasRoom' /\ BookHasRoom' /\ BuysTheCurrent' /\ OneAtATime'
  BY <1>2, <1>3, <1>5 DEF RowInv, CountIsEnough, UnderlyingHasRoom, BookHasRoom,
     BuysTheCurrent, OneAtATime, EntryStage
<1>7. QED
  BY <1>3, <1>4, <1>6 DEF RowInv

LEMMA RowStep == RowInv /\ [Next]_vars => RowInv'
<1> SUFFICES ASSUME RowInv, [Next]_vars PROVE RowInv'
  OBVIOUS
<1>1. TypeOK'
  BY TypeStep DEF RowInv
<1>2. CASE CycleStep
  BY <1>1, <1>2, CycleIsActor, RowQuietCycle, RowBookEntry, RowSell, RowBookClose
     DEF CycleStep, EntryStep, ExitStep, CloseStep
<1>3. CASE \E r \in Requests : SquareOff(r) \/ CloseStep(r)
  BY <1>1, <1>3, RowSquareOff, RowSell, RowBookClose DEF CloseStep, Actors
<1>4. CASE \E a \in Actors : Fail(a)
  BY <1>1, <1>4, RowFail
<1>5. CASE Environment \/ UNCHANGED vars
  <2>1. /\ UNCHANGED tables /\ row' = row /\ target' = target /\ stage' = stage
        /\ current' = current /\ openSeen' = openSeen /\ unseen' = unseen
    BY <1>5 DEF Environment, HaltMoves, ClockPassesHardExit, vars, tables, loops
  <2>2. /\ OpenRows' = OpenRows /\ Entries' = Entries
        /\ \A u : EntriesOn(u)' = EntriesOn(u) /\ TradesOn(u)' = TradesOn(u)
        /\ ClosedRowsHaveTrades' /\ RowsWithinLimits'
    BY <2>1, QuietRows
  <2>3. QED
    BY <1>1, <2>1, <2>2 DEF RowInv, RowsInHand, CountIsEnough, UnderlyingHasRoom,
       BookHasRoom, BuysTheCurrent, OneAtATime
<1>6. QED
  BY <1>2, <1>3, <1>4, <1>5 DEF Next

(* However many square-offs and failures, the rows of open_positions stay   *)
(* within max_concurrent_positions, max_trades_per_day and                  *)
(* max_entries_per_underlying_per_day (run_entry_cycle's gates).            *)
LEMMA RowLimits == Spec => []RowsWithinLimits
<1>1. RowInv => RowsWithinLimits
  BY DEF RowInv
<1>2. QED
  BY <1>1, RowInit, RowStep, PTL DEF Spec

-----------------------------------------------------------------------------
(* Rows, trades and SELLs.  A close that has sold and not yet booked is     *)
(* owed a trade: the trades a position has and those it is owed are         *)
(* together no more than its SELLs.                                         *)

TradesOf(p) == {t \in trades : t[1] = p}
Closers(p) == {a \in Actors : stage[a] = "closing" /\ target[a] = p}

EntriesAreBought == \A p \in Positions : row[p] # "none" => p \in bought
BooksAFreshRow ==
  stage["cycle"] = "booking" => target["cycle"] \in bought /\ row[target["cycle"]] = "none"
TradesAreOfClosedRows == \A p \in Positions : row[p] = "closed" <=> TradesOf(p) # {}
SoldCoversTrades ==
  \A p \in Positions :
    IsFiniteSet(Closers(p)) /\ Cardinality(TradesOf(p)) + Cardinality(Closers(p)) <= sold[p]

SellInv == EntriesAreBought /\ BooksAFreshRow /\ TradesAreOfClosedRows /\ SoldCoversTrades

LEMMA SellInit == Init => SellInv
<1> SUFFICES ASSUME Init PROVE SellInv
  OBVIOUS
<1>1. \A p \in Positions : TradesOf(p) = {} /\ Closers(p) = {}
  BY DEF Init, TradesOf, Closers
<1>2. EntriesAreBought /\ BooksAFreshRow /\ TradesAreOfClosedRows
  BY <1>1, CycleIsActor DEF Init, EntriesAreBought, BooksAFreshRow, TradesAreOfClosedRows
<1>3. \A p \in Positions : sold[p] = 0
  BY DEF Init
<1>4. SoldCoversTrades
  BY <1>1, <1>3, FS_EmptySet DEF SoldCoversTrades
<1> QED
  BY <1>2, <1>4 DEF SellInv

LEMMA TradesOfAreCounted ==
  ASSUME TypeOK, NEW p
  PROVE  IsFiniteSet(TradesOf(p)) /\ Cardinality(TradesOf(p)) \in Nat
<1>1. TradesOf(p) \subseteq trades /\ IsFiniteSet(trades)
  BY DEF TypeOK, TradesOf
<1> QED
  BY <1>1, FS_Subset, FS_CardinalityType

(* What neither sells, buys nor writes a table, and takes no close further. *)
LEMMA SellQuiet ==
  ASSUME TypeOK, TypeOK', SellInv, UNCHANGED <<row, trades, sold, bought>>,
         \A a \in Actors : stage'[a] = "closing" => stage[a] = "closing" /\ target'[a] = target[a],
         stage'["cycle"] = "booking" => stage["cycle"] = "booking" /\ target'["cycle"] = target["cycle"]
  PROVE  SellInv'
<1>1. EntriesAreBought' /\ BooksAFreshRow'
  BY DEF SellInv, EntriesAreBought, BooksAFreshRow
<1>2. \A p : TradesOf(p)' = TradesOf(p) /\ Closers(p)' \subseteq Closers(p)
  BY DEF TradesOf, Closers
<1>3. TradesAreOfClosedRows'
  BY <1>2 DEF SellInv, TradesAreOfClosedRows
<1>4. ASSUME NEW p \in Positions
      PROVE  /\ IsFiniteSet(Closers(p)')
             /\ Cardinality(TradesOf(p)') + Cardinality(Closers(p)') <= sold'[p]
  <2>1. IsFiniteSet(Closers(p)) /\ Cardinality(TradesOf(p)) + Cardinality(Closers(p)) <= sold[p]
    BY DEF SellInv, SoldCoversTrades
  <2>2. IsFiniteSet(Closers(p)') /\ Cardinality(Closers(p)') <= Cardinality(Closers(p))
    BY <1>2, <2>1, FS_Subset
  <2>3. Cardinality(Closers(p)') \in Nat /\ Cardinality(Closers(p)) \in Nat /\ sold[p] \in Nat
    BY <2>1, <2>2, FS_CardinalityType DEF TypeOK
  <2> QED
    BY <1>2, <2>1, <2>2, <2>3, TradesOfAreCounted
<1>5. SoldCoversTrades'
  BY <1>4 DEF SoldCoversTrades
<1> QED
  BY <1>1, <1>3, <1>5 DEF SellInv

LEMMA SellSells ==
  ASSUME TypeOK, TypeOK', SellInv, NEW a \in Actors, Sell(a)
  PROVE  SellInv'
<1> USE CycleIsActor DEF At, Goto
<1>0. PICK q \in Positions : q = target[a]
  BY DEF Sell, TypeOK, CloseStage
<1>1. /\ stage[a] = "selling" /\ stage' = [stage EXCEPT ![a] = "closing"] /\ stage \in [Actors -> Stage]
      /\ UNCHANGED <<row, trades, bought, target>> /\ sold \in [Positions -> Nat]
      /\ sold' = [sold EXCEPT ![q] = sold[q] + 1]
  BY <1>0 DEF Sell, tables, TypeOK
<1>2. q \in Positions
  OBVIOUS
<1>3. Closers(q)' = Closers(q) \cup {a} /\ a \notin Closers(q)
  BY <1>0, <1>1 DEF Closers
<1>4. \A p \in Positions \ {q} : Closers(p)' = Closers(p)
  BY <1>0, <1>1 DEF Closers
<1>5. \A p : TradesOf(p)' = TradesOf(p)
  BY <1>1 DEF TradesOf
<1>6. ASSUME NEW p \in Positions
      PROVE  /\ IsFiniteSet(Closers(p)')
             /\ Cardinality(TradesOf(p)') + Cardinality(Closers(p)') <= sold'[p]
  <2>1. IsFiniteSet(Closers(p)) /\ Cardinality(TradesOf(p)) + Cardinality(Closers(p)) <= sold[p]
    BY DEF SellInv, SoldCoversTrades
  <2>2. Cardinality(Closers(p)) \in Nat /\ Cardinality(TradesOf(p)) \in Nat /\ sold[p] \in Nat
    BY <2>1, <1>1, FS_CardinalityType, TradesOfAreCounted
  <2>3. CASE p = q
    <3>1. IsFiniteSet(Closers(q)') /\ Cardinality(Closers(q)') = Cardinality(Closers(q)) + 1
      BY <1>3, <2>1, <2>3, FS_AddElement
    <3>2. sold'[q] = sold[q] + 1
      BY <1>1, <1>2
    <3> QED
      BY <1>5, <2>1, <2>2, <2>3, <3>1, <3>2
  <2>4. CASE p # q
    <3>1. sold'[p] = sold[p]
      BY <1>1, <1>2, <2>4
    <3> QED
      BY <1>4, <1>5, <2>1, <2>4, <3>1
  <2> QED
    BY <2>3, <2>4
<1>7. SoldCoversTrades'
  BY <1>6 DEF SoldCoversTrades
<1>8. EntriesAreBought' /\ BooksAFreshRow' /\ TradesAreOfClosedRows'
  BY <1>1, <1>5 DEF SellInv, EntriesAreBought, BooksAFreshRow, TradesAreOfClosedRows
<1> QED
  BY <1>7, <1>8 DEF SellInv

LEMMA SellBooks ==
  ASSUME RowInv, TypeOK', SellInv, NEW a \in Actors, BookClose(a)
  PROVE  SellInv'
<1> USE CycleIsActor DEF At, Goto, About
<1>0. PICK q \in Positions : q = target[a]
  BY DEF BookClose, RowInv, TypeOK, CloseStage
<1>1. PICK new : new = <<q, Cardinality(trades) + 1>>
  OBVIOUS
<1>2. /\ stage[a] = "closing" /\ target' = [target EXCEPT ![a] = NoPosition]
      /\ stage' = [stage EXCEPT ![a] = IF a = "cycle" THEN "exits" ELSE "idle"]
      /\ row' = [row EXCEPT ![q] = "closed"] /\ trades' = trades \cup {new}
      /\ UNCHANGED <<bought, sold>>
  BY <1>0, <1>1 DEF BookClose, RecordClose, TradeOf, fills
<1>3. /\ stage \in [Actors -> Stage] /\ target \in [Actors -> Positions \cup {NoPosition}]
      /\ row \in [Positions -> {"none", "open", "closed"}] /\ sold \in [Positions -> Nat] /\ TypeOK
  BY DEF RowInv, TypeOK
<1>4. q \in Positions /\ row[q] # "none" /\ q # NoPosition
  BY <1>0, <1>2, PositionsAssumption DEF RowInv, TypeOK, RowsInHand, CloseStage
<1>5. Closers(q)' = Closers(q) \ {a} /\ a \in Closers(q)
  BY <1>0, <1>2, <1>3, <1>4 DEF Closers
<1>6. \A p \in Positions \ {q} : Closers(p)' = Closers(p)
  BY <1>0, <1>2, <1>3, <1>4 DEF Closers
<1>7. new[1] = q
  BY <1>1
<1>8. TradesOf(q)' = TradesOf(q) \cup {new} /\ \A p \in Positions \ {q} : TradesOf(p)' = TradesOf(p)
  BY <1>2, <1>7 DEF TradesOf
<1>9. ASSUME NEW p \in Positions
      PROVE  /\ IsFiniteSet(Closers(p)')
             /\ Cardinality(TradesOf(p)') + Cardinality(Closers(p)') <= sold'[p]
  <2>1. IsFiniteSet(Closers(p)) /\ Cardinality(TradesOf(p)) + Cardinality(Closers(p)) <= sold[p]
    BY DEF SellInv, SoldCoversTrades
  <2>2. /\ Cardinality(Closers(p)) \in Nat /\ sold[p] \in Nat
        /\ IsFiniteSet(TradesOf(p)) /\ Cardinality(TradesOf(p)) \in Nat
    BY <2>1, <1>3, FS_CardinalityType, TradesOfAreCounted
  <2>3. CASE p = q
    <3>1. IsFiniteSet(Closers(q)') /\ Cardinality(Closers(q)') = Cardinality(Closers(q)) - 1
      BY <1>5, <2>1, <2>3, FS_RemoveElement
    <3>2. LET T == TradesOf(q)
          IN  /\ IsFiniteSet(T \cup {new})
              /\ Cardinality(T \cup {new}) = IF new \in T THEN Cardinality(T) ELSE Cardinality(T) + 1
      BY <2>2, <2>3, FS_AddElement
    <3>3. Cardinality(TradesOf(q)') <= Cardinality(TradesOf(q)) + 1
      BY <1>8, <2>2, <2>3, <3>2
    <3>4. Cardinality(TradesOf(q)') \in Nat
      BY <1>8, <3>2, FS_CardinalityType
    <3> QED
      BY <1>2, <2>1, <2>2, <2>3, <3>1, <3>3, <3>4
  <2>4. CASE p # q
    BY <1>2, <1>6, <1>8, <2>1, <2>4
  <2> QED
    BY <2>3, <2>4
<1>10. SoldCoversTrades'
  BY <1>9 DEF SoldCoversTrades
<1>11. TradesAreOfClosedRows'
  BY <1>2, <1>3, <1>4, <1>8 DEF SellInv, TradesAreOfClosedRows
<1>12. EntriesAreBought'
  BY <1>2, <1>3, <1>4 DEF SellInv, EntriesAreBought
<1>13. BooksAFreshRow'
  BY <1>2, <1>3, <1>4 DEF SellInv, BooksAFreshRow
<1> QED
  BY <1>10, <1>11, <1>12, <1>13 DEF SellInv

LEMMA SellBuys ==
  ASSUME TypeOK, TypeOK', SellInv, SubmitBuy \/ BookEntry
  PROVE  SellInv'
<1> USE CycleIsActor DEF At, Goto, About
<1>1. /\ stage \in [Actors -> Stage] /\ target \in [Actors -> Positions \cup {NoPosition}]
      /\ row \in [Positions -> {"none", "open", "closed"}] /\ sold \in [Positions -> Nat]
  BY DEF TypeOK
<1>2. /\ UNCHANGED <<trades, sold>> /\ stage["cycle"] \in {"buying", "booking"}
      /\ stage'["cycle"] # "closing"
      /\ \A b \in Actors \ {"cycle"} : stage'[b] = stage[b] /\ target'[b] = target[b]
  BY <1>1 DEF SubmitBuy, BookEntry, NextInstrument, tables, fills
<1>3. \A p : TradesOf(p)' = TradesOf(p) /\ Closers(p)' = Closers(p)
  BY <1>2 DEF TradesOf, Closers
<1>4. SoldCoversTrades'
  BY <1>2, <1>3 DEF SellInv, SoldCoversTrades
<1>5. CASE SubmitBuy /\ halted
  <2>1. UNCHANGED <<row, bought>> /\ stage'["cycle"] = "idle"
    BY <1>1, <1>5 DEF SubmitBuy, tables
  <2> QED
    BY <1>3, <1>4, <2>1 DEF SellInv, EntriesAreBought, BooksAFreshRow, TradesAreOfClosedRows
<1>6. CASE SubmitBuy /\ ~halted
  <2>1. PICK p \in Positions \ bought : bought' = bought \cup {p} /\ target' = [target EXCEPT !["cycle"] = p]
    BY <1>6 DEF SubmitBuy, On
  <2>2. UNCHANGED row /\ target'["cycle"] = p /\ row[p] = "none"
    BY <1>1, <1>6, <2>1 DEF SubmitBuy, tables, SellInv, EntriesAreBought
  <2> QED
    BY <1>3, <1>4, <2>1, <2>2 DEF SellInv, EntriesAreBought, BooksAFreshRow, TradesAreOfClosedRows
<1>7. CASE BookEntry
  <2> DEFINE q == target["cycle"]
  <2>1. q \in Positions /\ q \in bought /\ row[q] = "none"
    BY <1>7 DEF BookEntry, SellInv, BooksAFreshRow, TypeOK
  <2>2. row' = [row EXCEPT ![q] = "open"] /\ UNCHANGED bought /\ stage'["cycle"] = "instruments"
    BY <1>1, <1>7 DEF BookEntry, NextInstrument, fills
  <2>3. TradesOf(q) = {}
    BY <2>1 DEF SellInv, TradesAreOfClosedRows
  <2> HIDE DEF q
  <2>4. TradesAreOfClosedRows'
    BY <1>1, <1>3, <2>1, <2>2, <2>3 DEF SellInv, TradesAreOfClosedRows
  <2>5. EntriesAreBought' /\ BooksAFreshRow'
    BY <1>1, <2>1, <2>2 DEF SellInv, EntriesAreBought, BooksAFreshRow
  <2> QED
    BY <1>4, <2>4, <2>5 DEF SellInv
<1> QED
  BY <1>5, <1>6, <1>7

LEMMA SellStep == RowInv /\ SellInv /\ [Next]_vars => SellInv'
<1> SUFFICES ASSUME RowInv, SellInv, [Next]_vars PROVE SellInv'
  OBVIOUS
<1> USE CycleIsActor
<1>1. TypeOK /\ TypeOK'
  BY TypeStep DEF RowInv
<1>2. /\ stage \in [Actors -> Stage] /\ target \in [Actors -> Positions \cup {NoPosition}]
  BY <1>1 DEF TypeOK
<1>3. CASE CycleBegin \/ RiskGates \/ Evaluate \/ EntriesDone \/ CountTrades \/ InstrumentGates
             \/ ReadRows \/ ExitsDone \/ Environment \/ UNCHANGED vars
  <2>1. UNCHANGED <<row, trades, sold, bought, target>>
    BY <1>3 DEF CycleBegin, RiskGates, Evaluate, EntriesDone, CountTrades, InstrumentGates, ReadRows,
       ExitsDone, Environment, HaltMoves, ClockPassesHardExit, NextInstrument, tables, fills, vars
  <2>2. \A a \in Actors : stage'[a] \in {"closing", "booking"} => stage[a] = stage'[a]
    BY <1>2, <1>3 DEF CycleBegin, AfterGates, RiskGates, Evaluate, EntriesDone, CountTrades, InstrumentGates, ReadRows,
       ExitsDone, Environment, HaltMoves, ClockPassesHardExit, NextInstrument, vars, Goto
  <2> QED
    BY <1>1, <2>1, <2>2, SellQuiet
<1>4. CASE \E p \in Positions : Hold(p) \/ FireExit(p)
  <2>1. UNCHANGED <<row, trades, sold, bought>>
    BY <1>4 DEF Hold, FireExit, tables, fills
  <2>2. \A a \in Actors : stage'[a] \in {"closing", "booking"} => stage[a] = stage'[a] /\ target'[a] = target[a]
    BY <1>2, <1>4 DEF Hold, FireExit, Goto, About, At
  <2> QED
    BY <1>1, <2>1, <2>2, SellQuiet
<1>5. CASE \E r \in Requests : SquareOff(r)
  <2>1. UNCHANGED <<row, trades, sold, bought>>
    BY <1>5 DEF SquareOff, tables, fills
  <2>2. \A a \in Actors : stage'[a] \in {"closing", "booking"} => stage[a] = stage'[a] /\ target'[a] = target[a]
    BY <1>2, <1>5 DEF SquareOff, Goto, About, At, Actors
  <2> QED
    BY <1>1, <2>1, <2>2, SellQuiet
<1>6. CASE \E a \in Actors : Fail(a)
  <2>1. UNCHANGED <<row, trades, sold, bought>>
    BY <1>6 DEF Fail, tables, fills
  <2>2. \A a \in Actors : stage'[a] \in {"closing", "booking"} => stage[a] = stage'[a] /\ target'[a] = target[a]
    BY <1>2, <1>6 DEF Fail, Goto, About, At
  <2> QED
    BY <1>1, <2>1, <2>2, SellQuiet
<1>7. CASE SubmitBuy \/ BookEntry
  BY <1>1, <1>7, SellBuys
<1>8. CASE \E a \in Actors : Sell(a) \/ BookClose(a)
  BY <1>1, <1>8, SellSells, SellBooks
<1> QED
  BY <1>3, <1>4, <1>5, <1>6, <1>7, <1>8
     DEF Next, CycleStep, EntryStep, ExitStep, CloseStep, Actors

(* The trades table and the order log never part (_close_position): a       *)
(* position is closed if and only if it has a trade, and each of its trades *)
(* has a SELL of its own, with any number of actors closing it and failing. *)
THEOREM TradesAreBacked == Spec => []TradesHaveSells
<1>1. RowInv /\ SellInv => TradesHaveSells
  <2> SUFFICES ASSUME RowInv, SellInv, NEW p \in Positions
               PROVE  /\ row[p] = "closed" <=> \E t \in trades : t[1] = p
                      /\ Cardinality({t \in trades : t[1] = p}) <= sold[p]
    BY DEF TradesHaveSells
  <2>1. row[p] = "closed" <=> \E t \in trades : t[1] = p
    BY DEF SellInv, TradesAreOfClosedRows, TradesOf
  <2>2. IsFiniteSet(Closers(p)) /\ Cardinality(TradesOf(p)) + Cardinality(Closers(p)) <= sold[p]
    BY DEF SellInv, SoldCoversTrades
  <2>3. Cardinality(Closers(p)) \in Nat /\ Cardinality(TradesOf(p)) \in Nat /\ sold[p] \in Nat
    BY <2>2, FS_CardinalityType, TradesOfAreCounted DEF RowInv, TypeOK
  <2>4. Cardinality(TradesOf(p)) <= sold[p]
    BY <2>2, <2>3
  <2> QED
    BY <2>1, <2>4 DEF TradesOf
<1>2. RowInv /\ SellInv /\ [Next]_vars => (RowInv /\ SellInv)'
  BY RowStep, SellStep
<1> QED
  BY <1>1, <1>2, RowInit, SellInit, PTL DEF Spec

-----------------------------------------------------------------------------
(* The limits, of what the broker filled, when nothing fails midway.        *)

BoughtHaveRows ==
  \A p \in bought : row[p] = "none" => stage["cycle"] = "booking" /\ target["cycle"] = p
ClosedAreSold ==
  /\ \A p \in Positions : row[p] = "closed" => sold[p] # 0
  /\ \A a \in Actors : stage[a] = "closing" => sold[target[a]] # 0
FillInv == BoughtHaveRows /\ ClosedAreSold

LEMMA FillInit == Init => FillInv
BY DEF Init, FillInv, BoughtHaveRows, ClosedAreSold

LEMMA NoFail ==
  ASSUME MaxFailures = 0, TypeOK, NEW a PROVE ~Fail(a)
BY DEF TypeOK, Fail

LEMMA NoFailYet ==
  ASSUME failures' = 0, TypeOK, NEW a PROVE ~Fail(a)
BY DEF TypeOK, Fail

LEMMA FailuresCount ==
  ASSUME TypeOK, failures' = 0, [Next]_vars PROVE failures = 0
<1>1. (\E a \in Actors : Fail(a)) \/ failures' = failures
  BY Zenon DEF Next, CycleStep, EntryStep, ExitStep, CloseStep, CycleBegin, RiskGates, Evaluate,
     EntriesDone, CountTrades, InstrumentGates, NextInstrument, SubmitBuy, BookEntry, ReadRows,
     Hold, FireExit, ExitsDone, Sell, BookClose, SquareOff, Environment, HaltMoves,
     ClockPassesHardExit, vars
<1>2. QED
  BY <1>1, NoFailYet

LEMMA FillStep ==
  ASSUME failures' = 0, RowInv, FillInv, [Next]_vars
  PROVE  FillInv'
<1> USE CycleIsActor DEF At, Goto, About
<1>1. /\ stage \in [Actors -> Stage] /\ target \in [Actors -> Positions \cup {NoPosition}]
      /\ row \in [Positions -> {"none", "open", "closed"}] /\ sold \in [Positions -> Nat]
      /\ bought \subseteq Positions
      /\ \A a \in Actors : target[a] \in Positions <=> stage[a] \in {"booking"} \cup CloseStage
  BY DEF RowInv, TypeOK
<1>2. CASE SubmitBuy
  <2>1. CASE halted
    BY <1>1, <1>2, <2>1 DEF SubmitBuy, tables, FillInv, BoughtHaveRows, ClosedAreSold
  <2>2. CASE ~halted
    <3>1. PICK p \in Positions : bought' = bought \cup {p} /\ About("cycle", p)
      BY <1>2, <2>2 DEF SubmitBuy, On
    <3>2. stage' = [stage EXCEPT !["cycle"] = "booking"] /\ row' = row /\ sold' = sold
      BY <1>2, <2>2 DEF SubmitBuy, tables
    <3>3. QED
      BY <1>1, <1>2, <3>1, <3>2 DEF SubmitBuy, FillInv, BoughtHaveRows, ClosedAreSold
  <2>3. QED
    BY <2>1, <2>2
<1>3. CASE BookEntry
  <2>1. /\ stage' = [stage EXCEPT !["cycle"] = "instruments"] /\ sold' = sold /\ bought' = bought
        /\ row' = [row EXCEPT ![target["cycle"]] = "open"] /\ target["cycle"] \in Positions
        /\ target' = [target EXCEPT !["cycle"] = NoPosition]
    BY <1>1, <1>3 DEF BookEntry, NextInstrument, fills
  <2>2. QED
    BY <1>1, <2>1 DEF FillInv, BoughtHaveRows, ClosedAreSold
<1>4. CASE \E a \in Actors : Sell(a)
  <2>1. PICK a \in Actors : Sell(a)
    BY <1>4
  <2>2. /\ stage' = [stage EXCEPT ![a] = "closing"] /\ sold' = [sold EXCEPT ![target[a]] = @ + 1]
        /\ target[a] \in Positions /\ row' = row /\ bought' = bought /\ target' = target
        /\ stage[a] = "selling"
    BY <1>1, <2>1 DEF Sell, tables, CloseStage
  <2>3. BoughtHaveRows'
    BY <1>1, <2>2 DEF FillInv, BoughtHaveRows
  <2>4. \A p \in Positions : sold'[p] = sold[p] \/ sold'[p] # 0
    BY <1>1, <2>2
  <2>5. \A p \in Positions : sold[p] # 0 => sold'[p] # 0
    BY <1>1, <2>2
  <2>6. sold'[target[a]] # 0
    BY <1>1, <2>2
  <2>7. \A b \in Actors : stage'[b] = "closing" => sold'[target'[b]] # 0
    <3> SUFFICES ASSUME NEW b \in Actors, stage'[b] = "closing"
                 PROVE  sold'[target[b]] # 0
      BY <2>2
    <3>1. CASE b = a
      BY <2>6, <3>1
    <3>2. CASE b # a
      BY <1>1, <2>2, <2>5, <3>2 DEF FillInv, ClosedAreSold, CloseStage
    <3>3. QED
      BY <3>1, <3>2
  <2>8. QED
    BY <2>2, <2>3, <2>5, <2>7 DEF FillInv, ClosedAreSold
<1>5. CASE \E a \in Actors : BookClose(a)
  <2>1. PICK a \in Actors : BookClose(a)
    BY <1>5
  <2>2. /\ stage' = [stage EXCEPT ![a] = IF a = "cycle" THEN "exits" ELSE "idle"]
        /\ target' = [target EXCEPT ![a] = NoPosition]
        /\ row' = [row EXCEPT ![target[a]] = "closed"] /\ sold' = sold /\ bought' = bought
        /\ target[a] \in Positions /\ sold[target[a]] # 0 /\ row[target[a]] # "none"
        /\ stage[a] = "closing"
    BY <1>1, <2>1 DEF BookClose, RecordClose, fills, CloseStage, FillInv, ClosedAreSold,
       RowInv, RowsInHand
  <2>3. BoughtHaveRows'
    BY <1>1, <2>2 DEF FillInv, BoughtHaveRows
  <2>4. ClosedAreSold'
    BY <1>1, <2>2 DEF FillInv, ClosedAreSold
  <2>5. QED
    BY <2>3, <2>4 DEF FillInv
<1>6. CASE \E r \in Requests : SquareOff(r)
  <2>1. PICK r \in Requests : SquareOff(r)
    BY <1>6
  <2>2. r \in Actors /\ r # "cycle"
    BY RequestsAssumption DEF Actors
  <2>3. PICK p \in Positions : target' = [target EXCEPT ![r] = p]
    BY <2>1 DEF SquareOff, OpenRows
  <2>4. /\ stage' = [stage EXCEPT ![r] = "selling"]
        /\ row' = row /\ sold' = sold /\ bought' = bought
    BY <2>1 DEF SquareOff, tables, fills
  <2>5. QED
    BY <1>1, <2>2, <2>3, <2>4 DEF FillInv, BoughtHaveRows, ClosedAreSold
<1>7. CASE \/ CycleBegin \/ RiskGates \/ Evaluate \/ EntriesDone \/ CountTrades
           \/ InstrumentGates \/ ReadRows \/ ExitsDone
           \/ \E p \in Positions : Hold(p) \/ FireExit(p)
           \/ Environment \/ UNCHANGED vars
  <2>1. row' = row /\ sold' = sold /\ bought' = bought
    BY <1>7 DEF CycleBegin, RiskGates, Evaluate, EntriesDone, CountTrades, InstrumentGates,
       ReadRows, ExitsDone, Hold, FireExit, Environment, HaltMoves, ClockPassesHardExit,
       vars, tables, fills
  <2>2. \A a \in Actors : stage'[a] = "closing" => stage[a] = "closing" /\ target'[a] = target[a]
    BY <1>1, <1>7 DEF CycleBegin, RiskGates, Evaluate, EntriesDone, CountTrades, InstrumentGates,
       ReadRows, ExitsDone, Hold, FireExit, Environment, HaltMoves, ClockPassesHardExit,
       vars, AfterGates, NextInstrument
  <2>3. stage["cycle"] = "booking" => stage'["cycle"] = "booking" /\ target'["cycle"] = target["cycle"]
    BY <1>1, <1>7 DEF CycleBegin, RiskGates, Evaluate, EntriesDone, CountTrades, InstrumentGates,
       ReadRows, ExitsDone, Hold, FireExit, Environment, HaltMoves, ClockPassesHardExit, vars
  <2>4. QED
    BY <2>1, <2>2, <2>3 DEF FillInv, BoughtHaveRows, ClosedAreSold
<1>8. CASE \E a \in Actors : Fail(a)
  BY <1>8, NoFailYet DEF RowInv
<1>9. Requests \subseteq Actors
  BY DEF Actors
<1>10. QED
  BY <1>2, <1>3, <1>4, <1>5, <1>6, <1>7, <1>8, <1>9
     DEF Next, CycleStep, EntryStep, ExitStep, CloseStep

(* What is bought and not sold has an open row; what is bought has a row -- *)
(* but for the position the cycle has just bought.                          *)
LEMMA HeldIsBooked ==
  ASSUME RowInv, FillInv
  PROVE  IF stage["cycle"] = "booking"
         THEN /\ Holding \subseteq OpenRows \cup {target["cycle"]}
              /\ bought \subseteq Entries \cup {target["cycle"]}
         ELSE Holding \subseteq OpenRows /\ bought \subseteq Entries
BY DEF RowInv, TypeOK, FillInv, BoughtHaveRows, ClosedAreSold, Holding, OpenRows, Entries

LEMMA FillsFollowRows ==
  ASSUME RowInv, FillInv
  PROVE  Within(Holding, bought)
<1> DEFINE c == target["cycle"]
           Opened == IF stage["cycle"] = "booking" THEN OpenRows \cup {c} ELSE OpenRows
           Entered == IF stage["cycle"] = "booking" THEN Entries \cup {c} ELSE Entries
<1>1. Holding \subseteq Opened /\ bought \subseteq Entered
  BY HeldIsBooked
<1>2. MaxOpen \in Nat /\ MaxTrades \in Nat /\ MaxPerUnderlying \in Nat
  BY LimitsAssumption
<1>3. IsFiniteSet(Opened) /\ Cardinality(Opened) <= MaxOpen
  <2>1. CASE stage["cycle"] = "booking"
    BY <1>2, <2>1, RowSetsFinite, FS_AddElement, AddBelow DEF RowInv, BookHasRoom
  <2>2. CASE stage["cycle"] # "booking"
    BY <2>2, RowSetsFinite DEF RowInv, RowsWithinLimits, Within
  <2>3. QED
    BY <2>1, <2>2
<1>4. IsFiniteSet(Entered) /\ Cardinality(Entered) <= MaxTrades
  <2>1. CASE stage["cycle"] = "booking"
    BY <1>2, <2>1, RowSetsFinite, FS_AddElement, AddBelow DEF RowInv, BookHasRoom
  <2>2. CASE stage["cycle"] # "booking"
    BY <2>2, RowSetsFinite DEF RowInv, RowsWithinLimits, Within
  <2>3. QED
    BY <2>1, <2>2
<1>5. ASSUME NEW u \in Underlyings
      PROVE  /\ IsFiniteSet(Entered \cap On(u))
             /\ Cardinality(Entered \cap On(u)) <= MaxPerUnderlying
  <2>1. CASE stage["cycle"] = "booking" /\ c \in On(u)
    <3>1. u \in current
      BY <2>1 DEF On, RowInv, BuysTheCurrent
    <3>2. Cardinality(EntriesOn(u)) < MaxPerUnderlying
      BY <2>1, <3>1 DEF RowInv, UnderlyingHasRoom
    <3>3. Entered \cap On(u) = EntriesOn(u) \cup {c}
      BY <2>1 DEF EntriesOn
    <3>4. IsFiniteSet(EntriesOn(u))
      BY RowSetsFinite
    <3>5. /\ IsFiniteSet(EntriesOn(u) \cup {c})
          /\ Cardinality(EntriesOn(u) \cup {c}) <= MaxPerUnderlying
      BY <1>2, <3>2, <3>4, FS_AddElement, AddBelow
    <3>6. QED
      BY <3>3, <3>5
  <2>2. CASE ~(stage["cycle"] = "booking" /\ c \in On(u))
    <3>1. Entered \cap On(u) = EntriesOn(u)
      BY <2>2 DEF EntriesOn
    <3>2. QED
      BY <3>1, RowSetsFinite DEF EntriesOn, RowInv, RowsWithinLimits, Within
  <2>3. QED
    BY <2>1, <2>2
<1> HIDE DEF Opened, Entered
<1>6. Cardinality(Holding) <= MaxOpen
  <2>1. Cardinality(Holding) <= Cardinality(Opened) /\ Cardinality(Holding) \in Nat
    BY <1>1, <1>3, FS_Subset, FS_CardinalityType
  <2>2. Cardinality(Opened) \in Nat
    BY <1>3, FS_CardinalityType
  <2>3. QED
    BY <1>2, <1>3, <2>1, <2>2
<1>7. Cardinality(bought) <= MaxTrades
  <2>1. Cardinality(bought) <= Cardinality(Entered) /\ Cardinality(bought) \in Nat
    BY <1>1, <1>4, FS_Subset, FS_CardinalityType
  <2>2. Cardinality(Entered) \in Nat
    BY <1>4, FS_CardinalityType
  <2>3. QED
    BY <1>2, <1>4, <2>1, <2>2
<1>8. ASSUME NEW u \in Underlyings
      PROVE  Cardinality(bought \cap On(u)) <= MaxPerUnderlying
  <2>1. bought \cap On(u) \subseteq Entered \cap On(u)
    BY <1>1
  <2>2. /\ Cardinality(bought \cap On(u)) <= Cardinality(Entered \cap On(u))
        /\ Cardinality(bought \cap On(u)) \in Nat
    BY <1>5, <2>1, FS_Subset, FS_CardinalityType
  <2>3. Cardinality(Entered \cap On(u)) \in Nat
    BY <1>5, FS_CardinalityType
  <2>4. QED
    BY <1>2, <1>5, <2>2, <2>3
<1>9. QED
  BY <1>6, <1>7, <1>8 DEF Within

FillInvYet == failures = 0 => FillInv

(* Until a call fails midway, what the broker holds and what was bought     *)
(* this session stay within the limits too, with any number of square-offs  *)
(* beside the cycle (submit, then insert_open_position).                    *)
LEMMA FillLimits == Spec => []FillsWithinLimits
<1>1. Init => RowInv /\ FillInvYet
  BY RowInit, FillInit DEF FillInvYet
<1>2. RowInv /\ FillInvYet /\ [Next]_vars => (RowInv /\ FillInvYet)'
  <2> SUFFICES ASSUME RowInv, FillInvYet, [Next]_vars PROVE RowInv' /\ FillInvYet'
    OBVIOUS
  <2>1. failures' = 0 => failures = 0
    BY FailuresCount DEF RowInv
  <2>2. failures' = 0 => FillInv'
    BY <2>1, FillStep DEF FillInvYet
  <2> QED
    BY <2>2, RowStep DEF FillInvYet
<1>3. RowInv /\ FillInvYet => FillsWithinLimits
  BY FillsFollowRows DEF FillInvYet, FillsWithinLimits
<1>4. QED
  BY <1>1, <1>2, <1>3, PTL DEF Spec

(* For any positions, requests and failures the rows stay within the three  *)
(* entry limits, and until a step fails so does what the broker filled.     *)
THEOREM LimitsHold == Spec => []WithinLimits
BY RowLimits, FillLimits, PTL DEF WithinLimits

-----------------------------------------------------------------------------
(* The cycle alone: no position is sold twice, and the whole is a           *)
(* PositionLedger.  SerialInv follows one position from row to SELL: what   *)
(* is sold is closed or just about to be, and a row read as open still is.  *)

SoldAreClosed ==
  \A p \in Positions : sold[p] # 0 =>
    row[p] = "closed" \/ (stage["cycle"] = "closing" /\ target["cycle"] = p)
SoldOnce == \A p \in Positions : sold[p] <= 1
RowsAreBought ==
  /\ \A p \in Positions : row[p] # "none" => p \in bought
  /\ stage["cycle"] = "booking" => target["cycle"] \in bought /\ row[target["cycle"]] = "none"
ClosingIsOpen ==
  /\ unseen \subseteq OpenRows
  /\ stage["cycle"] \in CloseStage => row[target["cycle"]] = "open" /\ target["cycle"] \notin unseen

SerialInv == SoldAreClosed /\ SoldOnce /\ RowsAreBought /\ ClosingIsOpen

LEMMA SerialInit == Init => SerialInv
BY DEF Init, SerialInv, SoldAreClosed, SoldOnce, RowsAreBought, ClosingIsOpen, CloseStage,
   OpenRows, Actors

LEMMA SerialStep ==
  ASSUME Requests = {}, MaxFailures = 0, RowInv, SerialInv, [Next]_vars
  PROVE  SerialInv'
<1> USE CycleIsActor DEF At, Goto, About
<1> USE DEF SerialInv
<1>1. /\ stage \in [Actors -> Stage] /\ target \in [Actors -> Positions \cup {NoPosition}]
      /\ row \in [Positions -> {"none", "open", "closed"}] /\ sold \in [Positions -> Nat]
      /\ bought \subseteq Positions
      /\ \A a \in Actors : target[a] \in Positions <=> stage[a] \in {"booking"} \cup CloseStage
  BY DEF RowInv, TypeOK
<1> DEFINE c == target["cycle"]
<1>2. CASE SubmitBuy
  <2>1. CASE halted
    BY <1>1, <1>2, <2>1 DEF SubmitBuy, tables, SoldAreClosed, SoldOnce, RowsAreBought,
       ClosingIsOpen, CloseStage, OpenRows
  <2>2. CASE ~halted
    <3>1. PICK p \in Positions \ bought : bought' = bought \cup {p} /\ About("cycle", p)
      BY <1>2, <2>2 DEF SubmitBuy, On
    <3>2. /\ stage' = [stage EXCEPT !["cycle"] = "booking"] /\ row' = row /\ sold' = sold
          /\ unseen' = unseen /\ stage["cycle"] = "buying"
      BY <1>2, <2>2 DEF SubmitBuy, tables
    <3>3. QED
      BY <1>1, <3>1, <3>2 DEF SoldAreClosed, SoldOnce, RowsAreBought, ClosingIsOpen,
         CloseStage, OpenRows
  <2>3. QED
    BY <2>1, <2>2
<1>3. CASE BookEntry
  <2>1. /\ stage' = [stage EXCEPT !["cycle"] = "instruments"] /\ sold' = sold /\ bought' = bought
        /\ row' = [row EXCEPT ![c] = "open"] /\ row[c] = "none"
        /\ c \in Positions /\ c \in bought
        /\ target' = [target EXCEPT !["cycle"] = NoPosition] /\ unseen' = unseen
        /\ stage["cycle"] = "booking"
    BY <1>1, <1>3 DEF BookEntry, NextInstrument, fills, RowsAreBought
  <2>2. unseen' \subseteq OpenRows'
    BY <1>1, <2>1 DEF ClosingIsOpen, OpenRows
  <2>3. SoldOnce' /\ RowsAreBought' /\ ClosingIsOpen'
    BY <1>1, <2>1, <2>2 DEF SoldOnce, RowsAreBought, ClosingIsOpen, CloseStage
  <2>4. SoldAreClosed'
    BY <1>1, <2>1 DEF SoldAreClosed
  <2>5. QED
    BY <2>3, <2>4
<1>4. CASE Sell("cycle")
  <2>1. /\ stage' = [stage EXCEPT !["cycle"] = "closing"] /\ sold' = [sold EXCEPT ![c] = @ + 1]
        /\ c \in Positions /\ row' = row /\ bought' = bought /\ target' = target
        /\ stage["cycle"] = "selling" /\ unseen' = unseen
    BY <1>1, <1>4 DEF Sell, tables, loops, CloseStage
  <2>2. row[c] = "open"
    BY <2>1 DEF ClosingIsOpen, CloseStage
  <2>3. sold[c] = 0
    BY <2>1, <2>2 DEF SoldAreClosed
  <2>4. SoldOnce'
    <3> SUFFICES ASSUME NEW p \in Positions PROVE sold'[p] <= 1
      BY DEF SoldOnce
    <3>1. CASE p = c
      BY <1>1, <2>1, <2>3, <3>1
    <3>2. CASE p # c
      BY <1>1, <2>1, <3>2 DEF SoldOnce
    <3>3. QED
      BY <3>1, <3>2
  <2>5. SoldAreClosed'
    BY <1>1, <2>1 DEF SoldAreClosed
  <2>6. RowsAreBought' /\ ClosingIsOpen'
    BY <1>1, <2>1 DEF RowsAreBought, ClosingIsOpen, CloseStage, OpenRows
  <2>7. QED
    BY <2>4, <2>5, <2>6
<1>5. CASE BookClose("cycle")
  <2>1. /\ stage' = [stage EXCEPT !["cycle"] = "exits"] /\ target' = [target EXCEPT !["cycle"] = NoPosition]
        /\ row' = [row EXCEPT ![c] = "closed"] /\ sold' = sold /\ bought' = bought
        /\ c \in Positions /\ stage["cycle"] = "closing" /\ unseen' = unseen
    BY <1>1, <1>5 DEF BookClose, RecordClose, fills, loops, CloseStage
  <2>2. c \notin unseen /\ row[c] = "open"
    BY <2>1 DEF ClosingIsOpen, CloseStage
  <2>3. unseen' \subseteq OpenRows'
    BY <1>1, <2>1, <2>2 DEF ClosingIsOpen, OpenRows
  <2>4. QED
    BY <1>1, <2>1, <2>2, <2>3 DEF SoldAreClosed, SoldOnce, RowsAreBought, ClosingIsOpen, CloseStage
<1>6. CASE \E p \in Positions : FireExit(p)
  <2>1. PICK p \in Positions : FireExit(p)
    BY <1>6
  <2>2. /\ stage' = [stage EXCEPT !["cycle"] = "selling"] /\ target' = [target EXCEPT !["cycle"] = p]
        /\ p \in unseen /\ unseen' = unseen \ {p} /\ stage["cycle"] = "exits"
        /\ row' = row /\ sold' = sold /\ bought' = bought
    BY <2>1 DEF FireExit, tables, fills
  <2>3. row[p] = "open"
    BY <2>2 DEF ClosingIsOpen, OpenRows
  <2>4. QED
    BY <1>1, <2>2, <2>3 DEF SoldAreClosed, SoldOnce, RowsAreBought, ClosingIsOpen, CloseStage, OpenRows
<1>7. CASE \/ CycleBegin \/ RiskGates \/ Evaluate \/ EntriesDone \/ CountTrades
           \/ InstrumentGates \/ ReadRows \/ ExitsDone
           \/ \E p \in Positions : Hold(p)
           \/ Environment \/ UNCHANGED vars
  <2>1. row' = row /\ sold' = sold /\ bought' = bought /\ target' = target
    BY <1>7 DEF CycleBegin, RiskGates, Evaluate, EntriesDone, CountTrades, InstrumentGates,
       ReadRows, ExitsDone, Hold, Environment, HaltMoves, ClockPassesHardExit,
       vars, tables, fills
  <2>2. unseen' \subseteq unseen \/ unseen' = OpenRows
    BY <1>7 DEF CycleBegin, RiskGates, Evaluate, EntriesDone, CountTrades, InstrumentGates,
       ReadRows, ExitsDone, Hold, Environment, HaltMoves, ClockPassesHardExit, vars, loops
  <2>3. OpenRows' = OpenRows
    BY <2>1 DEF OpenRows
  <2>4. \/ stage' = stage /\ unseen' \subseteq unseen
        \/ stage["cycle"] \notin {"booking"} \cup CloseStage /\ stage'["cycle"] \notin {"booking"} \cup CloseStage
    BY <1>1, <1>7 DEF CycleBegin, RiskGates, Evaluate, EntriesDone, CountTrades, InstrumentGates,
       ReadRows, ExitsDone, Hold, Environment, HaltMoves, ClockPassesHardExit, loops,
       vars, AfterGates, NextInstrument, CloseStage
  <2>5. ClosingIsOpen'
    BY <2>1, <2>2, <2>3, <2>4 DEF ClosingIsOpen
  <2>6. SoldAreClosed' /\ SoldOnce' /\ RowsAreBought'
    BY <1>1, <2>1, <2>4 DEF SoldAreClosed, SoldOnce, RowsAreBought, CloseStage
  <2>7. QED
    BY <2>5, <2>6
<1>8. CASE \E a \in Actors : Fail(a)
  BY <1>8, NoFail DEF RowInv
<1>9. QED
  BY <1>2, <1>3, <1>4, <1>5, <1>6, <1>7, <1>8
     DEF Next, CycleStep, EntryStep, ExitStep, CloseStep

(* The cycle alone never sells a position twice: its reduce_only orders are *)
(* what OrderRequest.reduce_only says they are.                             *)
THEOREM SerialNeverShort ==
  ASSUME Requests = {}, MaxFailures = 0
  PROVE  Spec => []NeverShort
<1>1. Init => RowInv /\ SerialInv
  BY RowInit, SerialInit
<1>2. RowInv /\ SerialInv /\ [Next]_vars => (RowInv /\ SerialInv)'
  BY RowStep, SerialStep
<1>3. SerialInv => NeverShort
  BY DEF SerialInv, SoldOnce, NeverShort
<1>4. QED
  BY <1>1, <1>2, <1>3, PTL DEF Spec

LEMMA SubsetBelow ==
  ASSUME NEW T, IsFiniteSet(T), NEW S \in SUBSET T, NEW n \in Nat, Cardinality(T) < n
  PROVE  Cardinality(S) < n
<1>1. IsFiniteSet(S) /\ Cardinality(S) <= Cardinality(T)
  BY FS_Subset
<1>2. Cardinality(S) \in Nat /\ Cardinality(T) \in Nat
  BY <1>1, FS_CardinalityType
<1>3. QED
  BY <1>1, <1>2

(* The ledger counts as the book does.                                      *)
LEMMA SameCount == ASSUME NEW S PROVE Ledger!Cardinality(S) = Cardinality(S)
BY Zenon DEF Ledger!Cardinality, Cardinality

LEMMA LedgerSets ==
  ASSUME TypeOK, SoldOnce
  PROVE  Ledger!Held = Holding /\ Ledger!Taken = bought
BY DEF TypeOK, SoldOnce, Ledger!Held, Ledger!Taken, Holding, Pos

LEMMA LedgerEnter ==
  ASSUME RowInv, FillInv, SerialInv, SubmitBuy
  PROVE  Ledger!Next \/ UNCHANGED Pos
<1> USE CycleIsActor DEF At, Goto, About
<1>1. CASE halted
  BY <1>1 DEF SubmitBuy, Pos
<1>2. CASE ~halted
  <2>1. PICK u \in current : \E p \in On(u) \ bought : bought' = bought \cup {p}
    BY <1>2 DEF SubmitBuy
  <2> PICK p \in On(u) \ bought : bought' = bought \cup {p}
    BY <2>1
  <2>2. p \in Positions /\ UnderlyingOf[p] = u /\ sold' = sold /\ stage["cycle"] = "buying"
    BY <1>2 DEF SubmitBuy, On
  <2>3. Holding \subseteq OpenRows /\ bought \subseteq Entries
    BY <2>2, HeldIsBooked
  <2>4. MaxOpen \in Nat /\ MaxTrades \in Nat /\ MaxPerUnderlying \in Nat
    BY LimitsAssumption
  <2>5. Cardinality(Holding) < MaxOpen /\ Cardinality(bought) < MaxTrades
    BY <2>2, <2>3, <2>4, RowSetsFinite, SubsetBelow DEF RowInv, BookHasRoom
  <2>6. Cardinality({q \in bought : UnderlyingOf[q] = u}) < MaxPerUnderlying
    <3>1. {q \in bought : UnderlyingOf[q] = u} \subseteq EntriesOn(u)
      BY <2>3 DEF EntriesOn, On, Entries
    <3>2. Cardinality(EntriesOn(u)) < MaxPerUnderlying
      BY <2>1, <2>2 DEF RowInv, UnderlyingHasRoom
    <3>3. QED
      BY <3>1, <3>2, <2>4, RowSetsFinite, SubsetBelow
  <2>7. sold[p] = 0
    BY <2>2 DEF SerialInv, SoldAreClosed, RowsAreBought
  <2>8. Pos[p] = "none" /\ Pos' = [Pos EXCEPT ![p] = "held"]
    BY <2>2, <2>7 DEF Pos
  <2>9. Ledger!Held = Holding /\ Ledger!Taken = bought
    BY LedgerSets DEF RowInv, SerialInv
  <2>10. Ledger!Enter(p)
    <3>1. Cardinality({q \in Ledger!Taken : UnderlyingOf[q] = UnderlyingOf[p]}) < MaxPerUnderlying
      BY <2>2, <2>6, <2>9
    <3>2. Cardinality(Ledger!Held) < MaxOpen /\ Cardinality(Ledger!Taken) < MaxTrades
      BY <2>5, <2>9
    <3>3. QED
      BY <2>8, <3>1, <3>2, SameCount DEF Ledger!Enter
  <2>11. QED
    BY <2>2, <2>10 DEF Ledger!Next
<1>3. QED
  BY <1>1, <1>2

LEMMA LedgerLeave ==
  ASSUME RowInv, SerialInv, Sell("cycle")
  PROVE  Ledger!Next
<1> USE CycleIsActor DEF At, Goto
<1> DEFINE c == target["cycle"]
<1>1. /\ c \in Positions /\ stage["cycle"] = "selling" /\ bought' = bought
      /\ sold' = [sold EXCEPT ![c] = @ + 1] /\ sold \in [Positions -> Nat]
  BY DEF Sell, RowInv, TypeOK, CloseStage
<1>2. row[c] = "open" /\ c \in bought
  BY <1>1 DEF SerialInv, ClosingIsOpen, RowsAreBought, CloseStage
<1>3. sold[c] = 0
  BY <1>1, <1>2 DEF SerialInv, SoldAreClosed
<1> HIDE DEF c
<1>4. Pos[c] = "held" /\ Pos' = [Pos EXCEPT ![c] = "flat"]
  <2>1. sold'[c] = 1 /\ \A q \in Positions : q # c => sold'[q] = sold[q]
    BY <1>1, <1>3
  <2>2. Pos'[c] = "flat" /\ \A q \in Positions : q # c => Pos'[q] = Pos[q]
    BY <1>1, <1>2, <2>1 DEF Pos
  <2>3. Pos' = [q \in Positions |-> Pos'[q]] /\ Pos = [q \in Positions |-> Pos[q]]
    BY DEF Pos
  <2>4. Pos[c] = "held"
    BY <1>1, <1>2, <1>3 DEF Pos
  <2>5. QED
    BY <1>1, <2>2, <2>3, <2>4
<1>5. QED
  BY <1>1, <1>4 DEF Ledger!Next, Ledger!Leave

LEMMA LedgerStep ==
  ASSUME Requests = {}, MaxFailures = 0, RowInv, FillInv, SerialInv, [Next]_vars
  PROVE  [Ledger!Next]_Pos
<1>1. CASE SubmitBuy
  BY <1>1, LedgerEnter
<1>2. CASE Sell("cycle")
  BY <1>2, LedgerLeave
<1>3. CASE \/ CycleBegin \/ RiskGates \/ Evaluate \/ EntriesDone \/ CountTrades
           \/ InstrumentGates \/ BookEntry \/ ReadRows \/ ExitsDone
           \/ \E p \in Positions : Hold(p) \/ FireExit(p)
           \/ BookClose("cycle") \/ Environment \/ UNCHANGED vars
  <2>1. bought' = bought /\ sold' = sold
    BY <1>3 DEF CycleBegin, RiskGates, Evaluate, EntriesDone, CountTrades, InstrumentGates,
       BookEntry, ReadRows, ExitsDone, Hold, FireExit, BookClose, Environment, HaltMoves,
       ClockPassesHardExit, vars, fills
  <2>2. QED
    BY <2>1 DEF Pos
<1>4. CASE \E a \in Actors : Fail(a)
  BY <1>4, NoFail DEF RowInv
<1>5. QED
  BY <1>1, <1>2, <1>3, <1>4 DEF Next, CycleStep, EntryStep, ExitStep, CloseStep

(* The cycle alone, without failures, implements PositionLedger: one BUY,   *)
(* one SELL, never past a limit (run_entry_cycle, run_exit_cycle).          *)
THEOREM BookImplementsLedger ==
  ASSUME Requests = {}, MaxFailures = 0
  PROVE  Spec => ImplementsLedger
<1>1. Init => RowInv /\ FillInv /\ SerialInv
  BY RowInit, FillInit, SerialInit
<1>0. RowInv' => failures' = 0
  BY DEF RowInv, TypeOK
<1>2. RowInv /\ FillInv /\ SerialInv /\ [Next]_vars => (RowInv /\ FillInv /\ SerialInv)'
  BY RowStep, <1>0, FillStep, SerialStep
<1>3. Init => Ledger!Init
  BY DEF Init, Ledger!Init, Pos
<1>4. RowInv /\ FillInv /\ SerialInv /\ [Next]_vars => [Ledger!Next]_Pos
  BY LedgerStep
<1>5. QED
  BY <1>1, <1>2, <1>3, <1>4, PTL DEF Spec, ImplementsLedger, Ledger!Spec
=============================================================================
