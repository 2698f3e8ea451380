------------------------------- MODULE CycleMarks -------------------------------
(***************************************************************************)
(* What one run of the paper cycle is told of the prices of its open       *)
(* positions (PaperCycleRunner.run_once, _current_premium_from_quotes in   *)
(* engine/scheduler.py, unrealized_pnl_paise and the exit loop in          *)
(* engine/cycle.py): the gates before the entries price every row, the     *)
(* exits after them price the rows again.                                  *)
(*                                                                         *)
(* The broker may answer otherwise each time it is asked.                  *)
(***************************************************************************)
EXTENDS Integers, Sequences, FiniteSets

CONSTANTS
  Held,        \* the contracts a position may be open in
  Answers,     \* of the broker: [kind, bid, ltp]
  LatestBars,  \* closes of the last five minutes, NoMark among them
  EntryPrice,
  JumpPct, ConfirmPct,   \* of sanity_checked_mark
  MaxCycles    \* bound

NoMark == 0
NotAsked == 0 - 1
Kinds == {"quote", "refused", "malformed"}   \* an OpenAlgoRestError; any other exception

ASSUME MarksAssumption ==
  /\ Answers \subseteq [kind : Kinds, bid : Nat, ltp : Nat]
  /\ NoMark \in LatestBars /\ LatestBars \subseteq Nat /\ EntryPrice \in Nat \ {NoMark}
  /\ {JumpPct, ConfirmPct, MaxCycles} \subseteq Nat

VARIABLES
  marks,    \* of a row: [last, pend], the confirmed and the quarantined mark
  held,     \* the contracts with an open row
  step,     \* where run_once is
  todo,     \* the rows its present loop has yet to price
  asked,    \* the memo of the premium source
  gateMark, exitMark,   \* what the gates and the exits took each row to be worth
  managed,  \* the rows the exits have looked at
  cycles

marksVars == <<marks, held, step, todo, asked, gateMark, exitMark, managed, cycles>>
lastSaid == <<gateMark, exitMark>>

Fresh == [last |-> NoMark, pend |-> NoMark]
Nowhere == [c \in Held |-> NotAsked]

MarksInit ==
  /\ marks = [c \in Held |-> Fresh] /\ held \in SUBSET Held
  /\ step = "idle" /\ todo = {} /\ asked = Nowhere /\ gateMark = Nowhere /\ exitMark = Nowhere
  /\ managed = {} /\ cycles = 0

-----------------------------------------------------------------------------
(* The premium source of a run: the bid, else the last price, else the      *)
(* newest bar, else nothing; once for each contract.                        *)

PriceIn(answer, bar) ==
  IF answer.kind = "quote" /\ answer.bid > 0 THEN answer.bid
  ELSE IF answer.kind = "quote" /\ answer.ltp > 0 THEN answer.ltp
  ELSE bar

AsksAgain(c, mark) == asked
Remembered(c, mark) == [asked EXCEPT ![c] = mark]

Says(c, mark) ==
  IF asked[c] # NotAsked THEN mark = asked[c] /\ UNCHANGED asked
  ELSE /\ \E a \in Answers, bar \in LatestBars : a.kind # "malformed" /\ mark = PriceIn(a, bar)
       /\ asked' = Remembered(c, mark)

(* quotes() reads the envelope outside its try: a key that is missing or a  *)
(* null where a number should be leaves it as KeyError or TypeError.        *)
Breaks(c) == asked[c] = NotAsked /\ (\E a \in Answers : a.kind = "malformed") /\ UNCHANGED asked

PossibleMarks == LatestBars \cup {a.bid : a \in Answers} \cup {a.ltp : a \in Answers}

Around(a, b, pct) == b # NoMark /\ 100 * (IF a < b THEN b - a ELSE a - b) <= pct * b
Trusted(c, q) == marks[c].last = NoMark \/ Around(q, marks[c].last, JumpPct) \/ Around(q, marks[c].pend, ConfirmPct)
Checked(c, q) == IF Trusted(c, q) THEN q ELSE marks[c].last

-----------------------------------------------------------------------------
(* run_once.                                                                *)

(* A pause or a halt leaves the entries out, gates and all.                 *)
CycleBegins ==
  /\ step = "idle" /\ cycles < MaxCycles
  /\ cycles' = cycles + 1
  /\ step' \in {"gates", "exits"} /\ todo' = held
  /\ asked' = Nowhere /\ gateMark' = Nowhere /\ exitMark' = Nowhere /\ managed' = {}
  /\ UNCHANGED <<marks, held>>

(* unrealized_pnl_paise of one row: it keeps nothing of what it reads.      *)
Gates(c) ==
  /\ step = "gates" /\ c \in todo
  /\ \E q \in PossibleMarks :
       /\ Says(c, q)
       /\ gateMark' = [gateMark EXCEPT ![c] = IF q # NoMark THEN Checked(c, q)
                                              ELSE IF marks[c].last # NoMark THEN marks[c].last ELSE EntryPrice]
  /\ todo' = todo \ {c}
  /\ UNCHANGED <<marks, held, step, exitMark, managed, cycles>>

(* Nothing in run_entry_cycle or run_once catches it.                       *)
GatesRaise(c) ==
  /\ step = "gates" /\ c \in todo /\ Breaks(c)
  /\ step' = "idle" /\ todo' = {}
  /\ UNCHANGED <<marks, held, lastSaid, managed, cycles>>

EntersRow(c) ==
  /\ step = "gates" /\ todo = {} /\ c \notin held
  /\ held' = held \cup {c} /\ marks' = [marks EXCEPT ![c] = Fresh]
  /\ UNCHANGED <<step, todo, asked, lastSaid, managed, cycles>>

EntriesEnd ==
  /\ step = "gates" /\ todo = {}
  /\ step' = "exits" /\ todo' = held
  /\ UNCHANGED <<marks, held, asked, lastSaid, managed, cycles>>

Looked(c) == todo' = todo \ {c} /\ managed' = managed \cup {c} /\ UNCHANGED <<step, gateMark, cycles>>
Closes(c) == held' \in {held, held \ {c}}

ExitPrices(c) ==
  /\ step = "exits" /\ c \in todo
  /\ \E q \in PossibleMarks \ {NoMark} :
       /\ Says(c, q)
       /\ marks' = [marks EXCEPT ![c] = IF Trusted(c, q) THEN [last |-> q, pend |-> NoMark] ELSE [@ EXCEPT !.pend = q]]
       /\ exitMark' = [exitMark EXCEPT ![c] = Checked(c, q)]
  /\ Closes(c)
  /\ Looked(c)

(* No price: the clock alone may close it, at the last one; the exit loop   *)
(* takes an exception for no price.                                         *)
ExitUnpriced(c) ==
  /\ step = "exits" /\ c \in todo
  /\ Says(c, NoMark) \/ Breaks(c)
  /\ IF marks[c].last # NoMark
       THEN exitMark' = [exitMark EXCEPT ![c] = marks[c].last] /\ Closes(c)
       ELSE UNCHANGED <<exitMark, held>>
  /\ UNCHANGED marks
  /\ Looked(c)

CycleEnds ==
  /\ step = "exits" /\ todo = {}
  /\ step' = "idle"
  /\ UNCHANGED <<marks, held, todo, asked, lastSaid, managed, cycles>>

MarksNext ==
  \/ CycleBegins \/ EntriesEnd \/ CycleEnds
  \/ \E c \in Held : Gates(c) \/ GatesRaise(c) \/ EntersRow(c) \/ ExitPrices(c) \/ ExitUnpriced(c)

MarksSpec == MarksInit /\ [][MarksNext]_marksVars

-----------------------------------------------------------------------------
(* scheduler.py:1181-1184: "Those two must never see different marks for    *)
(* the same position in the same minute": neither the quote nor the filter  *)
(* on it, nor a broker that answers otherwise the second time, parts the    *)
(* gates that halt on a row's loss from the exits that close it.            *)
OneMarkPerCycle ==
  \A c \in Held : gateMark[c] # NotAsked /\ exitMark[c] # NotAsked => gateMark[c] = exitMark[c]

(* cycle.py:896-898: "One bad symbol must not abort exit management for     *)
(* every OTHER open position": when a run is over its exits have looked at  *)
(* every row that is still open.                                            *)
ExitsAreManaged == step = "idle" /\ cycles > 0 => held \subseteq managed

MarksTypeOK ==
  /\ marks \in [Held -> [last : Nat, pend : Nat]] /\ held \subseteq Held /\ todo \subseteq held
  /\ step \in {"idle", "gates", "exits"} /\ managed \subseteq Held /\ cycles \in 0 .. MaxCycles
=================================================================================
