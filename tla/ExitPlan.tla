------------------------------- MODULE ExitPlan -------------------------------
(***************************************************************************)
(* The exit plan of one long option position, cycle after cycle: the       *)
(* filter on its quotes, the trailing stop, the stepped profit lock and    *)
(* the order of the exits (engine/exits.py, the exit loop of               *)
(* engine/cycle.py, the row updates of persistence/repos/paper_trading.py).*)
(*                                                                         *)
(* Prices are paise and time counts paper cycles.  The quotients of        *)
(* _next_profit_lock_rung are truncated at the end, as the 28-digit        *)
(* decimals of the code are for the prices of a run.                       *)
(***************************************************************************)
EXTENDS Integers

CONSTANTS
  Quotes,       \* the prices a position can be quoted at
  Plans,        \* the exit plans a position can be opened with
  JumpPct,      \* DEFAULT_MAX_MARK_JUMP_PCT
  ConfirmPct,   \* _CONFIRM_TOLERANCE_PCT
  MaxHold,      \* the cycle at which max_hold has passed
  HardExit,     \* the first cycle at or after hard_exit_by
  MaxTime,      \* bound on the cycles
  Failures      \* TRUE: a cycle may be lost, a SELL may fail

None == 0       \* no mark, no trail, no profit lock

(* ExitPlan.__post_init__, and prices are positive.                         *)
PlanOK(p) ==
  /\ p.stop < p.entry /\ p.entry < p.target
  /\ p.lockAt # None => p.stop < p.lockAt /\ p.lockAt < p.target
  /\ p.buffer \in 1 .. 99

ASSUME ExitAssumption ==
  /\ Quotes \subseteq Nat \ {None}
  /\ Plans \subseteq [entry : Nat, stop : Nat, target : Nat, trail : Nat,
                      lockAt : Nat, buffer : Nat]
  /\ \A p \in Plans : PlanOK(p)
  /\ JumpPct \in Nat /\ ConfirmPct \in Nat
  /\ MaxHold \in Nat /\ HardExit \in Nat /\ MaxTime \in Nat
  /\ Failures \in BOOLEAN

VARIABLES
  plan,      \* the levels the row was opened with
  row,       \* its open_positions row: open, stop, locked, last, pend
  now,       \* the cycle
  seen,      \* the last quote a committed visit read (history)
  lockedAt,  \* the mark the profit lock last fired at (history)
  retry,     \* an exit fired and its SELL failed (history)
  exit       \* why, at what and beside what the position was sold (history)

vars == <<plan, row, now, seen, lockedAt, retry, exit>>

Reasons == {"none", "time", "target", "stop", "profit_lock", "trailing_stop", "manual"}
PriceExits == {"target", "stop", "profit_lock", "trailing_stop"}

Init ==
  /\ plan \in Plans
  /\ row = [open |-> TRUE, stop |-> plan.stop, locked |-> FALSE,
            last |-> None, pend |-> None]
  /\ now = 0 /\ seen = None /\ lockedAt = None /\ retry = FALSE
  /\ exit = [reason |-> "none", price |-> None, quote |-> None, last |-> None,
             seen |-> None]

-----------------------------------------------------------------------------
(* sanity_checked_mark, with update_last_mark and update_pending_mark.      *)

Gap(a, b) == IF a < b THEN b - a ELSE a - b
Near(a, b, pct) == b # None /\ 100 * Gap(a, b) <= pct * b

AcceptNear(q) == row.last = None \/ Near(q, row.last, JumpPct)
Accept(q) ==
  \/ row.last = None
  \/ Near(q, row.last, JumpPct)
  \/ Near(q, row.pend, ConfirmPct)

Quarantined(q) == [row EXCEPT !.pend = q]
MarkedKeepsPending(q) == IF Accept(q) THEN [row EXCEPT !.last = q] ELSE Quarantined(q)
Marked(q) ==
  IF Accept(q) THEN [row EXCEPT !.last = q, !.pend = None] ELSE Quarantined(q)

-----------------------------------------------------------------------------
(* evaluate_position at an accepted mark m.                                 *)

Larger(a, b) == IF a < b THEN b ELSE a
PctOf(price, pct) == (price * pct) \div 100

TimeDue == now >= HardExit \/ now >= MaxHold

Trails(m) == plan.trail # None /\ m >= plan.entry + plan.trail
TrailedLoose(m) == IF Trails(m) THEN m - plan.trail ELSE row.stop
Trailed(m) == IF Trails(m) THEN Larger(row.stop, m - plan.trail) ELSE row.stop

RungOnce == plan.lockAt
Rung ==
  IF row.locked
  THEN (row.stop * 100 * plan.lockAt) \div ((100 - plan.buffer) * plan.entry)
  ELSE plan.lockAt
Locks(m) == plan.lockAt # None /\ m >= Rung

NewStop(m) ==
  IF Locks(m) THEN Larger(Trailed(m), m - PctOf(m, plan.buffer)) ELSE Trailed(m)

StoppedBelow(m) == m < NewStop(m)
Stopped(m) == m <= NewStop(m)

Reason(m) ==
  IF TimeDue THEN "time"
  ELSE IF m >= plan.target THEN "target"
  ELSE IF ~Stopped(m) THEN "none"
  ELSE IF NewStop(m) <= plan.stop THEN "stop"
  ELSE IF row.locked \/ Locks(m) THEN "profit_lock"
  ELSE "trailing_stop"

-----------------------------------------------------------------------------
(* One visit of run_exit_cycle.                                             *)

Cycle == row.open /\ now < MaxTime /\ now' = now + 1 /\ UNCHANGED plan

(* update_trailing_stop and engage_profit_lock, when nothing fires.         *)
HoldOnReading(marked, m) ==
  LET reading == IF marked.pend = None THEN m ELSE marked.pend IN
    /\ row' = [marked EXCEPT !.stop = NewStop(reading), !.locked = @ \/ Locks(reading)]
    /\ lockedAt' = (IF Locks(reading) THEN reading ELSE lockedAt)
    /\ retry' = FALSE
    /\ UNCHANGED exit
Hold(marked, m) ==
  /\ row' = [marked EXCEPT !.stop = NewStop(m), !.locked = @ \/ Locks(m)]
  /\ lockedAt' = (IF Locks(m) THEN m ELSE lockedAt)
  /\ retry' = FALSE
  /\ UNCHANGED exit

(* _close_position commits the marks before it sends the SELL; when that    *)
(* fails the row stays open as it was.                                      *)
Sell(marked, reason, price, quote) ==
  /\ \/ /\ row' = [marked EXCEPT !.open = FALSE]
        /\ exit' = [reason |-> reason, price |-> price, quote |-> quote,
                    last |-> row.last, seen |-> seen]
        /\ UNCHANGED retry
     \/ /\ Failures
        /\ row' = marked
        /\ retry' = TRUE
        /\ UNCHANGED exit
  /\ UNCHANGED lockedAt

VisitQuoted(q) ==
  /\ Cycle
  /\ seen' = q
  /\ LET marked == Marked(q)
         m == marked.last IN
       IF Reason(m) = "none" THEN Hold(marked, m) ELSE Sell(marked, Reason(m), m, q)

(* No quote: the clock's exits at the last mark; without one, nothing.      *)
VisitStaleSkips == Cycle /\ UNCHANGED <<row, seen, lockedAt, retry, exit>>
VisitStale ==
  /\ Cycle
  /\ IF TimeDue /\ row.last # None
     THEN Sell(row, "time", row.last, None)
     ELSE UNCHANGED <<row, lockedAt, retry, exit>>
  /\ UNCHANGED seen

(* A cycle that is not run, or is rolled back before it reaches a commit.   *)
CycleLost ==
  /\ Failures /\ Cycle
  /\ UNCHANGED <<row, seen, lockedAt, retry, exit>>

(* square_off_position, at a price of the caller.                           *)
SquareOff(price) ==
  /\ row.open
  /\ row' = [row EXCEPT !.open = FALSE]
  /\ exit' = [reason |-> "manual", price |-> price, quote |-> price,
              last |-> row.last, seen |-> seen]
  /\ UNCHANGED <<plan, now, seen, lockedAt, retry>>

Next ==
  \/ \E q \in Quotes : VisitQuoted(q) \/ SquareOff(q)
  \/ VisitStale
  \/ CycleLost

Spec == Init /\ [][Next]_vars

-----------------------------------------------------------------------------
(* Properties.                                                              *)

Mark == Quotes \cup {None}

(* A mark is only in quarantine beside a confirmed one.                     *)
TypeOK ==
  /\ plan \in Plans
  /\ row \in [open : BOOLEAN, stop : Int, locked : BOOLEAN, last : Mark, pend : Mark]
  /\ row.last = None => row.pend = None
  /\ now \in Nat
  /\ seen \in Mark /\ lockedAt \in Mark
  /\ retry \in BOOLEAN
  /\ exit \in [reason : Reasons, price : Mark, quote : Mark, last : Mark, seen : Mark]

(* A position that is held has its last confirmed mark strictly between its *)
(* stop and its target: no ratchet overtakes the price that raised it and   *)
(* no level that was reached is passed over, whatever order quarantined,    *)
(* missing and good quotes come in (evaluate_position).                     *)
HeldInsideBand ==
  row.open /\ ~retry /\ row.last # None => row.stop < row.last /\ row.last < plan.target

(* No exit on the word of one quote: it is near the mark confirmed before   *)
(* it, or near the reading right before it (sanity_checked_mark).  The very *)
(* first reading is trusted.                                                *)
PriceExitIsVouched ==
  exit.reason \in PriceExits =>
    \/ exit.last = None
    \/ Near(exit.price, exit.last, JumpPct)
    \/ Near(exit.price, exit.seen, ConfirmPct)

(* Two readings in a row that agree on a price past a barrier close the     *)
(* position, however far the jump was (sanity_checked_mark).                *)
PastBarrier(q) == q >= plan.target \/ q <= plan.stop
AgreedBreakoutCloses ==
  [][\A q \in Quotes :
       /\ VisitQuoted(q) /\ PastBarrier(q)
       /\ seen # None /\ PastBarrier(seen) /\ Near(q, seen, ConfirmPct)
       => ~row'.open \/ retry']_vars

(* The stop of a position only ever rises (next_trailing_stop: "NEVER       *)
(* loosening it").                                                          *)
StopNeverLoosens == [][row'.stop >= row.stop]_vars

(* The profit lock moves the stop again only after the price has gained a   *)
(* further full step over the price it last fired at, up to the paisa the   *)
(* truncation loses (_next_profit_lock_rung).                               *)
LockNeedsAFullStep ==
  [][lockedAt # None /\ lockedAt' # lockedAt =>
       (lockedAt' + 1) * plan.entry > lockedAt * plan.lockAt]_vars

(* What trail and lock may do to the stop (evaluate_position): raise it,    *)
(* and raise it again only for a further gain.                              *)
StopIsARatchet == StopNeverLoosens /\ LockNeedsAFullStep

(* A position that was ever priced does not outlive its last cycle: the     *)
(* clock closes it at the first visit past hard_exit_by or max_hold, with a *)
(* quote, a bad one or none (time_exit).                                    *)
TimeExitFires ==
  [][/\ VisitStale \/ \E q \in Quotes : VisitQuoted(q)
     /\ TimeDue /\ row'.last # None
     => ~row'.open \/ retry']_vars

(* No filter and no missing quote keeps a position past an exit that is     *)
(* due: by the market, twice seen, or by the clock (run_exit_cycle).        *)
DueExitsFire == AgreedBreakoutCloses /\ TimeExitFires

(* "A stop, target or trail ratchet off a stale price would be acting on    *)
(* information we do not have" (run_exit_cycle): unless an exit had fired   *)
(* before and its SELL failed, a price exit sells at the price just read,   *)
(* although a quote in quarantine is judged by an older mark.               *)
PriceExitIsFresh == exit.reason \in PriceExits /\ ~retry => exit.price = exit.quote

=============================================================================
