--------------------------- MODULE OrderLifecycle ---------------------------
(***************************************************************************)
(* The execution core: ExecutionManager.submit / drain_fills / on_fill /   *)
(* check_inflight over the append-only order event log, the in-flight      *)
(* resolver, and the reconciler (engine/te/execution, domain/orders.py).   *)
(*                                                                         *)
(* The log of one order is kept as its fold: the status, the filled        *)
(* quantity, the venue order it is attached to and the set of trade ids it *)
(* already holds.  Every append of the code is one step here, so another   *)
(* process can run, or the process can die, between any two of them.       *)
(*                                                                         *)
(* One manager thread submits orders one after the other (the paper cycle  *)
(* is scheduled with max_instances = 1).  check_inflight is not a job yet, *)
(* but called by hand: Concurrent says whether that may happen while a     *)
(* submit is running.  The venue is the environment: it takes or loses     *)
(* orders, fills them in any number of trades, cancels or rejects them.    *)
(***************************************************************************)
EXTENDS Integers, FiniteSets, FiniteSetsExt

CONSTANTS
  Orders,       \* one element per OrderRequest; also names its client_order_id
                \* and, if the venue takes it, its venue_order_id
  Qty,          \* [Orders -> Nat \ {0}]: requested quantity
  Buys,         \* the BUY orders; the others are SELLs
  ReduceOnly,   \* the orders declared reduce_only
  Alike,        \* <<o, v>> such that the venue's report of v has the symbol,
                \* side and quantity of o and lies in o's time window
  TagLookup,    \* TRUE: the venue echoes the client id and query_order works
                \* FALSE: query_order raises NotImplementedError
  Concurrent    \* TRUE: check_inflight and reconcile may overlap a submit

ASSUME OrdersAssumption == IsFiniteSet(Orders)
ASSUME QtyAssumption == Qty \in [Orders -> Nat \ {0}]
ASSUME AlikeAssumption ==
  /\ Alike \subseteq Orders \X Orders
  /\ \A p \in Alike : Qty[p[1]] = Qty[p[2]]
ASSUME ModeAssumption == TagLookup \in BOOLEAN /\ Concurrent \in BOOLEAN

VARIABLES
  status,    \* [Orders -> Status]: fold(events).status
  filled,    \* [Orders -> Nat]: fold(events).filled_qty
  applied,   \* [Orders -> SUBSET TradeIds]: venue_trade_ids in the log
  attached,  \* [Orders -> SUBSET Orders]: fold(events).venue_order_id
  halt,      \* "no", or what set the halted flag last
  pc,        \* [Orders -> Step]: how far submit(o) has come
  backlog,   \* fills read by the running drain_fills and not yet handled
  pending,   \* at most one: what the running on_fill decided from the log
  check,     \* at most one running check_inflight
  venue,     \* [Orders -> VenueStatus]: the venue's own order book
  vfilled,   \* [Orders -> Nat]: quantity the venue has filled
  tape       \* the venue's trades

localVars == <<status, filled, applied, attached>>
callVars  == <<pc, backlog, pending, check>>
venueVars == <<venue, vfilled, tape>>
vars == <<localVars, halt, callVars, venueVars>>

Status == {"NONE", "INITIALIZED", "SUBMITTED", "ACCEPTED",
           "PARTIALLY_FILLED", "FILLED", "CANCELED", "REJECTED"}
VenueStatus == {"none", "open", "complete", "cancelled", "rejected"}
HaltReason == {"no", "risk", "overfill", "reconcile"}
Running == {"checked", "persisted", "acked", "submitted", "accepted", "draining"}
Step == Running \cup {"start", "refused", "done", "dead"}

(* Trade n of a venue order is named <<v, n>>; check_inflight writes the    *)
(* synthetic id "<venue_order_id>-resolved", here <<v, 0>>.                 *)
TradeIds == Orders \X Nat
Trades == [order : Orders, n : Nat, qty : Nat \ {0}]
Reports == [client : Orders, trade : Trades]
Verdicts == {"overfill", "full", "partial"}
Decisions == [report : Reports, verdict : Verdicts]
CheckSteps == {"query", "append", "fill"}
Checks == [step : CheckSteps, order : Orders, venue : Orders,
           vstatus : VenueStatus, qty : Nat]

TradeId(t) == <<t.order, t.n>>
Resolved(v) == <<v, 0>>

Idle == \A o \in Orders : pc[o] \notin Running
ManagerMayRun == Concurrent \/ check = {}
OpsMayRun == Concurrent \/ Idle

Move(o, from, to) ==
  /\ pc[o] = from
  /\ ManagerMayRun
  /\ pc' = [pc EXCEPT ![o] = to]

TypeOK ==
  /\ status \in [Orders -> Status]
  /\ filled \in [Orders -> Nat]
  /\ applied \in [Orders -> SUBSET TradeIds]
  /\ attached \in [Orders -> SUBSET Orders]
  /\ halt \in HaltReason
  /\ pc \in [Orders -> Step]
  /\ backlog \subseteq Reports
  /\ pending \subseteq Decisions
  /\ check \subseteq Checks
  /\ venue \in [Orders -> VenueStatus]
  /\ vfilled \in [Orders -> Nat]
  /\ tape \subseteq Trades /\ IsFiniteSet(tape)

Init ==
  /\ status = [o \in Orders |-> "NONE"]
  /\ filled = [o \in Orders |-> 0]
  /\ applied = [o \in Orders |-> {}]
  /\ attached = [o \in Orders |-> {}]
  /\ halt = "no"
  /\ pc = [o \in Orders |-> "start"]
  /\ backlog = {}
  /\ pending = {}
  /\ check = {}
  /\ venue = [o \in Orders |-> "none"]
  /\ vfilled = [o \in Orders |-> 0]
  /\ tape = {}

-----------------------------------------------------------------------------
(* submit(): halt check, persist, call the venue, record the ack, drain.    *)

CheckHalt(o) ==
  /\ Idle
  /\ Move(o, "start", IF o \notin ReduceOnly /\ halt # "no"
                      THEN "refused" ELSE "checked")
  /\ UNCHANGED <<localVars, halt, backlog, pending, check, venueVars>>

(* Defect: the row is flushed, not committed, before the network call.      *)
PersistUncommitted(o) ==
  /\ Move(o, "checked", "persisted")
  /\ UNCHANGED <<localVars, halt, backlog, pending, check, venueVars>>

Persist(o) ==
  /\ Move(o, "checked", "persisted")
  /\ status' = [status EXCEPT ![o] = "INITIALIZED"]
  /\ UNCHANGED <<filled, applied, attached, halt, backlog, pending, check,
                 venueVars>>

(* place_order returns, raises after the venue took the order (a dropped   *)
(* ack), or raises before it did.  An exception ends submit(): no retry.    *)
PlaceOrder(o, taken, ack) ==
  /\ Move(o, "persisted", IF ack THEN "acked" ELSE "done")
  /\ ack => taken
  /\ venue' = [venue EXCEPT ![o] = IF taken THEN "open" ELSE @]
  /\ UNCHANGED <<localVars, halt, backlog, pending, check, vfilled, tape>>

RecordSubmitted(o) ==
  /\ Move(o, "acked", "submitted")
  /\ status' = [status EXCEPT ![o] = "SUBMITTED"]
  /\ UNCHANGED <<filled, applied, attached, halt, backlog, pending, check,
                 venueVars>>

RecordAccepted(o) ==
  /\ Move(o, "submitted", "accepted")
  /\ status' = [status EXCEPT ![o] = "ACCEPTED"]
  /\ attached' = [attached EXCEPT ![o] = {o}]
  /\ UNCHANGED <<filled, applied, halt, backlog, pending, check, venueVars>>

(* The client ids under which the venue reports order v: the echoed tag, or *)
(* the local orders it has been attached to.                                *)
ClientIds(v) == IF TagLookup THEN {v} ELSE {o \in Orders : v \in attached[o]}

FillReports == {r \in [client : Orders, trade : tape] :
                  r.client \in ClientIds(r.trade.order)}

(* drain_fills reads every fill the broker holds, old ones included.        *)
ReadFills(o) ==
  /\ Move(o, "accepted", "draining")
  /\ backlog' = FillReports
  /\ UNCHANGED <<localVars, halt, pending, check, venueVars>>

ReadFillsFails(o) ==
  /\ Move(o, "accepted", "done")
  /\ UNCHANGED <<localVars, halt, backlog, pending, check, venueVars>>

(* on_fill, first half: read the log, drop an unknown order or a trade id   *)
(* already applied, otherwise decide between the overfill halt and a fill.  *)
IgnoredIfUnknown(r) == status[r.client] = "NONE"  \* Defect: no dedup

Ignored(r) ==
  \/ status[r.client] = "NONE"
  \/ TradeId(r.trade) \in applied[r.client]

VerdictUnguarded(r) ==  \* Defect: no overfill guard
  IF filled[r.client] + r.trade.qty >= Qty[r.client] THEN "full" ELSE "partial"

Verdict(r) ==
  LET total == filled[r.client] + r.trade.qty
  IN  IF total > Qty[r.client] THEN "overfill"
      ELSE IF total = Qty[r.client] THEN "full" ELSE "partial"

BeginFill(o) ==
  /\ Move(o, "draining", "draining")
  /\ pending = {}
  /\ \E r \in backlog :
       IF Ignored(r)
       THEN backlog' = backlog \ {r} /\ UNCHANGED pending
       ELSE /\ pending' = {[report |-> r, verdict |-> Verdict(r)]}
            /\ UNCHANGED backlog
  /\ UNCHANGED <<localVars, halt, check, venueVars>>

(* on_fill, second half: set the halt, or append the fill event.            *)
ApplyFill(d) ==
  LET c == d.report.client
      t == d.report.trade
  IN  /\ d.verdict # "overfill"
      /\ status' = [status EXCEPT ![c] = IF d.verdict = "full" THEN "FILLED"
                                         ELSE "PARTIALLY_FILLED"]
      /\ filled' = [filled EXCEPT ![c] = @ + t.qty]
      /\ applied' = [applied EXCEPT ![c] = @ \cup {TradeId(t)}]
      /\ UNCHANGED <<attached, halt>>

RejectOverfill(d) ==
  /\ d.verdict = "overfill"
  /\ halt' = "overfill"
  /\ UNCHANGED localVars

EndFill(o) ==
  /\ Move(o, "draining", "draining")
  /\ \E d \in pending :
       /\ ApplyFill(d) \/ RejectOverfill(d)
       /\ backlog' = backlog \ {d.report}
  /\ pending' = {}
  /\ UNCHANGED <<check, venueVars>>

(* drain_fills swallows whatever on_fill raises and goes on to the next one. *)
FillFails(o) ==
  /\ Move(o, "draining", "draining")
  /\ \E d \in pending : backlog' = backlog \ {d.report}
  /\ pending' = {}
  /\ UNCHANGED <<localVars, halt, check, venueVars>>

DrainDone(o) ==
  /\ Move(o, "draining", "done")
  /\ backlog = {} /\ pending = {}
  /\ UNCHANGED <<localVars, halt, backlog, pending, check, venueVars>>

(* The process dies; the log, the halt flag and the venue survive.          *)
Crash ==
  /\ ~Idle
  /\ pc' = [o \in Orders |-> IF pc[o] \in Running THEN "dead" ELSE pc[o]]
  /\ backlog' = {}
  /\ pending' = {}
  /\ UNCHANGED <<localVars, halt, check, venueVars>>

-----------------------------------------------------------------------------
(* check_inflight(): resolve an order still at INITIALIZED.                 *)

(* Defect: every order not filled yet is looked at, not only INITIALIZED.   *)
CheckBeginUnfilled(o) ==
  /\ OpsMayRun
  /\ check = {}
  /\ status[o] \notin {"NONE", "FILLED"}
  /\ check' = {[step |-> "query", order |-> o, venue |-> o,
                vstatus |-> "none", qty |-> 0]}
  /\ UNCHANGED <<localVars, halt, pc, backlog, pending, venueVars>>

CheckBegin(o) ==
  /\ OpsMayRun
  /\ check = {}
  /\ status[o] = "INITIALIZED"
  /\ check' = {[step |-> "query", order |-> o, venue |-> o,
                vstatus |-> "none", qty |-> 0]}
  /\ UNCHANGED <<localVars, halt, pc, backlog, pending, venueVars>>

(* query_order by client id, else match_pending_order over order_reports:   *)
(* exactly one candidate, or none at all.                                   *)
Matches(o) == IF TagLookup THEN {v \in {o} : venue[v] # "none"}
              ELSE {v \in Orders : venue[v] # "none" /\ <<o, v>> \in Alike}

ResolveByGuess(o) ==  \* Defect: the first candidate, however many there are
  IF Matches(o) = {} THEN {} ELSE {CHOOSE v \in Matches(o) : TRUE}

ResolveInflight(o) == IF Cardinality(Matches(o)) = 1 THEN Matches(o) ELSE {}

CheckQuery ==
  /\ \E k \in check :
       /\ k.step = "query"
       /\ check' = {[step |-> "append", order |-> k.order, venue |-> v,
                     vstatus |-> venue[v], qty |-> vfilled[v]] :
                       v \in ResolveInflight(k.order)}
  /\ UNCHANGED <<localVars, halt, pc, backlog, pending, venueVars>>

CheckOutcome(vstatus) ==
  CASE vstatus = "rejected"  -> "REJECTED"
    [] vstatus = "cancelled" -> "CANCELED"
    [] OTHER                 -> "ACCEPTED"

CheckAppend ==
  /\ \E k \in check :
       /\ k.step = "append"
       /\ status' = [status EXCEPT ![k.order] = CheckOutcome(k.vstatus)]
       /\ attached' = [attached EXCEPT ![k.order] =
                         IF CheckOutcome(k.vstatus) = "ACCEPTED"
                         THEN {k.venue} ELSE @]
       /\ check' = IF k.vstatus = "complete"
                   THEN {[k EXCEPT !.step = "fill"]} ELSE {}
  /\ UNCHANGED <<filled, applied, halt, pc, backlog, pending, venueVars>>

(* The resolved fill is booked under a synthetic trade id, unguarded.       *)
CheckFill ==
  /\ \E k \in check :
       /\ k.step = "fill"
       /\ status' = [status EXCEPT ![k.order] = "FILLED"]
       /\ filled' = [filled EXCEPT ![k.order] = @ + k.qty]
       /\ applied' = [applied EXCEPT ![k.order] = @ \cup {Resolved(k.venue)}]
  /\ check' = {}
  /\ UNCHANGED <<attached, halt, pc, backlog, pending, venueVars>>

CheckDies ==
  /\ check # {}
  /\ check' = {}
  /\ UNCHANGED <<localVars, halt, pc, backlog, pending, venueVars>>

-----------------------------------------------------------------------------
(* Reconciler.reconcile: orders unknown here, and the net position of the   *)
(* traded contract; either mismatch halts.  It never heals.                 *)

Net(q) == MapThenSumSet(LAMBDA o : q[o], Buys)
            - MapThenSumSet(LAMBDA o : q[o], Orders \ Buys)

Known == {o \in Orders : status[o] # "NONE"}

External == {v \in Orders : venue[v] # "none" /\ ClientIds(v) \cap Known = {}}

Reconcile ==
  /\ OpsMayRun
  /\ External # {} \/ Net(filled) # Net(vfilled)
  /\ halt' = "reconcile"
  /\ UNCHANGED <<localVars, callVars, venueVars>>

(* Every other writer of the flag: risk limits halting, an operator         *)
(* clearing.  See HaltLadder for what they do.                              *)
OtherHalt ==
  /\ halt = "no"
  /\ halt' = "risk"
  /\ UNCHANGED <<localVars, callVars, venueVars>>

ClearHalt ==
  /\ halt # "no"
  /\ halt' = "no"
  /\ UNCHANGED <<localVars, callVars, venueVars>>

-----------------------------------------------------------------------------
(* The venue.                                                               *)

VenueFill(v) ==
  /\ venue[v] = "open"
  /\ \E q \in 1 .. (Qty[v] - vfilled[v]) :
       /\ vfilled' = [vfilled EXCEPT ![v] = @ + q]
       /\ venue' = [venue EXCEPT ![v] =
                      IF vfilled[v] + q = Qty[v] THEN "complete" ELSE @]
       /\ tape' = tape \cup
            {[order |-> v, qty |-> q,
              n |-> Cardinality({t \in tape : t.order = v}) + 1]}
  /\ UNCHANGED <<localVars, halt, callVars>>

VenueEnds(v) ==
  /\ venue[v] = "open"
  /\ \E s \in {"cancelled", "rejected"} :
       /\ s = "rejected" => vfilled[v] = 0
       /\ venue' = [venue EXCEPT ![v] = s]
  /\ UNCHANGED <<localVars, halt, callVars, vfilled, tape>>

-----------------------------------------------------------------------------
Submit(o) ==
  \/ CheckHalt(o)
  \/ Persist(o)
  \/ \E taken, ack \in BOOLEAN : PlaceOrder(o, taken, ack)
  \/ RecordSubmitted(o)
  \/ RecordAccepted(o)
  \/ ReadFills(o)
  \/ ReadFillsFails(o)
  \/ BeginFill(o)
  \/ EndFill(o)
  \/ FillFails(o)
  \/ DrainDone(o)

CheckInflight ==
  \/ \E o \in Orders : CheckBegin(o)
  \/ CheckQuery
  \/ CheckAppend
  \/ CheckFill
  \/ CheckDies

Next ==
  \/ \E o \in Orders : Submit(o)
  \/ Crash
  \/ CheckInflight
  \/ Reconcile
  \/ OtherHalt
  \/ ClearHalt
  \/ \E v \in Orders : VenueFill(v) \/ VenueEnds(v)

Spec == Init /\ [][Next]_vars

-----------------------------------------------------------------------------
(* An order is in the log before the venue can know it, whatever dies when: *)
(* the ordering persist_initial_event exists for (idempotency.py).          *)
PersistedBeforeNetwork ==
  \A o \in Orders : venue[o] # "none" => status[o] # "NONE"

(* The folded quantity never exceeds what was asked for: on_fill's overfill *)
(* guard together with check_inflight, which books its fill without one.    *)
NoOverfill == \A o \in Orders : filled[o] <= Qty[o]

(* What the log claims, the venue did: a fill is never booked twice under   *)
(* two trade ids, nor booked on an order the venue never filled.            *)
LocalFillsAreReal == \A o \in Orders : filled[o] <= vfilled[o]

(* An order is attached to another order's venue order only if its own      *)
(* never reached the venue: while both are there the shape is ambiguous and *)
(* match_pending_order refuses to guess (inflight.py).  A lost order can    *)
(* still take a sister's venue order for its own, and its fill with it.     *)
OnlyLostOrdersAreMistaken ==
  \A o \in Orders : attached[o] \subseteq {o} \/ venue[o] = "none"

(* What an order promises its readers: see OrderLedger.                     *)
Phase(s) ==
  CASE s = "NONE"                                         -> "unknown"
    [] s = "INITIALIZED"                                  -> "intended"
    [] s \in {"SUBMITTED", "ACCEPTED", "PARTIALLY_FILLED"} -> "working"
    [] s = "FILLED"                                       -> "filled"
    [] OTHER                                              -> "ended"

Ledger == INSTANCE OrderLedger WITH
            phase <- [o \in Orders |-> Phase(status[o])]

(* The event log implements the ledger, step by step.                       *)
ImplementsLedger == Ledger!Spec

-----------------------------------------------------------------------------
(* The inductive invariant behind NoOverfill and ImplementsLedger when      *)
(* check_inflight never overlaps a submit.                                  *)

(* The fold: the status says how much of the order is filled.               *)
FoldInv == \A o \in Orders :
  /\ filled[o] <= Qty[o]
  /\ status[o] = "FILLED" <=> filled[o] = Qty[o]
  /\ status[o] \notin {"FILLED", "PARTIALLY_FILLED"} => filled[o] = 0

(* submit() is alone, and the log of its order is where submit() left it.   *)
CallInv ==
  /\ \A o, p \in Orders : pc[o] \in Running /\ pc[p] \in Running => o = p
  /\ \A o \in Orders :
       /\ pc[o] \in {"start", "refused", "checked"} => status[o] = "NONE"
       /\ pc[o] \in {"persisted", "acked"} => status[o] = "INITIALIZED"
       /\ pc[o] = "submitted" => status[o] = "SUBMITTED"

(* Until its call has reached the venue an order is attached to nothing, so *)
(* what it is mistaken for is found only after that call has ended; and an  *)
(* order that may still reach the venue is being submitted.                 *)
ShapeInv ==
  /\ OnlyLostOrdersAreMistaken
  /\ \A o \in Orders :
       pc[o] \in {"start", "checked", "persisted"} => attached[o] = {}
  /\ \A k \in check : k.step # "query" =>
       /\ k.venue = k.order \/ venue[k.order] = "none"
       /\ pc[k.order] \notin {"start", "checked", "persisted"}

(* What on_fill read is still so when it appends.                           *)
PendingInv == \A d \in pending :
  /\ \E o \in Orders : pc[o] = "draining"
  /\ status[d.report.client] # "NONE"
  /\ d.verdict = Verdict(d.report)

(* So is what check_inflight read, and a complete report is a full fill.    *)
CheckInv == \A k \in check :
  /\ Idle
  /\ status[k.order] = IF k.step = "fill" THEN "ACCEPTED" ELSE "INITIALIZED"
  /\ k.step = "fill" => k.vstatus = "complete"
  /\ k.vstatus = "complete" => k.qty = Qty[k.order]

VenueInv == \A v \in Orders :
  /\ vfilled[v] <= Qty[v]
  /\ venue[v] = "complete" => vfilled[v] = Qty[v]

IInv == TypeOK /\ FoldInv /\ CallInv /\ PendingInv /\ CheckInv /\ VenueInv
=============================================================================
