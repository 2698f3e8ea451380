------------------------ MODULE OrderLifecycleProofs ------------------------
(***************************************************************************)
(* Theorems of OrderLifecycle for every set of orders, every quantity and  *)
(* every match relation.                                                   *)
(***************************************************************************)
EXTENDS OrderLifecycle, FiniteSetTheorems, TLAPS

(* The trade number a venue gives its next fill is a natural number.        *)
LEMMA TradeCount ==
  ASSUME IsFiniteSet(tape), NEW v \in Orders
  PROVE  Cardinality({t \in tape : t.order = v}) + 1 \in Nat
<1>1. IsFiniteSet({t \in tape : t.order = v})
  BY FS_Subset
<1>2. QED
  BY <1>1, FS_CardinalityType

(* A resolved order is one the venue holds, of the same quantity.           *)
LEMMA ResolvedOrder ==
  ASSUME NEW o \in Orders, NEW v \in ResolveInflight(o)
  PROVE  v \in Orders /\ venue[v] # "none" /\ Qty[v] = Qty[o]
BY AlikeAssumption DEF ResolveInflight, Matches

LEMMA TypeInit == Init => TypeOK
<1>1. IsFiniteSet({})
  BY FS_EmptySet
<1>2. QED
  BY <1>1 DEF Init, TypeOK, Status, HaltReason, Step, VenueStatus

LEMMA TypeStep == TypeOK /\ [Next]_vars => TypeOK'
<1> SUFFICES ASSUME TypeOK, [Next]_vars PROVE TypeOK'
  OBVIOUS
<1> USE DEF TypeOK, localVars, venueVars, callVars
<1> USE DEF Move, Status, HaltReason, Step, Running, VenueStatus
<1>1. CASE \E o \in Orders : Submit(o)
  <2> SUFFICES ASSUME NEW o \in Orders, Submit(o) PROVE TypeOK'
    BY <1>1
  <2>1. CASE CheckHalt(o)
    BY <2>1 DEF CheckHalt
  <2>2. CASE Persist(o)
    BY <2>2 DEF Persist
  <2>3. CASE \E taken, ack \in BOOLEAN : PlaceOrder(o, taken, ack)
    BY <2>3 DEF PlaceOrder
  <2>4. CASE RecordSubmitted(o)
    BY <2>4 DEF RecordSubmitted
  <2>5. CASE RecordAccepted(o)
    BY <2>5 DEF RecordAccepted
  <2>6. CASE ReadFills(o) \/ ReadFillsFails(o)
    BY <2>6 DEF ReadFills, ReadFillsFails, FillReports, Reports
  <2>7. CASE BeginFill(o)
    <3>2. PICK r \in backlog :
            IF Ignored(r)
            THEN backlog' = backlog \ {r} /\ UNCHANGED pending
            ELSE /\ pending' = {[report |-> r, verdict |-> Verdict(r)]}
                 /\ UNCHANGED backlog
      BY <2>7 DEF BeginFill
    <3>3. CASE Ignored(r)
      BY <2>7, <3>2, <3>3 DEF BeginFill
    <3>4. CASE ~Ignored(r)
      <4>1. r \in Reports
        OBVIOUS
      <4>2. pending' \subseteq Decisions
        BY <3>2, <3>4, <4>1 DEF Decisions, Verdict, Verdicts
      <4>3. QED
        BY <2>7, <3>2, <3>4, <4>2 DEF BeginFill
    <3>5. QED
      BY <3>3, <3>4
  <2>8. CASE EndFill(o)
    <3>1. PICK d \in pending :
            /\ ApplyFill(d) \/ RejectOverfill(d)
            /\ backlog' = backlog \ {d.report}
      BY <2>8 DEF EndFill
    <3>2. /\ d.report.client \in Orders
          /\ d.report.trade.qty \in Nat
          /\ TradeId(d.report.trade) \in TradeIds
      BY DEF Decisions, Reports, Trades, TradeId, TradeIds
    <3>3. QED
      BY <2>8, <3>1, <3>2 DEF EndFill, ApplyFill, RejectOverfill
  <2>9. CASE FillFails(o) \/ DrainDone(o)
    BY <2>9 DEF FillFails, DrainDone
  <2>10. QED
    BY <2>1, <2>2, <2>3, <2>4, <2>5, <2>6, <2>7, <2>8, <2>9 DEF Submit
<1>2. CASE Crash
  BY <1>2 DEF Crash
<1>3. CASE CheckInflight
  <2>1. CASE \E o \in Orders : CheckBegin(o)
    BY <2>1 DEF CheckBegin, Checks, CheckSteps
  <2>2. CASE CheckQuery
    <3>1. check' \subseteq Checks
      BY <2>2, ResolvedOrder DEF CheckQuery, Checks, CheckSteps
    <3>2. QED
      BY <2>2, <3>1 DEF CheckQuery
  <2>3. CASE CheckAppend
    BY <2>3 DEF CheckAppend, CheckOutcome, Checks, CheckSteps
  <2>4. CASE CheckFill
    BY <2>4 DEF CheckFill, Checks, Resolved, TradeIds
  <2>5. CASE CheckDies
    BY <2>5 DEF CheckDies
  <2>6. QED
    BY <1>3, <2>1, <2>2, <2>3, <2>4, <2>5 DEF CheckInflight
<1>4. CASE Reconcile \/ OtherHalt \/ ClearHalt
  BY <1>4 DEF Reconcile, OtherHalt, ClearHalt
<1>5. CASE \E v \in Orders : VenueFill(v) \/ VenueEnds(v)
  <2> SUFFICES ASSUME NEW v \in Orders, VenueFill(v) \/ VenueEnds(v)
               PROVE  TypeOK'
    BY <1>5
  <2>1. CASE VenueFill(v)
    <3>1. PICK q \in 1 .. (Qty[v] - vfilled[v]) :
            /\ vfilled' = [vfilled EXCEPT ![v] = @ + q]
            /\ venue' = [venue EXCEPT ![v] =
                          IF vfilled[v] + q = Qty[v] THEN "complete" ELSE @]
            /\ tape' = tape \cup
                 {[order |-> v, qty |-> q,
                   n |-> Cardinality({t \in tape : t.order = v}) + 1]}
      BY <2>1 DEF VenueFill
    <3>2. q \in Nat \ {0}
      BY QtyAssumption
    <3>3. tape' \subseteq Trades
      BY <3>1, <3>2, TradeCount DEF Trades
    <3>4. IsFiniteSet(tape')
      BY <3>1, FS_AddElement
    <3>5. QED
      BY <2>1, <3>1, <3>2, <3>3, <3>4 DEF VenueFill
  <2>2. CASE VenueEnds(v)
    BY <2>2 DEF VenueEnds
  <2>3. QED
    BY <2>1, <2>2
<1>6. CASE UNCHANGED vars
  BY <1>6 DEF vars
<1>7. QED
  BY <1>1, <1>2, <1>3, <1>4, <1>5, <1>6 DEF Next

(* The state stays within the types, in every mode: whatever overlaps, and  *)
(* whether the venue echoes the tag or not.                                 *)
THEOREM TypeCorrect == Spec => []TypeOK
BY TypeInit, TypeStep, PTL DEF Spec

-----------------------------------------------------------------------------
(* IInv, one action at a time, when check_inflight never overlaps a submit. *)

LEMMA InvInit == Init => IInv
BY TypeInit, QtyAssumption
DEF Init, IInv, FoldInv, CallInv, PendingInv, CheckInv, VenueInv, Running

LEMMA SubmitStep ==
  ASSUME Concurrent = FALSE, IInv, NEW o \in Orders, Submit(o), TypeOK'
  PROVE  IInv'
<1> USE DEF TypeOK, IInv, localVars, venueVars, Move, Running, ManagerMayRun
<1>1. CASE CheckHalt(o)
  BY <1>1 DEF CheckHalt, FoldInv, CallInv, PendingInv, CheckInv, VenueInv, Idle
<1>2. CASE Persist(o)
  BY <1>2, QtyAssumption
  DEF Persist, FoldInv, CallInv, PendingInv, CheckInv, VenueInv,
      Idle, Verdict
<1>3. CASE \E taken, ack \in BOOLEAN : PlaceOrder(o, taken, ack)
  BY <1>3, QtyAssumption
  DEF PlaceOrder, FoldInv, CallInv, PendingInv, CheckInv, VenueInv,
      Idle, Verdict
<1>4. CASE RecordSubmitted(o)
  BY <1>4, QtyAssumption
  DEF RecordSubmitted, FoldInv, CallInv, PendingInv, CheckInv, VenueInv,
      Idle, Verdict
<1>5. CASE RecordAccepted(o)
  BY <1>5, QtyAssumption
  DEF RecordAccepted, FoldInv, CallInv, PendingInv, CheckInv, VenueInv,
      Idle, Verdict
<1>6. CASE ReadFills(o) \/ ReadFillsFails(o)
  BY <1>6, QtyAssumption
  DEF ReadFills, ReadFillsFails, FoldInv, CallInv, PendingInv, CheckInv, VenueInv,
      Idle, Verdict
<1>7. CASE BeginFill(o)
  BY <1>7, QtyAssumption
  DEF BeginFill, Ignored, FoldInv, CallInv, PendingInv, CheckInv, VenueInv,
      Idle, Verdict
<1>8. CASE EndFill(o)
  <2>1. PICK d \in pending : ApplyFill(d) \/ RejectOverfill(d)
    BY <1>8 DEF EndFill
  <2> DEFINE c == d.report.client
             q == d.report.trade.qty
  <2>2. /\ c \in Orders
        /\ q \in Nat \ {0}
        /\ Qty[c] \in Nat \ {0}
    BY QtyAssumption DEF Decisions, Reports, Trades
  <2>3. check = {}
    BY <1>8 DEF EndFill
  <2>4. pc[o] = "draining" /\ pc' = pc /\ pending' = {} /\ check' = {}
    BY <1>8, <2>3 DEF EndFill
  <2>5. CASE ApplyFill(d)
    <3>1. d.verdict = Verdict(d.report) /\ status[c] # "NONE"
      BY DEF PendingInv
    <3>2. /\ filled[c] + q <= Qty[c]
          /\ d.verdict = "full" <=> filled[c] + q = Qty[c]
      BY <2>2, <2>5, <3>1 DEF ApplyFill, Verdict
    <3> HIDE DEF c, q
    <3>3. /\ status' = [status EXCEPT ![c] = IF d.verdict = "full" THEN "FILLED"
                                             ELSE "PARTIALLY_FILLED"]
          /\ filled' = [filled EXCEPT ![c] = @ + q]
      BY <2>5 DEF ApplyFill, c, q
    <3>4. FoldInv'
      BY <2>2, <3>2, <3>3, QtyAssumption DEF FoldInv
    <3>5. CallInv'
      BY <2>2, <2>4, <3>1, <3>3 DEF CallInv, c
    <3>6. QED
      BY <1>8, <2>4, <3>4, <3>5
      DEF EndFill, PendingInv, CheckInv, VenueInv
  <2>6. CASE RejectOverfill(d)
    BY <1>8, <2>4, <2>6
    DEF EndFill, RejectOverfill, FoldInv, CallInv, PendingInv, CheckInv,
        VenueInv
  <2>7. QED
    BY <2>1, <2>5, <2>6
<1>9. CASE FillFails(o) \/ DrainDone(o)
  BY <1>9, QtyAssumption
  DEF FillFails, DrainDone, FoldInv, CallInv, PendingInv, CheckInv, VenueInv,
      Idle, Verdict
<1>10. QED
  BY <1>1, <1>2, <1>3, <1>4, <1>5, <1>6, <1>7, <1>8, <1>9 DEF Submit

LEMMA CheckStep ==
  ASSUME Concurrent = FALSE, IInv, CheckInflight, TypeOK'
  PROVE  IInv'
<1> USE DEF TypeOK, IInv, localVars, venueVars, Running, OpsMayRun
<1> USE DEF FoldInv, CallInv, PendingInv, CheckInv, VenueInv, Idle, Verdict
<1>1. CASE \E o \in Orders : CheckBegin(o)
  BY <1>1, QtyAssumption DEF CheckBegin
<1>2. CASE CheckQuery
  <2>1. PICK k \in check :
          /\ k.step = "query"
          /\ check' = {[step |-> "append", order |-> k.order, venue |-> v,
                        vstatus |-> venue[v], qty |-> vfilled[v]] :
                          v \in ResolveInflight(k.order)}
    BY <1>2 DEF CheckQuery
  <2>2. k.order \in Orders /\ Idle /\ status[k.order] = "INITIALIZED"
    BY <2>1 DEF Checks
  <2>3. \A v \in ResolveInflight(k.order) :
          venue[v] = "complete" => vfilled[v] = Qty[k.order]
    BY <2>2, ResolvedOrder
  <2>4. CheckInv'
    BY <1>2, <2>1, <2>2, <2>3 DEF CheckQuery
  <2>5. QED
    BY <1>2, <2>4 DEF CheckQuery
<1>3. CASE CheckAppend
  <2>1. PICK k \in check :
          /\ k.step = "append"
          /\ status' = [status EXCEPT ![k.order] = CheckOutcome(k.vstatus)]
          /\ check' = IF k.vstatus = "complete"
                      THEN {[k EXCEPT !.step = "fill"]} ELSE {}
    BY <1>3 DEF CheckAppend
  <2>2. /\ k \in Checks /\ k.order \in Orders
        /\ status[k.order] = "INITIALIZED"
        /\ Idle /\ pending = {}
        /\ k.vstatus = "complete" => k.qty = Qty[k.order]
    BY <2>1 DEF Checks
  <2>3. CheckOutcome(k.vstatus) \in {"ACCEPTED", "CANCELED", "REJECTED"}
    BY DEF CheckOutcome
  <2>4. FoldInv'
    BY <1>3, <2>1, <2>2, <2>3, QtyAssumption DEF CheckAppend
  <2>5. CallInv' /\ PendingInv'
    BY <1>3, <2>1, <2>2 DEF CheckAppend
  <2>6. k.vstatus = "complete" => CheckOutcome(k.vstatus) = "ACCEPTED"
    BY DEF CheckOutcome
  <2>7. CheckInv'
    BY <1>3, <2>1, <2>2, <2>6 DEF CheckAppend, Checks
  <2>8. QED
    BY <1>3, <2>4, <2>5, <2>7 DEF CheckAppend
<1>4. CASE CheckFill
  <2>1. PICK k \in check :
          /\ k.step = "fill"
          /\ status' = [status EXCEPT ![k.order] = "FILLED"]
          /\ filled' = [filled EXCEPT ![k.order] = @ + k.qty]
    BY <1>4 DEF CheckFill
  <2>2. /\ k.order \in Orders
        /\ status[k.order] = "ACCEPTED"
        /\ Idle /\ pending = {}
        /\ k.qty = Qty[k.order]
    BY <2>1 DEF Checks
  <2>3. filled[k.order] + k.qty = Qty[k.order]
    <3>1. filled[k.order] = 0
      BY <2>2
    <3>2. Qty[k.order] \in Nat
      BY <2>2, QtyAssumption
    <3>3. QED
      BY <2>2, <3>1, <3>2
  <2>4. filled' = [filled EXCEPT ![k.order] = Qty[k.order]]
    BY <2>1, <2>3
  <2>5. FoldInv'
    BY <2>1, <2>2, <2>4, QtyAssumption
  <2>6. CallInv' /\ PendingInv'
    BY <1>4, <2>1, <2>2 DEF CheckFill
  <2>7. QED
    BY <1>4, <2>5, <2>6 DEF CheckFill
<1>5. CASE CheckDies
  BY <1>5 DEF CheckDies
<1>6. QED
  BY <1>1, <1>2, <1>3, <1>4, <1>5 DEF CheckInflight

LEMMA InvStep ==
  ASSUME Concurrent = FALSE, IInv, [Next]_vars
  PROVE  IInv'
<1>1. TypeOK'
  BY TypeStep DEF IInv
<1>2. CASE \E o \in Orders : Submit(o)
  BY <1>1, <1>2, SubmitStep
<1>3. CASE CheckInflight
  BY <1>1, <1>3, CheckStep
<1> USE DEF IInv, FoldInv, CallInv, PendingInv, CheckInv, VenueInv, Idle
<1> USE DEF Verdict, localVars, callVars, venueVars, Running
<1>4. CASE Crash
  BY <1>1, <1>4 DEF Crash, TypeOK
<1>5. CASE Reconcile \/ OtherHalt \/ ClearHalt
  BY <1>1, <1>5 DEF Reconcile, OtherHalt, ClearHalt
<1>6. CASE \E v \in Orders : VenueFill(v) \/ VenueEnds(v)
  <2> SUFFICES ASSUME NEW v \in Orders, VenueFill(v) \/ VenueEnds(v)
               PROVE  IInv'
    BY <1>6
  <2>1. VenueInv'
    BY QtyAssumption DEF VenueFill, VenueEnds, TypeOK
  <2>2. QED
    BY <1>1, <2>1 DEF VenueFill, VenueEnds
<1>7. CASE UNCHANGED vars
  BY <1>1, <1>7 DEF vars
<1>8. QED
  BY <1>2, <1>3, <1>4, <1>5, <1>6, <1>7 DEF Next

(* When check_inflight is only ever run between submits, no order's log     *)
(* ever folds to more than was asked for, crashes, dropped acks and         *)
(* redelivered fills included, and although check_inflight itself appends   *)
(* its fill without the guard on_fill has.                                  *)
THEOREM SerialNoOverfill ==
  ASSUME Concurrent = FALSE
  PROVE  Spec => []NoOverfill
<1>1. IInv => NoOverfill
  BY DEF IInv, FoldInv, NoOverfill
<1>2. IInv /\ [Next]_vars => IInv'
  BY InvStep
<1>3. QED
  BY InvInit, <1>1, <1>2, PTL DEF Spec
-----------------------------------------------------------------------------
(* submit() writes the log before it calls the venue.                       *)

LogInv ==
  /\ PersistedBeforeNetwork
  /\ \A o \in Orders :
       pc[o] \in Running \ {"checked"} => status[o] # "NONE"

(* No append takes an order out of the log again.                           *)
LEMMA LogGrows ==
  ASSUME TypeOK, [Next]_vars, NEW x \in Orders, status[x] # "NONE"
  PROVE  status'[x] # "NONE"
<1> USE DEF TypeOK, localVars, venueVars, callVars
<1>1. CASE \E o \in Orders : Submit(o)
  <2> SUFFICES ASSUME NEW o \in Orders, Submit(o) PROVE status'[x] # "NONE"
    BY <1>1
  <2>1. CASE EndFill(o)
    BY <2>1 DEF EndFill, ApplyFill, RejectOverfill
  <2>2. CASE Persist(o) \/ RecordSubmitted(o) \/ RecordAccepted(o)
    BY <2>2 DEF Persist, RecordSubmitted, RecordAccepted
  <2>3. QED
    BY <2>1, <2>2 DEF Submit, CheckHalt, PlaceOrder, ReadFills,
      ReadFillsFails, BeginFill, FillFails, DrainDone
<1>2. CASE CheckInflight
  BY <1>2 DEF CheckInflight, CheckBegin, CheckQuery, CheckAppend,
    CheckOutcome, CheckFill, CheckDies
<1>3. CASE ~(\E o \in Orders : Submit(o)) /\ ~CheckInflight
  BY <1>3 DEF Next, vars, Crash, Reconcile, OtherHalt, ClearHalt, VenueFill,
    VenueEnds
<1>4. QED
  BY <1>1, <1>2, <1>3

LEMMA LogStep ==
  ASSUME TypeOK, LogInv, [Next]_vars
  PROVE  LogInv'
<1> SUFFICES ASSUME NEW x \in Orders
             PROVE  /\ venue'[x] # "none" => status'[x] # "NONE"
                    /\ pc'[x] \in Running \ {"checked"} => status'[x] # "NONE"
  BY DEF LogInv, PersistedBeforeNetwork
<1>1. CASE status[x] # "NONE"
  BY <1>1, LogGrows
<1>2. CASE status[x] = "NONE"
  <2>1. venue[x] = "none" /\ pc[x] \notin Running \ {"checked"}
    BY <1>2 DEF LogInv, PersistedBeforeNetwork
  <2> USE DEF TypeOK, localVars, venueVars, callVars, Move, Running
  <2>2. CASE \E o \in Orders : Submit(o)
    <3> SUFFICES ASSUME NEW o \in Orders, Submit(o)
                 PROVE  /\ venue'[x] # "none" => status'[x] # "NONE"
                        /\ pc'[x] \in Running \ {"checked"}
                              => status'[x] # "NONE"
      BY <2>2
    <3>1. CASE CheckHalt(o) \/ Persist(o)
      BY <2>1, <3>1 DEF CheckHalt, Persist
    <3>2. CASE \E taken, ack \in BOOLEAN : PlaceOrder(o, taken, ack)
      BY <2>1, <3>2 DEF PlaceOrder
    <3>3. CASE RecordSubmitted(o) \/ RecordAccepted(o) \/ ReadFills(o)
                 \/ ReadFillsFails(o) \/ BeginFill(o) \/ EndFill(o)
                 \/ FillFails(o) \/ DrainDone(o)
      BY <2>1, <3>3 DEF RecordSubmitted, RecordAccepted, ReadFills,
        ReadFillsFails, BeginFill, EndFill, FillFails, DrainDone
    <3>4. QED
      BY <3>1, <3>2, <3>3 DEF Submit
  <2>3. CASE ~(\E o \in Orders : Submit(o))
    BY <2>1, <2>3 DEF Next, vars, CheckInflight, CheckBegin, CheckQuery,
      CheckAppend, CheckFill, CheckDies, Crash, Reconcile, OtherHalt,
      ClearHalt, VenueFill, VenueEnds
  <2>4. QED
    BY <2>2, <2>3
<1>3. QED
  BY <1>1, <1>2

(* Whatever crashes, is lost or overlaps: a venue never holds an order the  *)
(* log does not know.                                                       *)
THEOREM IntentIsDurable == Spec => []PersistedBeforeNetwork
<1>1. Init => LogInv
  BY DEF Init, LogInv, PersistedBeforeNetwork, Running
<1>2. LogInv => PersistedBeforeNetwork
  BY DEF LogInv
<1>3. QED
  BY TypeInit, TypeStep, LogStep, <1>1, <1>2, PTL DEF Spec

-----------------------------------------------------------------------------
(* What the match by shape may get wrong, in serial mode.                   *)

(* One candidate of which the order itself is one: it is the order itself.  *)
LEMMA NoGuess ==
  ASSUME NEW o \in Orders, <<o, o>> \in Alike, NEW v \in ResolveInflight(o),
         venue[o] # "none"
  PROVE  v = o
<1>1. Cardinality(Matches(o)) = 1 /\ v \in Matches(o)
  BY DEF ResolveInflight
<1>2. o \in Matches(o)
  BY DEF Matches
<1>3. IsFiniteSet(Matches(o))
  <2>1. Matches(o) \in SUBSET Orders
    BY DEF Matches
  <2>2. QED
    BY <2>1, OrdersAssumption, FS_Subset
<1>4. PICK x : Matches(o) = {x}
  BY <1>1, <1>3, FS_Singleton
<1>5. QED
  BY <1>1, <1>2, <1>4

LEMMA ShapeStep ==
  ASSUME Concurrent = FALSE, \A o \in Orders : <<o, o>> \in Alike,
         IInv, ShapeInv, [Next]_vars
  PROVE  ShapeInv'
<1> USE DEF ShapeInv, OnlyLostOrdersAreMistaken
<1> USE DEF IInv, TypeOK, localVars, venueVars, callVars, Move, ManagerMayRun
<1>1. CASE \E o \in Orders : Submit(o)
  <2> SUFFICES ASSUME NEW o \in Orders, Submit(o) PROVE ShapeInv'
    BY <1>1
  <2>1. CASE RecordAccepted(o)
    BY <2>1 DEF RecordAccepted
  <2>2. CASE \E taken, ack \in BOOLEAN : PlaceOrder(o, taken, ack)
    BY <2>2 DEF PlaceOrder
  <2>3. CASE EndFill(o)
    BY <2>3 DEF EndFill, ApplyFill, RejectOverfill
  <2>4. CASE CheckHalt(o) \/ Persist(o) \/ RecordSubmitted(o)
    BY <2>4 DEF CheckHalt, Persist, RecordSubmitted
  <2>5. CASE ReadFills(o) \/ ReadFillsFails(o) \/ BeginFill(o)
               \/ FillFails(o) \/ DrainDone(o)
    BY <2>5 DEF ReadFills, ReadFillsFails, BeginFill, FillFails, DrainDone
  <2>6. QED
    BY <2>1, <2>2, <2>3, <2>4, <2>5 DEF Submit
<1>2. CASE CheckInflight
  <2>1. CASE \E o \in Orders : CheckBegin(o)
    BY <2>1 DEF CheckBegin
  <2>2. CASE CheckQuery
    <3>1. PICK k \in check :
            /\ k.step = "query"
            /\ check' = {[step |-> "append", order |-> k.order, venue |-> v,
                          vstatus |-> venue[v], qty |-> vfilled[v]] :
                            v \in ResolveInflight(k.order)}
      BY <2>2 DEF CheckQuery
    <3>2. k.order \in Orders
      BY <3>1 DEF Checks
    <3>3. pc[k.order] \notin {"start", "checked", "persisted"}
      BY <3>1, <3>2 DEF CheckInv, CallInv, Idle, Running
    <3>4. \A v \in ResolveInflight(k.order) :
            v = k.order \/ venue[k.order] = "none"
      BY <3>2, NoGuess
    <3>5. QED
      BY <2>2, <3>1, <3>3, <3>4 DEF CheckQuery
  <2>3. CASE CheckAppend
    BY <2>3 DEF CheckAppend, Checks
  <2>4. CASE CheckFill \/ CheckDies
    BY <2>4 DEF CheckFill, CheckDies
  <2>5. QED
    BY <1>2, <2>1, <2>2, <2>3, <2>4 DEF CheckInflight
<1>3. CASE Crash
  <2>1. check = {}
    BY <1>3 DEF Crash, CheckInv
  <2>2. QED
    BY <1>3, <2>1 DEF Crash, Running
<1>4. CASE \E v \in Orders : VenueFill(v) \/ VenueEnds(v)
  <2>1. UNCHANGED <<attached, pc, check>>
    BY <1>4 DEF VenueFill, VenueEnds
  <2>2. \A o \in Orders : venue[o] = "none" => venue'[o] = "none"
    BY <1>4 DEF VenueFill, VenueEnds
  <2>3. \A k \in check : k.order \in Orders
    BY DEF Checks
  <2>4. QED
    BY <2>1, <2>2, <2>3
<1>5. CASE Reconcile \/ OtherHalt \/ ClearHalt \/ UNCHANGED vars
  BY <1>5 DEF Reconcile, OtherHalt, ClearHalt, vars
<1>6. QED
  BY <1>1, <1>2, <1>3, <1>4, <1>5 DEF Next

(* When every order's own report lies in its time window, a check between   *)
(* submits attaches an order to a sister's venue order only if its own      *)
(* never reached the venue, whatever is lost, refused or dies, and however  *)
(* many orders look alike: with the tag echoed, and without.                *)
THEOREM MistakenWereLost ==
  ASSUME Concurrent = FALSE, \A o \in Orders : <<o, o>> \in Alike
  PROVE  Spec => []OnlyLostOrdersAreMistaken
<1>1. Init => ShapeInv
  BY DEF Init, ShapeInv, OnlyLostOrdersAreMistaken
<1>2. ShapeInv => OnlyLostOrdersAreMistaken
  BY DEF ShapeInv
<1>3. IInv /\ [Next]_vars => IInv'
  BY InvStep
<1>4. IInv /\ ShapeInv /\ [Next]_vars => ShapeInv'
  BY ShapeStep
<1>5. QED
  BY InvInit, <1>1, <1>2, <1>3, <1>4, PTL DEF Spec

-----------------------------------------------------------------------------
(* The event log implements OrderLedger.                                    *)

LEMMA LedgerStep ==
  ASSUME Concurrent = FALSE, IInv, [Next]_vars
  PROVE  [Ledger!Next]_(Ledger!ledgerVars)
<1> DEFINE phase == [o \in Orders |-> Phase(status[o])]
<1> USE DEF IInv, TypeOK, localVars, venueVars, callVars
<1>0. ASSUME UNCHANGED <<status, filled>>
      PROVE  UNCHANGED Ledger!ledgerVars
  BY <1>0 DEF Ledger!ledgerVars
<1>1. CASE \E o \in Orders : Submit(o)
  <2> SUFFICES ASSUME NEW o \in Orders, Submit(o)
               PROVE  [Ledger!Next]_(Ledger!ledgerVars)
    BY <1>1
  <2>1. CASE Persist(o)
    <3>1. status[o] = "NONE"
      BY <2>1 DEF Persist, Move, CallInv
    <3>2. Ledger!Intend(o)
      BY <2>1, <3>1 DEF Persist, Ledger!Intend, Phase
    <3>3. QED
      BY <3>2 DEF Ledger!Next
  <2>2. CASE RecordSubmitted(o)
    <3>1. status[o] = "INITIALIZED"
      BY <2>2 DEF RecordSubmitted, Move, CallInv
    <3>2. Ledger!Work(o)
      BY <2>2, <3>1 DEF RecordSubmitted, Ledger!Work, Phase
    <3>3. QED
      BY <3>2 DEF Ledger!Next
  <2>3. CASE RecordAccepted(o)
    <3>1. status[o] = "SUBMITTED"
      BY <2>3 DEF RecordAccepted, Move, CallInv
    <3>2. QED
      BY <2>3, <3>1 DEF RecordAccepted, Phase, Ledger!ledgerVars
  <2>4. CASE EndFill(o)
    <3>1. PICK d \in pending : ApplyFill(d) \/ RejectOverfill(d)
      BY <2>4 DEF EndFill
    <3>2. CASE ApplyFill(d)
      <4> DEFINE c == d.report.client
                 q == d.report.trade.qty
      <4>1. c \in Orders /\ q \in Nat \ {0} /\ Qty[c] \in Nat \ {0}
        BY QtyAssumption DEF Decisions, Reports, Trades
      <4>2. d.verdict = Verdict(d.report) /\ status[c] # "NONE"
        BY DEF PendingInv
      <4>3. /\ filled[c] + q <= Qty[c]
            /\ d.verdict = "full" <=> filled[c] + q = Qty[c]
        BY <3>2, <4>1, <4>2 DEF ApplyFill, Verdict
      <4> HIDE DEF c, q
      <4>4. /\ status' = [status EXCEPT ![c] =
                            IF d.verdict = "full" THEN "FILLED"
                            ELSE "PARTIALLY_FILLED"]
            /\ filled' = [filled EXCEPT ![c] = @ + q]
        BY <3>2 DEF ApplyFill, c, q
      <4>5. filled[c] \in Nat /\ filled[c] # Qty[c] /\ q \in 1 .. (Qty[c] - filled[c])
        BY <4>1, <4>3
      <4>6. phase[c] \in {"intended", "working", "ended"}
        BY <4>1, <4>2, <4>5 DEF FoldInv, Phase, Status, c
      <4>7. phase' = [phase EXCEPT ![c] = IF filled[c] + q = Qty[c]
                                          THEN "filled" ELSE "working"]
        BY <4>1, <4>3, <4>4 DEF Phase
      <4>8. Ledger!Fill(c)
        BY <4>4, <4>5, <4>6, <4>7 DEF Ledger!Fill
      <4>9. QED
        BY <4>1, <4>8 DEF Ledger!Next
    <3>3. CASE RejectOverfill(d)
      BY <1>0, <3>3 DEF RejectOverfill
    <3>4. QED
      BY <3>1, <3>2, <3>3
  <2>5. QED
    BY <1>0, <2>1, <2>2, <2>3, <2>4 DEF Submit, CheckHalt, PlaceOrder,
      ReadFills, ReadFillsFails, BeginFill, FillFails, DrainDone
<1>2. CASE CheckAppend
  <2>1. PICK k \in check :
          /\ k.step = "append"
          /\ status' = [status EXCEPT ![k.order] = CheckOutcome(k.vstatus)]
    BY <1>2 DEF CheckAppend
  <2>2. k.order \in Orders /\ status[k.order] = "INITIALIZED"
    BY <2>1 DEF CheckInv, Checks
  <2>3. Ledger!Work(k.order) \/ Ledger!End(k.order)
    BY <1>2, <2>1, <2>2
    DEF CheckAppend, CheckOutcome, Phase, Ledger!Work, Ledger!End
  <2>4. QED
    BY <2>2, <2>3 DEF Ledger!Next
<1>3. CASE CheckFill
  <2>1. PICK k \in check :
          /\ k.step = "fill"
          /\ status' = [status EXCEPT ![k.order] = "FILLED"]
          /\ filled' = [filled EXCEPT ![k.order] = @ + k.qty]
    BY <1>3 DEF CheckFill
  <2>2. /\ k.order \in Orders
        /\ status[k.order] = "ACCEPTED"
        /\ k.qty = Qty[k.order]
        /\ filled[k.order] = 0
        /\ Qty[k.order] \in Nat \ {0}
    BY <2>1, QtyAssumption DEF CheckInv, Checks, FoldInv
  <2>3. k.qty \in 1 .. (Qty[k.order] - filled[k.order])
    BY <2>2
  <2>4. filled[k.order] + k.qty = Qty[k.order]
    BY <2>2
  <2>5. Ledger!Fill(k.order)
    BY <2>1, <2>2, <2>3, <2>4 DEF Ledger!Fill, Phase
  <2>6. QED
    BY <2>2, <2>5 DEF Ledger!Next
<1>4. CASE ~(\E o \in Orders : Submit(o)) /\ ~CheckAppend /\ ~CheckFill
  BY <1>0, <1>4 DEF Next, vars, CheckInflight, CheckBegin, CheckQuery,
    CheckDies, Crash, Reconcile, OtherHalt, ClearHalt, VenueFill, VenueEnds
<1>5. QED
  BY <1>1, <1>2, <1>3, <1>4

(* When check_inflight is only ever run between submits, the event log      *)
(* keeps the promise of OrderLedger, for every number of orders and every   *)
(* quantity.                                                                *)
THEOREM LogImplementsLedger ==
  ASSUME Concurrent = FALSE
  PROVE  Spec => ImplementsLedger
<1>1. Init => Ledger!Init
  BY DEF Init, Ledger!Init, Phase
<1>2. IInv /\ [Next]_vars => IInv'
  BY InvStep
<1>3. IInv /\ [Next]_vars => [Ledger!Next]_(Ledger!ledgerVars)
  BY LedgerStep
<1>4. QED
  BY InvInit, <1>1, <1>2, <1>3, PTL DEF Spec, ImplementsLedger, Ledger!Spec

-----------------------------------------------------------------------------
(* With the tag echoed and no overlap, what the log holds of an order the   *)
(* venue did.                                                               *)

TradesOf(o) == {t \in tape : t.order = o}
Booked(o) == {t \in tape : t.order = o /\ TradeId(t) \in applied[o]}

(* The venue numbers the trades of an order, and an id in the log is one of *)
(* them or the synthetic one of check_inflight.                             *)
TapeInv ==
  /\ \A t \in tape : t.n \in 1 .. Cardinality(TradesOf(t.order))
  /\ \A s \in tape : \A t \in tape : TradeId(s) = TradeId(t) => s = t
AppliedInv ==
  \A o \in Orders : \A id \in applied[o] : id[2] = 0 \/ \E t \in tape : id = TradeId(t)

(* A fill in hand is a trade of its order and not in the log, and a report  *)
(* of a complete order is still so.                                         *)
ReportInv ==
  /\ \A r \in backlog : r.trade \in tape /\ r.client = r.trade.order
  /\ \A d \in pending : /\ d.report.trade \in tape /\ d.report.client = d.report.trade.order
                        /\ TradeId(d.report.trade) \notin applied[d.report.client]
CompleteInv ==
  \A k \in check : k.venue = k.order /\ (k.vstatus = "complete" => vfilled[k.order] = Qty[k.order])

(* What any of the trades come to.                                          *)
Weighs(w, T) ==
  /\ w \in [SUBSET T -> Nat]
  /\ w[{}] = 0 /\ \A t \in T : t.qty \in Nat
  /\ \A A \in SUBSET T : \A t \in T : t \notin A => w[A \cup {t}] = w[A] + t.qty
  /\ \A A \in SUBSET T : \A B \in SUBSET T : A \subseteq B => w[A] <= w[B]

(* An order is filled for as much as the trades in its log, or wholly and   *)
(* so it is at the venue.                                                   *)
Settled(o) == filled[o] = Qty[o] /\ vfilled[o] = Qty[o]
Accounts(w) ==
  \A o \in Orders : w[TradesOf(o)] = vfilled[o] /\ (filled[o] = w[Booked(o)] \/ Settled(o))
FillsInv == \E w : Weighs(w, tape) /\ Accounts(w)

RealInv == TapeInv /\ AppliedInv /\ ReportInv /\ CompleteInv /\ FillsInv

LEMMA NothingWeighs == Weighs([A \in SUBSET {} |-> 0], {})
BY DEF Weighs

LEMMA WeightShift ==
  ASSUME NEW a \in Nat, NEW b \in Nat, NEW c \in Nat, NEW d \in Nat, a = b + c, NEW x, NEW y, x = a + d, y = b + d
  PROVE  x = y + c
OBVIOUS

(* One more trade.                                                          *)
Extends(v, w, T, t) ==
  Weighs(v, T \cup {t}) /\ \A A \in SUBSET T : v[A] = w[A] /\ v[A \cup {t}] = w[A] + t.qty

LEMMA WeighsMore ==
  ASSUME NEW T, NEW t, NEW w, t \notin T, t.qty \in Nat, Weighs(w, T)
  PROVE  \E v : Extends(v, w, T, t)
<1> DEFINE v == [A \in SUBSET (T \cup {t}) |-> w[A \ {t}] + (IF t \in A THEN t.qty ELSE 0)]
<1>1. \A A \in SUBSET (T \cup {t}) : A \ {t} \in SUBSET T
  OBVIOUS
<1>2. \A A \in SUBSET T : w[A] \in Nat
  BY DEF Weighs
<1>3. v \in [SUBSET (T \cup {t}) -> Nat]
  BY <1>1, <1>2
<1>4. \A A \in SUBSET (T \cup {t}) : v[A] = w[A \ {t}] + (IF t \in A THEN t.qty ELSE 0)
  OBVIOUS
<1> HIDE DEF v
<1>41. ASSUME NEW A \in SUBSET (T \cup {t}), t \in A PROVE v[A] = w[A \ {t}] + t.qty
  BY <1>4, <1>41
<1>42. ASSUME NEW A \in SUBSET T PROVE v[A] = w[A]
  <2>1. A \in SUBSET (T \cup {t}) /\ A \ {t} = A /\ t \notin A /\ w[A] \in Nat
    BY <1>2
  <2>2. v[A] = w[A] + 0
    BY <2>1, <1>4
  <2> QED
    BY <2>1, <2>2
<1>5. v[{}] = 0
  <2>1. {} \in SUBSET T
    OBVIOUS
  <2> QED
    BY <2>1, <1>42 DEF Weighs
<1>6. ASSUME NEW A \in SUBSET (T \cup {t}), NEW s \in T \cup {t}, s \notin A
      PROVE  v[A \cup {s}] = v[A] + s.qty
  <2>1. A \cup {s} \in SUBSET (T \cup {t})
    OBVIOUS
  <2>2. w[A \ {t}] \in Nat /\ s.qty \in Nat
    BY <1>1, <1>2 DEF Weighs
  <2>3. CASE s = t
    <3>1. (A \cup {s}) \ {t} = A \ {t}
      BY <2>3
    <3>2. A \in SUBSET T
      BY <2>3, <1>6
    <3>3. v[A \cup {s}] = w[A \ {t}] + t.qty /\ v[A] = w[A] /\ A \ {t} = A
      BY <3>1, <3>2, <2>1, <2>3, <1>41, <1>42
    <3> QED
      BY <3>3, <2>3
  <2>4. CASE s # t
    <3>1. (A \cup {s}) \ {t} = (A \ {t}) \cup {s} /\ s \in T /\ s \notin A \ {t}
      BY <2>4, <1>6
    <3>2. w[(A \ {t}) \cup {s}] = w[A \ {t}] + s.qty
      BY <3>1, <1>1 DEF Weighs
    <3>3. (t \in A \cup {s}) <=> (t \in A)
      BY <2>4
    <3>4. w[(A \ {t}) \cup {s}] \in Nat /\ (A \ {t}) \cup {s} \in SUBSET T
      BY <1>1, <1>2, <3>1
    <3>5. v[A \cup {s}] = w[(A \ {t}) \cup {s}] + (IF t \in A THEN t.qty ELSE 0)
      BY <3>1, <3>3, <2>1, <1>4
    <3>6. v[A] = w[A \ {t}] + (IF t \in A THEN t.qty ELSE 0)
      BY <1>4
    <3>7. CASE t \in A
      <4>1. v[A \cup {s}] = w[(A \ {t}) \cup {s}] + t.qty /\ v[A] = w[A \ {t}] + t.qty
        BY <3>5, <3>6, <3>7
      <4> HIDE DEF Weighs
      <4> QED
        BY <4>1, <3>2, <2>2, <3>4, WeightShift
    <3>8. CASE t \notin A
      <4>1. v[A \cup {s}] = w[(A \ {t}) \cup {s}] + 0 /\ v[A] = w[A \ {t}] + 0
        BY <3>5, <3>6, <3>8
      <4> QED
        BY <4>1, <3>2, <2>2, <3>4, WeightShift
    <3> QED
      BY <3>7, <3>8
  <2> QED
    BY <2>3, <2>4
<1>7. ASSUME NEW A \in SUBSET (T \cup {t}), NEW B \in SUBSET (T \cup {t}), A \subseteq B
      PROVE  v[A] <= v[B]
  <2>1. w[A \ {t}] <= w[B \ {t}] /\ w[A \ {t}] \in Nat /\ w[B \ {t}] \in Nat
    <3>1. A \ {t} \subseteq B \ {t}
      BY <1>7
    <3> QED
      BY <3>1, <1>1, <1>2 DEF Weighs
  <2>2. t \in A => t \in B
    BY <1>7
  <2>3. v[A] = w[A \ {t}] + (IF t \in A THEN t.qty ELSE 0) /\ v[B] = w[B \ {t}] + (IF t \in B THEN t.qty ELSE 0)
    BY <1>4
  <2> HIDE DEF Weighs
  <2>4. CASE t \in A
    <3>1. v[A] = w[A \ {t}] + t.qty /\ v[B] = w[B \ {t}] + t.qty
      BY <2>2, <2>3, <2>4
    <3> QED
      BY <3>1, <2>1
  <2>5. CASE t \notin A
    <3>1. v[A] = w[A \ {t}] /\ v[B] \in {w[B \ {t}] + t.qty, w[B \ {t}]}
      BY <2>1, <2>3, <2>5
    <3> QED
      BY <3>1, <2>1
  <2> QED
    BY <2>4, <2>5
<1>8. ASSUME NEW A \in SUBSET T PROVE v[A] = w[A] /\ v[A \cup {t}] = w[A] + t.qty
  <2>1. (A \cup {t}) \ {t} = A /\ A \cup {t} \in SUBSET (T \cup {t})
    OBVIOUS
  <2> QED
    BY <2>1, <1>41, <1>42
<1>9. Weighs(v, T \cup {t})
  BY <1>3, <1>5, <1>6, <1>7 DEF Weighs
<1> QED
  BY <1>8, <1>9 DEF Extends

LEMMA RealInit == ASSUME Init PROVE RealInv
<1>1. TapeInv /\ AppliedInv /\ ReportInv /\ CompleteInv
  BY DEF Init, TapeInv, AppliedInv, ReportInv, CompleteInv
<1>2. tape = {} /\ \A o \in Orders : TradesOf(o) = {} /\ Booked(o) = {} /\ vfilled[o] = 0 /\ filled[o] = 0
  BY DEF Init, TradesOf, Booked
<1> DEFINE w == [A \in SUBSET {} |-> 0]
<1>3. Weighs(w, tape)
  BY <1>2, NothingWeighs
<1>4. Accounts(w)
  BY <1>2 DEF Accounts
<1> QED
  BY <1>1, <1>3, <1>4 DEF RealInv, FillsInv

LEMMA RealFills == ASSUME TypeOK, RealInv PROVE LocalFillsAreReal
<1>1. PICK w : Weighs(w, tape) /\ Accounts(w)
  BY DEF RealInv, FillsInv
<1>2. ASSUME NEW o \in Orders PROVE filled[o] <= vfilled[o]
  <2>1. w[Booked(o)] <= w[TradesOf(o)] /\ w[Booked(o)] \in Nat
    BY <1>1 DEF Weighs, Booked, TradesOf
  <2>2. filled[o] \in Nat /\ vfilled[o] \in Nat
    BY DEF TypeOK
  <2> QED
    BY <1>1, <2>1, <2>2 DEF Accounts, Settled
<1> QED
  BY <1>2 DEF LocalFillsAreReal

(* The trades and what was filled stay.                                     *)
LEMMA TapeStays ==
  ASSUME RealInv, UNCHANGED <<filled, applied, tape, vfilled>>
  PROVE  TapeInv' /\ AppliedInv' /\ FillsInv'
<1>1. tape' = tape /\ \A o : TradesOf(o)' = TradesOf(o) /\ Booked(o)' = Booked(o)
  BY DEF TradesOf, Booked
<1>2. TapeInv' /\ AppliedInv'
  BY <1>1 DEF RealInv, TapeInv, AppliedInv
<1>3. PICK w : Weighs(w, tape) /\ Accounts(w)
  BY DEF RealInv, FillsInv
<1>4. \A o \in Orders : w[TradesOf(o)'] = vfilled'[o] /\ (filled'[o] = w[Booked(o)'] \/ (filled'[o] = Qty[o] /\ vfilled'[o] = Qty[o]))
  BY <1>1, <1>3 DEF Accounts, Settled
<1>5. Weighs(w, tape')
  BY <1>1, <1>3
<1> QED
  BY <1>2, <1>4, <1>5 DEF FillsInv, Accounts, Settled

LEMMA FillsStay ==
  ASSUME RealInv, UNCHANGED <<filled, applied, venueVars>>
  PROVE  TapeInv' /\ AppliedInv' /\ FillsInv'
BY TapeStays DEF venueVars

(* on_fill books a trade that is not in the log.                            *)
LEMMA BookingKeeps ==
  ASSUME IInv, RealInv, NEW d \in pending, ApplyFill(d), UNCHANGED <<check, venueVars>>
  PROVE  TapeInv' /\ AppliedInv' /\ FillsInv'
<1> DEFINE c == d.report.client
           t == d.report.trade
<1>1. t \in tape /\ c = t.order /\ c \in Orders /\ t.qty \in Nat \ {0} /\ TradeId(t) \notin applied[c]
  BY DEF RealInv, ReportInv, IInv, TypeOK, Decisions, Reports, Trades
<1>2. /\ filled' = [filled EXCEPT ![c] = filled[c] + t.qty]
      /\ applied' = [applied EXCEPT ![c] = applied[c] \cup {TradeId(t)}]
      /\ d.verdict # "overfill"
  BY DEF ApplyFill
<1>3. applied \in [Orders -> SUBSET TradeIds] /\ filled \in [Orders -> Nat] /\ Qty[c] \in Nat \ {0}
  BY QtyAssumption, <1>1 DEF IInv, TypeOK
<1>4. filled[c] + t.qty <= Qty[c]
  <2>1. d.verdict = Verdict(d.report)
    BY DEF IInv, PendingInv
  <2> QED
    BY <2>1, <1>1, <1>2, <1>3 DEF Verdict
<1> HIDE DEF c, t
<1>5. tape' = tape /\ vfilled' = vfilled /\ \A o : TradesOf(o)' = TradesOf(o)
  BY DEF venueVars, TradesOf
<1>6. TapeInv'
  BY <1>5 DEF RealInv, TapeInv
<1>7. AppliedInv'
  <2>1. \A o \in Orders : \A id \in applied'[o] : id \in applied[o] \/ id = TradeId(t)
    BY <1>2, <1>3
  <2> QED
    BY <2>1, <1>1, <1>5 DEF RealInv, AppliedInv
<1>8. Booked(c)' = Booked(c) \cup {t} /\ t \notin Booked(c)
  <2>1. \A s \in tape : TradeId(s) = TradeId(t) => s = t
    BY <1>1 DEF RealInv, TapeInv
  <2>2. applied'[c] = applied[c] \cup {TradeId(t)}
    BY <1>1, <1>2, <1>3
  <2> QED
    BY <2>1, <2>2, <1>1, <1>5 DEF Booked
<1>9. \A o \in Orders : o # c => Booked(o)' = Booked(o) /\ filled'[o] = filled[o]
  BY <1>2, <1>3, <1>5 DEF Booked
<1>10. filled'[c] = filled[c] + t.qty
  BY <1>1, <1>2, <1>3
<1>11. PICK w : Weighs(w, tape) /\ Accounts(w)
  BY DEF RealInv, FillsInv
<1>12. filled'[c] = w[Booked(c)']
  <2>1. ~ Settled(c)
    BY <1>1, <1>3, <1>4 DEF Settled
  <2>2. filled[c] = w[Booked(c)]
    BY <2>1, <1>1, <1>11 DEF Accounts
  <2>3. w[Booked(c) \cup {t}] = w[Booked(c)] + t.qty
    BY <1>1, <1>8, <1>11 DEF Weighs, Booked
  <2> QED
    BY <2>2, <2>3, <1>8, <1>10
<1>13. \A o \in Orders : w[TradesOf(o)'] = vfilled'[o] /\ (filled'[o] = w[Booked(o)'] \/ (filled'[o] = Qty[o] /\ vfilled'[o] = Qty[o]))
  BY <1>5, <1>9, <1>11, <1>12 DEF Accounts, Settled
<1>14. Weighs(w, tape')
  BY <1>5, <1>11
<1> QED
  BY <1>6, <1>7, <1>13, <1>14 DEF FillsInv, Accounts, Settled

LEMMA SubmitKeepsReal ==
  ASSUME Concurrent = FALSE, TagLookup = TRUE, IInv, RealInv, NEW o \in Orders, Submit(o)
  PROVE  RealInv'
<1> USE DEF Move, ManagerMayRun
<1>1. check = {} /\ check' = {}
  BY DEF Submit, CheckHalt, Persist, PlaceOrder, RecordSubmitted, RecordAccepted, ReadFills, ReadFillsFails,
         BeginFill, EndFill, FillFails, DrainDone
<1>2. CompleteInv'
  BY <1>1 DEF CompleteInv
<1>3. CASE UNCHANGED <<filled, applied, backlog, pending, tape, vfilled>> /\ UNCHANGED <<venueVars>>
  BY <1>2, <1>3, FillsStay DEF RealInv, ReportInv
<1>4. CASE \E taken, ack \in BOOLEAN : PlaceOrder(o, taken, ack)
  <2>1. UNCHANGED <<filled, applied, backlog, pending, tape, vfilled>>
    BY <1>4 DEF PlaceOrder, localVars
  <2> QED
    BY <2>1, <1>2, TapeStays DEF RealInv, ReportInv
<1>5. CASE ReadFills(o)
  <2>1. UNCHANGED <<filled, applied, pending, venueVars>> /\ backlog' = FillReports
    BY <1>5 DEF ReadFills, localVars
  <2>2. \A r \in FillReports : r.trade \in tape /\ r.client = r.trade.order
    BY DEF FillReports, ClientIds
  <2>3. tape' = tape
    BY <2>1 DEF venueVars
  <2> QED
    BY <2>1, <2>2, <2>3, <1>2, FillsStay DEF RealInv, ReportInv
<1>6. CASE BeginFill(o)
  <2>1. UNCHANGED <<filled, applied, venueVars>>
    BY <1>6 DEF BeginFill, localVars
  <2>2. PICK r \in backlog : IF Ignored(r) THEN backlog' = backlog \ {r} /\ UNCHANGED pending
                             ELSE /\ pending' = {[report |-> r, verdict |-> Verdict(r)]} /\ UNCHANGED backlog
    BY <1>6 DEF BeginFill
  <2>3. tape' = tape
    BY <2>1 DEF venueVars
  <2>4. r.trade \in tape /\ r.client = r.trade.order
    BY DEF RealInv, ReportInv
  <2>5. ASSUME Ignored(r) PROVE ReportInv'
    <3>1. backlog' \subseteq backlog /\ pending' = pending /\ applied' = applied
      BY <2>1, <2>2, <2>5
    <3> QED
      BY <3>1, <2>3 DEF RealInv, ReportInv
  <2>6. ASSUME ~ Ignored(r) PROVE ReportInv'
    <3>1. TradeId(r.trade) \notin applied[r.client]
      BY <2>6 DEF Ignored
    <3>2. backlog' = backlog /\ pending' = {[report |-> r, verdict |-> Verdict(r)]} /\ applied' = applied
      BY <2>1, <2>2, <2>6
    <3> QED
      BY <3>1, <3>2, <2>3, <2>4 DEF RealInv, ReportInv
  <2>7. ReportInv'
    BY <2>5, <2>6
  <2> QED
    BY <2>1, <2>7, <1>2, FillsStay DEF RealInv
<1>7. CASE EndFill(o)
  <2>1. PICK d \in pending : (ApplyFill(d) \/ RejectOverfill(d)) /\ backlog' = backlog \ {d.report}
    BY <1>7 DEF EndFill
  <2>2. pending' = {} /\ UNCHANGED <<check, venueVars>>
    BY <1>7 DEF EndFill
  <2>3. ReportInv'
    BY <2>1, <2>2 DEF RealInv, ReportInv, venueVars
  <2>4. CASE ApplyFill(d)
    BY <2>2, <2>3, <2>4, <1>2, BookingKeeps DEF RealInv
  <2>5. CASE RejectOverfill(d)
    BY <2>2, <2>3, <2>5, <1>2, FillsStay DEF RealInv, RejectOverfill, localVars
  <2> QED
    BY <2>1, <2>4, <2>5
<1>8. CASE FillFails(o)
  <2>1. UNCHANGED <<filled, applied, venueVars>> /\ pending' = {} /\ backlog' \subseteq backlog
    BY <1>8 DEF FillFails, localVars
  <2>2. ReportInv'
    BY <2>1 DEF RealInv, ReportInv, venueVars
  <2> QED
    BY <2>1, <2>2, <1>2, FillsStay DEF RealInv
<1> QED
  BY <1>3, <1>4, <1>5, <1>6, <1>7, <1>8
  DEF Submit, CheckHalt, Persist, RecordSubmitted, RecordAccepted, ReadFillsFails, DrainDone, localVars, venueVars

LEMMA CheckKeepsReal ==
  ASSUME Concurrent = FALSE, TagLookup = TRUE, IInv, RealInv, CheckInflight
  PROVE  RealInv'
<1>1. UNCHANGED <<backlog, pending, venueVars>>
  BY DEF CheckInflight, CheckBegin, CheckQuery, CheckAppend, CheckFill, CheckDies
<1>2. tape' = tape /\ vfilled' = vfilled
  BY <1>1 DEF venueVars
<1>3. CASE \E o \in Orders : CheckBegin(o)
  <2>1. UNCHANGED <<filled, applied>>
    BY <1>3 DEF CheckBegin, localVars
  <2>2. CompleteInv'
    BY <1>3 DEF CheckBegin, CompleteInv
  <2> QED
    BY <2>1, <2>2, <1>1, <1>2, FillsStay DEF RealInv, ReportInv
<1>4. CASE CheckQuery
  <2>1. UNCHANGED <<filled, applied>>
    BY <1>4 DEF CheckQuery, localVars
  <2>2. PICK k \in check : check' = {[step |-> "append", order |-> k.order, venue |-> v, vstatus |-> venue[v], qty |-> vfilled[v]] :
                                       v \in ResolveInflight(k.order)}
    BY <1>4 DEF CheckQuery
  <2>3. \A v \in ResolveInflight(k.order) : v = k.order /\ v \in Orders
    BY DEF ResolveInflight, Matches, IInv, TypeOK, Checks
  <2>4. \A v \in Orders : venue[v] = "complete" => vfilled[v] = Qty[v]
    BY DEF IInv, VenueInv
  <2>5. CompleteInv'
    BY <2>2, <2>3, <2>4, <1>2 DEF CompleteInv
  <2> QED
    BY <2>1, <2>5, <1>1, <1>2, FillsStay DEF RealInv, ReportInv
<1>5. CASE CheckAppend
  <2>1. UNCHANGED <<filled, applied>>
    BY <1>5 DEF CheckAppend
  <2>2. PICK k \in check : check' = IF k.vstatus = "complete" THEN {[k EXCEPT !.step = "fill"]} ELSE {}
    BY <1>5 DEF CheckAppend
  <2>3. CompleteInv'
    BY <2>2, <1>2 DEF CompleteInv, RealInv, IInv, TypeOK, Checks
  <2> QED
    BY <2>1, <2>3, <1>1, <1>2, FillsStay DEF RealInv, ReportInv
<1>6. CASE CheckFill
  <2>1. PICK k \in check :
          /\ k.step = "fill" /\ filled' = [filled EXCEPT ![k.order] = filled[k.order] + k.qty]
          /\ status' = [status EXCEPT ![k.order] = "FILLED"]
          /\ applied' = [applied EXCEPT ![k.order] = applied[k.order] \cup {Resolved(k.venue)}]
    BY <1>6 DEF CheckFill
  <2> DEFINE c == k.order
  <2>2. /\ c \in Orders /\ status[c] = "ACCEPTED" /\ k.qty = Qty[c] /\ Qty[c] \in Nat \ {0}
        /\ vfilled[c] = Qty[c] /\ Idle
    BY <2>1, QtyAssumption DEF IInv, TypeOK, Checks, CheckInv, RealInv, CompleteInv
  <2>3. pending = {}
    BY <2>2 DEF IInv, PendingInv, Idle, Running
  <2>4. filled[c] = 0 /\ filled \in [Orders -> Nat] /\ applied \in [Orders -> SUBSET TradeIds]
    BY <2>2 DEF IInv, FoldInv, TypeOK
  <2>5. filled'[c] = Qty[c]
    BY <2>1, <2>2, <2>4
  <2>6. \A t \in tape : TradeId(t) # Resolved(k.venue)
    BY DEF RealInv, TapeInv, TradeId, Resolved
  <2>7. \A x \in Orders : /\ Booked(x)' = Booked(x) /\ TradesOf(x)' = TradesOf(x)
                          /\ x # c => filled'[x] = filled[x]
    BY <2>1, <2>2, <2>4, <2>6, <1>2 DEF Booked, TradesOf
  <2>8. TapeInv'
    BY <1>2 DEF RealInv, TapeInv, TradesOf
  <2>9. AppliedInv'
    <3>1. \A x \in Orders : \A id \in applied'[x] : id \in applied[x] \/ id = Resolved(k.venue)
      BY <2>1, <2>2, <2>4
    <3> QED
      BY <3>1, <1>2 DEF RealInv, AppliedInv, Resolved
  <2>10. PICK w : Weighs(w, tape) /\ Accounts(w)
    BY DEF RealInv, FillsInv
  <2> HIDE DEF c
  <2>11. \A x \in Orders : w[TradesOf(x)'] = vfilled'[x] /\ (filled'[x] = w[Booked(x)'] \/ (filled'[x] = Qty[x] /\ vfilled'[x] = Qty[x]))
    BY <2>2, <2>5, <2>7, <2>10, <1>2 DEF Accounts, Settled
  <2>12. FillsInv'
    BY <2>10, <2>11, <1>2 DEF FillsInv, Accounts, Settled
  <2>13. ReportInv' /\ CompleteInv'
    BY <2>3, <1>1, <1>2, <1>6 DEF RealInv, ReportInv, CompleteInv, CheckFill
  <2> QED
    BY <2>8, <2>9, <2>12, <2>13 DEF RealInv
<1>7. CASE CheckDies
  <2>1. UNCHANGED <<filled, applied>> /\ check' = {}
    BY <1>7 DEF CheckDies, localVars
  <2> QED
    BY <2>1, <1>1, <1>2, FillsStay DEF RealInv, ReportInv, CompleteInv
<1> QED
  BY <1>3, <1>4, <1>5, <1>6, <1>7 DEF CheckInflight

(* The venue fills an order with a trade it has not given yet.              *)
LEMMA VenueFillKeepsReal ==
  ASSUME IInv, RealInv, NEW v \in Orders, VenueFill(v)
  PROVE  RealInv'
<1>1. UNCHANGED <<filled, applied, backlog, pending, check>>
  BY DEF VenueFill, localVars, callVars
<1> DEFINE number == Cardinality(TradesOf(v)) + 1
<1>2. PICK q \in 1 .. (Qty[v] - vfilled[v]) :
        /\ vfilled' = [vfilled EXCEPT ![v] = vfilled[v] + q]
        /\ tape' = tape \cup {[order |-> v, qty |-> q, n |-> number]}
  BY DEF VenueFill, TradesOf
<1> DEFINE t == [order |-> v, qty |-> q, n |-> number]
<1>3. /\ Qty[v] \in Nat \ {0} /\ vfilled \in [Orders -> Nat] /\ applied \in [Orders -> SUBSET TradeIds]
      /\ filled \in [Orders -> Nat] /\ IsFiniteSet(tape) /\ tape \subseteq Trades
  BY QtyAssumption DEF IInv, TypeOK
<1>4. q \in Nat \ {0} /\ vfilled[v] # Qty[v]
  BY <1>3
<1>5. IsFiniteSet(TradesOf(v)) /\ Cardinality(TradesOf(v)) \in Nat
  BY <1>3, FS_Subset, FS_CardinalityType DEF TradesOf
<1>6. \A s \in tape : s.order = v => s.n \in 1 .. Cardinality(TradesOf(v))
  BY DEF RealInv, TapeInv
<1>7. number \in Nat /\ number # 0 /\ \A s \in tape : s.order = v => s.n # number
  BY <1>5, <1>6
<1> HIDE DEF number
<1>8. t.order = v /\ t.qty = q /\ t.n = number /\ TradeId(t) = <<v, number>>
  BY DEF TradeId
<1>9. tape' = tape \cup {t}
  BY <1>2
<1> HIDE DEF t
<1>10. t \notin tape /\ \A s \in tape : TradeId(s) # TradeId(t)
  BY <1>7, <1>8 DEF TradeId
<1>11. TradesOf(v)' = TradesOf(v) \cup {t} /\ \A o \in Orders : o # v => TradesOf(o)' = TradesOf(o)
  BY <1>8, <1>9 DEF TradesOf
<1>12. \A o \in Orders : Booked(o)' = Booked(o)
  <2>1. \A o \in Orders : TradeId(t) \notin applied[o]
    <3>1. TradeId(t)[2] # 0
      BY <1>7, <1>8
    <3> QED
      BY <3>1, <1>10 DEF RealInv, AppliedInv
  <2> QED
    BY <2>1, <1>1, <1>9 DEF Booked
<1>13. TapeInv'
  <2>1. Cardinality(TradesOf(v)') = number
    <3>1. t \notin TradesOf(v)
      BY <1>10 DEF TradesOf
    <3> QED
      BY <3>1, <1>5, <1>11, FS_AddElement DEF number
  <2>2. ASSUME NEW s \in tape' PROVE s.n \in 1 .. Cardinality(TradesOf(s.order)')
    <3>1. CASE s = t
      BY <3>1, <2>1, <1>7, <1>8
    <3>2. CASE s \in tape /\ s.order = v
      <4>1. s.n \in 1 .. Cardinality(TradesOf(v)) /\ number = Cardinality(TradesOf(v)) + 1
        BY <3>2, <1>6 DEF number
      <4>2. s.n \in 1 .. number
        BY <4>1, <1>5
      <4> QED
        BY <4>2, <3>2, <2>1
    <3>3. CASE s \in tape /\ s.order # v
      <4>1. s.order \in Orders /\ s.n \in 1 .. Cardinality(TradesOf(s.order))
        BY <3>3, <1>3 DEF RealInv, TapeInv, Trades
      <4> QED
        BY <4>1, <3>3, <1>11
    <3> QED
      BY <3>1, <3>2, <3>3, <1>9
  <2>3. \A s \in tape' : \A u \in tape' : TradeId(s) = TradeId(u) => s = u
    BY <1>9, <1>10 DEF RealInv, TapeInv
  <2>4. \A s \in tape' : s.n \in 1 .. Cardinality(TradesOf(s.order)')
    BY <2>2
  <2> QED
    BY <2>3, <2>4 DEF TapeInv, TradesOf
<1>14. AppliedInv' /\ ReportInv'
  BY <1>1, <1>9 DEF RealInv, AppliedInv, ReportInv
<1>15. CompleteInv'
  <2>1. \A k \in check : k.order \in Orders
    BY DEF IInv, TypeOK, Checks
  <2>2. \A o \in Orders : vfilled[o] = Qty[o] => vfilled'[o] = Qty[o]
    BY <1>2, <1>3, <1>4
  <2>3. \A k \in check : k.venue = k.order /\ (k.vstatus = "complete" => vfilled[k.order] = Qty[k.order])
    BY DEF RealInv, CompleteInv
  <2>4. check' = check
    BY <1>1
  <2>5. ASSUME NEW k \in check PROVE k.venue = k.order /\ (k.vstatus = "complete" => vfilled'[k.order] = Qty[k.order])
    BY <2>1, <2>2, <2>3
  <2> QED
    BY <2>4, <2>5 DEF CompleteInv
<1>16. PICK w : Weighs(w, tape) /\ Accounts(w)
  BY DEF RealInv, FillsInv
<1>17. PICK x : Extends(x, w, tape, t)
  <2>1. t.qty \in Nat /\ t \notin tape /\ Weighs(w, tape)
    BY <1>4, <1>8, <1>10, <1>16
  <2> QED
    BY <2>1, WeighsMore
<1>18. \A o \in Orders : TradesOf(o) \in SUBSET tape /\ Booked(o) \in SUBSET tape
  BY DEF TradesOf, Booked
<1>19. \A o \in Orders : x[TradesOf(o)'] = vfilled'[o]
  <2>1. x[TradesOf(v)'] = w[TradesOf(v)] + q
    BY <1>8, <1>11, <1>17, <1>18 DEF Extends
  <2>2. w[TradesOf(v)] = vfilled[v]
    BY <1>16 DEF Accounts
  <2>3. vfilled'[v] = vfilled[v] + q
    BY <1>2, <1>3
  <2>4. ASSUME NEW o \in Orders, o # v PROVE x[TradesOf(o)'] = vfilled'[o]
    BY <2>4, <1>2, <1>3, <1>11, <1>16, <1>17, <1>18 DEF Accounts, Extends
  <2> QED
    BY <2>1, <2>2, <2>3, <2>4
<1>20. \A o \in Orders : filled'[o] = x[Booked(o)'] \/ (filled'[o] = Qty[o] /\ vfilled'[o] = Qty[o])
  <2>1. \A o \in Orders : x[Booked(o)'] = w[Booked(o)] /\ filled'[o] = filled[o]
    BY <1>1, <1>12, <1>17, <1>18 DEF Extends
  <2>2. \A o \in Orders : o # v => vfilled'[o] = vfilled[o]
    BY <1>2, <1>3
  <2> QED
    BY <2>1, <2>2, <1>4, <1>16 DEF Accounts, Settled
<1>21. FillsInv'
  BY <1>9, <1>17, <1>19, <1>20 DEF FillsInv, Accounts, Settled, Extends
<1> QED
  BY <1>13, <1>14, <1>15, <1>21 DEF RealInv

LEMMA RealStep ==
  ASSUME Concurrent = FALSE, TagLookup = TRUE, IInv, RealInv, [Next]_vars
  PROVE  RealInv'
<1>1. CASE \E o \in Orders : Submit(o)
  BY <1>1, SubmitKeepsReal
<1>2. CASE CheckInflight
  BY <1>2, CheckKeepsReal
<1>3. CASE Crash
  <2>1. UNCHANGED <<filled, applied, check, venueVars>> /\ backlog' = {} /\ pending' = {}
    BY <1>3 DEF Crash, localVars
  <2> QED
    BY <2>1, FillsStay DEF RealInv, ReportInv, CompleteInv, venueVars
<1>4. CASE Reconcile \/ OtherHalt \/ ClearHalt \/ UNCHANGED vars
  <2>1. UNCHANGED <<filled, applied, check, venueVars, backlog, pending>>
    BY <1>4 DEF Reconcile, OtherHalt, ClearHalt, vars, localVars, callVars
  <2> QED
    BY <2>1, FillsStay DEF RealInv, ReportInv, CompleteInv, venueVars
<1>5. CASE \E v \in Orders : VenueFill(v)
  BY <1>5, VenueFillKeepsReal
<1>6. CASE \E v \in Orders : VenueEnds(v)
  <2>1. UNCHANGED <<filled, applied, backlog, pending, tape, vfilled, check>>
    BY <1>6 DEF VenueEnds, localVars, callVars
  <2> QED
    BY <2>1, TapeStays DEF RealInv, ReportInv, CompleteInv
<1> QED
  BY <1>1, <1>2, <1>3, <1>4, <1>5, <1>6 DEF Next

(* With the tag echoed and check_inflight run between submits only, no fill *)
(* is booked twice nor on an order the venue did not fill, whatever acks    *)
(* are lost, whichever drain finds a trade and whenever the process dies.   *)
THEOREM TaggedFillsAreReal ==
  ASSUME Concurrent = FALSE, TagLookup = TRUE
  PROVE  Spec => []LocalFillsAreReal
<1>1. Init => RealInv
  BY RealInit
<1>2. IInv /\ RealInv => LocalFillsAreReal
  BY RealFills DEF IInv
<1>3. IInv /\ [Next]_vars => IInv'
  BY InvStep
<1>4. IInv /\ RealInv /\ [Next]_vars => RealInv'
  BY RealStep
<1> QED
  BY InvInit, <1>1, <1>2, <1>3, <1>4, PTL DEF Spec
=============================================================================
