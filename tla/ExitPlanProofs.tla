---------------------------- MODULE ExitPlanProofs ----------------------------
(***************************************************************************)
(* Proofs about ExitPlan, for every set of quotes, every admissible exit   *)
(* plan, any two percentages and any number of failures.                   *)
(***************************************************************************)
EXTENDS ExitPlan, TLAPS

(* A price is near itself.                                                  *)
LEMMA NearItself ==
  ASSUME NEW b \in Nat \ {None}, NEW pct \in Nat
  PROVE  Near(b, b, pct)
<1>1. pct * b >= 0
  OBVIOUS
<1>2. 100 * Gap(b, b) = 0
  BY DEF Gap
<1> QED
  BY <1>1, <1>2 DEF Near, None

(* The two ratchets only raise the stop.                                    *)
LEMMA StopRatchets ==
  ASSUME TypeOK, NEW m \in Mark
  PROVE  NewStop(m) \in Int /\ NewStop(m) >= row.stop
<1>1. plan.trail \in Int /\ plan.buffer \in Int /\ m \in Int /\ row.stop \in Int
  BY ExitAssumption DEF ExitAssumption, TypeOK, Mark, None
<1>2. Trailed(m) \in Int /\ Trailed(m) >= row.stop
  BY <1>1 DEF Trailed, Larger
<1>3. PctOf(m, plan.buffer) \in Int
  BY <1>1 DEF PctOf
<1>4. CASE Locks(m)
  <2>1. NewStop(m) = Larger(Trailed(m), m - PctOf(m, plan.buffer))
    BY <1>4 DEF NewStop
  <2> QED
    BY <1>1, <1>2, <1>3, <2>1 DEF Larger
<1>5. CASE ~Locks(m)
  BY <1>2, <1>5 DEF NewStop
<1> QED
  BY <1>4, <1>5

(* What a visit makes of a quote.                                           *)
LEMMA MarkedRow ==
  ASSUME TypeOK, NEW q \in Quotes
  PROVE  /\ Marked(q) \in [open : BOOLEAN, stop : Int, locked : BOOLEAN,
                           last : Mark, pend : Mark]
         /\ Marked(q).open = row.open /\ Marked(q).stop = row.stop
         /\ Marked(q).locked = row.locked
         /\ Marked(q).last # None
         /\ Accept(q) => Marked(q).last = q /\ Marked(q).pend = None
         /\ ~Accept(q) => Marked(q).last = row.last /\ Marked(q).pend = q
<1>1. q \in Mark /\ q # None /\ None \in Mark
  BY ExitAssumption DEF ExitAssumption, Mark
<1>2. CASE Accept(q)
  BY <1>1, <1>2 DEF Marked, TypeOK
<1>3. CASE ~Accept(q)
  <2>1. row.last # None
    BY <1>3 DEF Accept
  <2> QED
    BY <1>1, <1>3, <2>1 DEF Marked, Quarantined, TypeOK
<1> QED
  BY <1>2, <1>3

LEMMA ReasonType == \A m \in Mark : Reason(m) \in Reasons
BY DEF Reason, Reasons

-----------------------------------------------------------------------------
LEMMA TypeInit == Init => TypeOK
<1> SUFFICES ASSUME Init PROVE TypeOK
  OBVIOUS
<1>1. plan \in Plans /\ plan.stop \in Int
  BY ExitAssumption DEF ExitAssumption, Init
<1>2. row \in [open : BOOLEAN, stop : Int, locked : BOOLEAN, last : Mark, pend : Mark]
  BY <1>1 DEF Init, Mark
<1>3. row.last = None => row.pend = None
  BY DEF Init
<1>4. retry \in BOOLEAN
  BY Zenon DEF Init
<1>5. now \in Nat /\ seen \in Mark /\ lockedAt \in Mark
  BY DEF Init, Mark
<1>6. exit \in [reason : Reasons, price : Mark, quote : Mark, last : Mark, seen : Mark]
  BY DEF Init, Mark, Reasons
<1> QED
  BY <1>1, <1>2, <1>3, <1>4, <1>5, <1>6, Zenon DEF TypeOK

(* A sale keeps the types.                                                  *)
LEMMA SellType ==
  ASSUME TypeOK, NEW r, NEW reason \in Reasons, NEW price \in Mark, NEW quote \in Mark,
         r \in [open : BOOLEAN, stop : Int, locked : BOOLEAN, last : Mark, pend : Mark],
         r.last = None => r.pend = None,
         Sell(r, reason, price, quote)
  PROVE  /\ row' \in [open : BOOLEAN, stop : Int, locked : BOOLEAN, last : Mark, pend : Mark]
         /\ row'.last = None => row'.pend = None
         /\ lockedAt' \in Mark /\ retry' \in BOOLEAN
         /\ exit' \in [reason : Reasons, price : Mark, quote : Mark, last : Mark, seen : Mark]
<1>1. row' = [r EXCEPT !.open = FALSE] \/ row' = r
  BY Zenon DEF Sell
<1>2. retry' = retry \/ retry' = TRUE
  BY Zenon DEF Sell
<1>3. \/ exit' = exit
      \/ exit' = [reason |-> reason, price |-> price, quote |-> quote,
                  last |-> row.last, seen |-> seen]
  BY Zenon DEF Sell
<1>4. lockedAt' = lockedAt
  BY Zenon DEF Sell
<1>5. row' \in [open : BOOLEAN, stop : Int, locked : BOOLEAN, last : Mark, pend : Mark]
  BY <1>1
<1>6. row'.last = None => row'.pend = None
  BY <1>1
<1>7. exit' \in [reason : Reasons, price : Mark, quote : Mark, last : Mark, seen : Mark]
  BY <1>3 DEF TypeOK
<1>8. retry' \in BOOLEAN
  BY <1>2, Zenon DEF TypeOK
<1> QED
  BY <1>4, <1>5, <1>6, <1>7, <1>8, Zenon DEF TypeOK

LEMMA TypeStep == TypeOK /\ [Next]_vars => TypeOK'
<1> SUFFICES ASSUME TypeOK, [Next]_vars PROVE TypeOK'
  OBVIOUS
<1> DEFINE RowType == [open : BOOLEAN, stop : Int, locked : BOOLEAN, last : Mark, pend : Mark]
           ExitType == [reason : Reasons, price : Mark, quote : Mark, last : Mark, seen : Mark]
<1>1. ASSUME NEW q \in Quotes, VisitQuoted(q) PROVE TypeOK'
  <2>1. q \in Mark
    BY DEF Mark
  <2>2. plan' \in Plans /\ now' \in Nat /\ seen' \in Mark
    BY <1>1, <2>1 DEF VisitQuoted, Cycle, TypeOK
  <2> DEFINE marked == Marked(q)
             m == marked.last
  <2>3. marked \in RowType /\ m \in Mark /\ m # None
    BY MarkedRow
  <2>4. CASE Reason(m) = "none"
    <3>1. Hold(marked, m)
      BY <1>1, <2>4 DEF VisitQuoted
    <3>2. NewStop(m) \in Int
      BY <2>3, StopRatchets
    <3>3. (marked.locked \/ Locks(m)) \in BOOLEAN
      BY Zenon
    <3>4. row' \in RowType /\ row'.last = m
      <4> HIDE DEF marked
      <4> QED
        BY <2>3, <3>1, <3>2, <3>3 DEF Hold
    <3>5. lockedAt' \in Mark
      BY <2>3, <3>1 DEF Hold, TypeOK
    <3>6. retry' \in BOOLEAN /\ exit' = exit
      BY <3>1, Zenon DEF Hold
    <3> QED
      BY <2>2, <2>3, <3>4, <3>5, <3>6, Zenon DEF TypeOK
  <2>5. CASE Reason(m) # "none"
    <3>1. Sell(marked, Reason(m), m, q)
      BY <1>1, <2>5 DEF VisitQuoted
    <3>2. Reason(m) \in Reasons
      BY <2>3, ReasonType
    <3> HIDE DEF marked
    <3>3. /\ row' \in RowType /\ (row'.last = None => row'.pend = None)
          /\ lockedAt' \in Mark /\ retry' \in BOOLEAN /\ exit' \in ExitType
      BY <2>1, <2>3, <3>1, <3>2, SellType
    <3> QED
      BY <2>2, <3>3, Zenon DEF TypeOK
  <2> QED
    BY <2>4, <2>5
<1>2. CASE VisitStale
  <2>1. plan' \in Plans /\ now' \in Nat /\ seen' \in Mark
    BY <1>2 DEF VisitStale, Cycle, TypeOK
  <2>2. CASE TimeDue /\ row.last # None
    <3>1. Sell(row, "time", row.last, None)
      BY <1>2, <2>2 DEF VisitStale
    <3>2. "time" \in Reasons /\ None \in Mark /\ row.last \in Mark /\ row \in RowType
      BY DEF Reasons, Mark, TypeOK
    <3>3. row.last = None => row.pend = None
      BY DEF TypeOK
    <3>4. /\ row' \in RowType /\ (row'.last = None => row'.pend = None)
          /\ lockedAt' \in Mark /\ retry' \in BOOLEAN /\ exit' \in ExitType
      BY <3>1, <3>2, <3>3, SellType
    <3> QED
      BY <2>1, <3>4, Zenon DEF TypeOK
  <2>3. CASE ~(TimeDue /\ row.last # None)
    BY <1>2, <2>1, <2>3, Zenon DEF VisitStale, TypeOK
  <2> QED
    BY <2>2, <2>3
<1>3. CASE CycleLost
  <2>1. plan' \in Plans /\ now' \in Nat
    BY <1>3 DEF CycleLost, Cycle, TypeOK
  <2> QED
    BY <1>3, <2>1, Zenon DEF CycleLost, TypeOK
<1>4. ASSUME NEW q \in Quotes, SquareOff(q) PROVE TypeOK'
  <2>1. row' \in RowType /\ (row'.last = None => row'.pend = None)
    BY <1>4 DEF SquareOff, TypeOK
  <2>2. exit' \in ExitType
    BY <1>4 DEF SquareOff, TypeOK, Mark, Reasons
  <2> QED
    BY <1>4, <2>1, <2>2, Zenon DEF SquareOff, TypeOK
<1>5. CASE UNCHANGED vars
  BY <1>5, Zenon DEF vars, TypeOK
<1> QED
  BY <1>1, <1>2, <1>3, <1>4, <1>5 DEF Next

(* The row keeps its types, and a mark in quarantine has a confirmed one    *)
(* beside it.                                                               *)
THEOREM TypeCorrect == Spec => []TypeOK
BY TypeInit, TypeStep, PTL DEF Spec

-----------------------------------------------------------------------------
(* No step lowers the stop.                                                 *)
LEMMA StopOnlyRises == Spec => StopNeverLoosens
<1>1. TypeOK /\ [Next]_vars => [row'.stop >= row.stop]_vars
  <2> SUFFICES ASSUME TypeOK, Next PROVE row'.stop >= row.stop
    BY Zenon
  <2>1. row.stop \in Int
    BY DEF TypeOK
  <2>2. ASSUME NEW q \in Quotes, VisitQuoted(q) PROVE row'.stop >= row.stop
    <3> DEFINE marked == Marked(q)
               m == marked.last
    <3>1. marked.stop = row.stop /\ m \in Mark
      BY MarkedRow
    <3>2. \/ row' = [marked EXCEPT !.stop = NewStop(m), !.locked = @ \/ Locks(m)]
          \/ row' = [marked EXCEPT !.open = FALSE]
          \/ row' = marked
      BY <2>2, Zenon DEF VisitQuoted, Hold, Sell
    <3>3. marked \in [open : BOOLEAN, stop : Int, locked : BOOLEAN, last : Mark, pend : Mark]
      BY MarkedRow
    <3>4. NewStop(m) \in Int /\ NewStop(m) >= row.stop
      BY <3>1, StopRatchets
    <3>5. row'.stop = NewStop(m) \/ row'.stop = marked.stop
      <4> HIDE DEF marked, m
      <4> QED
        BY <3>2, <3>3
    <3> QED
      BY <2>1, <3>1, <3>4, <3>5
  <2>3. ASSUME row' = row \/ row' = [row EXCEPT !.open = FALSE] PROVE row'.stop >= row.stop
    BY <2>1, <2>3 DEF TypeOK
  <2>4. VisitStale => row' = row \/ row' = [row EXCEPT !.open = FALSE]
    BY Zenon DEF VisitStale, Sell
  <2>5. CycleLost => row' = row
    BY Zenon DEF CycleLost
  <2>6. \A q \in Quotes : SquareOff(q) => row' = [row EXCEPT !.open = FALSE]
    BY Zenon DEF SquareOff
  <2> QED
    BY <2>2, <2>3, <2>4, <2>5, <2>6, Zenon DEF Next
<1> QED
  BY <1>1, TypeCorrect, PTL DEF Spec, StopNeverLoosens

-----------------------------------------------------------------------------
(* A position that no exit closes is left between its levels.               *)
LEMMA HoldInside ==
  ASSUME TypeOK, NEW m \in Mark, Reason(m) = "none"
  PROVE  NewStop(m) < m /\ m < plan.target
<1>1. ~(m <= NewStop(m)) /\ ~(m >= plan.target)
  BY DEF Reason, Stopped
<1>2. NewStop(m) \in Int
  BY StopRatchets
<1>3. m \in Int /\ plan.target \in Int
  BY ExitAssumption DEF ExitAssumption, TypeOK, Mark, None
<1> QED
  BY <1>1, <1>2, <1>3

(* Whatever quotes come, be they missing, bad or good, and whatever fails, *)
(* a held position is strictly between its stop and its target.            *)
THEOREM HeldBetweenLevels == Spec => []HeldInsideBand
<1>1. Init => HeldInsideBand
  BY DEF Init, HeldInsideBand
<1>2. TypeOK /\ HeldInsideBand /\ [Next]_vars => HeldInsideBand'
  <2> SUFFICES ASSUME TypeOK, HeldInsideBand, [Next]_vars PROVE HeldInsideBand'
    OBVIOUS
  <2>1. ASSUME NEW q \in Quotes, VisitQuoted(q) PROVE HeldInsideBand'
    <3> DEFINE marked == Marked(q)
               m == marked.last
    <3>1. /\ marked \in [open : BOOLEAN, stop : Int, locked : BOOLEAN, last : Mark, pend : Mark]
          /\ m \in Mark
      BY MarkedRow
    <3>2. plan' = plan
      BY <2>1, Zenon DEF VisitQuoted, Cycle
    <3>3. CASE Reason(m) = "none"
      <4>1. row' = [marked EXCEPT !.stop = NewStop(m), !.locked = @ \/ Locks(m)]
        BY <2>1, <3>3, Zenon DEF VisitQuoted, Hold
      <4>2. NewStop(m) < m /\ m < plan.target
        BY <3>1, <3>3, HoldInside
      <4>3. row'.stop = NewStop(m) /\ row'.last = m
        <5> HIDE DEF marked
        <5> QED
          BY <3>1, <4>1
      <4> QED
        BY <3>2, <4>2, <4>3 DEF HeldInsideBand
    <3>4. CASE Reason(m) # "none"
      <4>1. row' = [marked EXCEPT !.open = FALSE] \/ retry' = TRUE
        BY <2>1, <3>4, Zenon DEF VisitQuoted, Sell
      <4>2. row'.open = FALSE \/ retry' = TRUE
        <5> HIDE DEF marked
        <5> QED
          BY <3>1, <4>1
      <4> QED
        BY <4>2, Zenon DEF HeldInsideBand
    <3> QED
      BY <3>3, <3>4
  <2>2. CASE VisitStale
    <3>1. \/ row' = [row EXCEPT !.open = FALSE]
          \/ retry' = TRUE
          \/ row' = row /\ retry' = retry /\ plan' = plan
      BY <2>2, Zenon DEF VisitStale, Sell, Cycle
    <3> QED
      BY <3>1 DEF HeldInsideBand, TypeOK
  <2>3. CASE CycleLost
    BY <2>3, Zenon DEF CycleLost, Cycle, HeldInsideBand
  <2>4. ASSUME NEW q \in Quotes, SquareOff(q) PROVE HeldInsideBand'
    BY <2>4 DEF SquareOff, HeldInsideBand, TypeOK
  <2>5. CASE UNCHANGED vars
    BY <2>5, Zenon DEF vars, HeldInsideBand
  <2> QED
    BY <2>1, <2>2, <2>3, <2>4, <2>5, Zenon DEF Next
<1> QED
  BY <1>1, <1>2, TypeCorrect, PTL DEF Spec

-----------------------------------------------------------------------------
(* What makes PriceExitIsVouched inductive: a mark in quarantine is the     *)
(* very last reading.                                                       *)
VouchedInv ==
  /\ row.open => exit.reason = "none"
  /\ row.pend # None => row.pend = seen
  /\ PriceExitIsVouched

(* A visit that sells on a price sells on one that is vouched for.          *)
LEMMA VouchedMark ==
  ASSUME TypeOK, VouchedInv, NEW q \in Quotes
  PROVE  \/ row.last = None
         \/ Near(Marked(q).last, row.last, JumpPct)
         \/ Near(Marked(q).last, seen, ConfirmPct)
<1>1. CASE Accept(q)
  <2>1. Marked(q).last = q
    BY <1>1, MarkedRow
  <2>2. Near(q, row.pend, ConfirmPct) => row.pend # None
    BY DEF Near
  <2> QED
    BY <1>1, <2>1, <2>2, Zenon DEF Accept, VouchedInv
<1>2. CASE ~Accept(q)
  <2>1. Marked(q).last = row.last
    BY <1>2, MarkedRow
  <2>2. row.last # None => Near(row.last, row.last, JumpPct)
    <3>1. row.last # None => row.last \in Nat \ {None}
      BY ExitAssumption DEF ExitAssumption, TypeOK, Mark
    <3>2. JumpPct \in Nat
      BY ExitAssumption DEF ExitAssumption
    <3> QED
      BY <3>1, <3>2, NearItself
  <2> QED
    BY <2>1, <2>2, Zenon
<1> QED
  BY <1>1, <1>2

(* No quote closes a position on its own: a price exit is near the mark     *)
(* confirmed before it or near the reading right before it, through lost    *)
(* cycles, missing quotes and failed sales.                                 *)
THEOREM ExitsAreVouched == Spec => []PriceExitIsVouched
<1>1. Init => VouchedInv
  BY DEF Init, VouchedInv, PriceExitIsVouched, PriceExits
<1>2. TypeOK /\ VouchedInv /\ [Next]_vars => VouchedInv'
  <2> SUFFICES ASSUME TypeOK, VouchedInv, [Next]_vars PROVE VouchedInv'
    OBVIOUS
  <2>0. "none" \notin PriceExits /\ "time" \notin PriceExits /\ "manual" \notin PriceExits
    BY DEF PriceExits
  <2>1. ASSUME NEW q \in Quotes, VisitQuoted(q) PROVE VouchedInv'
    <3> DEFINE marked == Marked(q)
               m == marked.last
    <3>1. /\ marked \in [open : BOOLEAN, stop : Int, locked : BOOLEAN, last : Mark, pend : Mark]
          /\ marked.open = row.open
          /\ marked.pend # None => marked.pend = q
      BY MarkedRow
    <3>2. seen' = q /\ row.open
      BY <2>1, Zenon DEF VisitQuoted, Cycle
    <3>3. \/ row' = [marked EXCEPT !.stop = NewStop(m), !.locked = @ \/ Locks(m)] /\ exit' = exit
          \/ row' = marked /\ exit' = exit
          \/ /\ row' = [marked EXCEPT !.open = FALSE]
             /\ exit' = [reason |-> Reason(m), price |-> m, quote |-> q,
                         last |-> row.last, seen |-> seen]
      BY <2>1, Zenon DEF VisitQuoted, Hold, Sell
    <3>4. row'.pend = marked.pend
      <4> HIDE DEF marked, m
      <4> QED
        BY <3>1, <3>3
    <3>5. CASE exit' = exit
      BY <3>1, <3>2, <3>4, <3>5, Zenon DEF VouchedInv, PriceExitIsVouched
    <3>6. CASE /\ row' = [marked EXCEPT !.open = FALSE]
               /\ exit' = [reason |-> Reason(m), price |-> m, quote |-> q,
                           last |-> row.last, seen |-> seen]
      <4>1. exit'.price = m /\ exit'.last = row.last /\ exit'.seen = seen
        <5> HIDE DEF marked, m
        <5> QED
          BY <3>6
      <4>2. ~row'.open
        <5> HIDE DEF marked, m
        <5> QED
          BY <3>1, <3>6
      <4>3. PriceExitIsVouched'
        BY <4>1, VouchedMark, Zenon DEF PriceExitIsVouched
      <4> QED
        BY <3>1, <3>2, <3>4, <4>2, <4>3, Zenon DEF VouchedInv
    <3> QED
      BY <3>3, <3>5, <3>6, Zenon
  <2>2. CASE VisitStale
    <3>1. row.open /\ seen' = seen
      BY <2>2, Zenon DEF VisitStale, Cycle
    <3>2. \/ row' = row /\ exit' = exit
          \/ /\ row' = [row EXCEPT !.open = FALSE]
             /\ exit' = [reason |-> "time", price |-> row.last, quote |-> None,
                         last |-> row.last, seen |-> seen]
      BY <2>2, Zenon DEF VisitStale, Sell
    <3>3. CASE row' = row /\ exit' = exit
      BY <3>1, <3>3, Zenon DEF VouchedInv, PriceExitIsVouched
    <3>4. CASE /\ row' = [row EXCEPT !.open = FALSE]
               /\ exit' = [reason |-> "time", price |-> row.last, quote |-> None,
                           last |-> row.last, seen |-> seen]
      <4>1. exit'.reason = "time" /\ row'.pend = row.pend /\ ~row'.open
        BY <3>4 DEF TypeOK
      <4> QED
        BY <2>0, <3>1, <4>1, Zenon DEF VouchedInv, PriceExitIsVouched
    <3> QED
      BY <3>2, <3>3, <3>4
  <2>3. CASE CycleLost
    BY <2>3, Zenon DEF CycleLost, VouchedInv, PriceExitIsVouched
  <2>4. ASSUME NEW q \in Quotes, SquareOff(q) PROVE VouchedInv'
    <3>1. exit'.reason = "manual" /\ row'.pend = row.pend /\ ~row'.open /\ seen' = seen
      BY <2>4 DEF SquareOff, TypeOK
    <3> QED
      BY <2>0, <3>1, Zenon DEF VouchedInv, PriceExitIsVouched
  <2>5. CASE UNCHANGED vars
    BY <2>5, Zenon DEF vars, VouchedInv, PriceExitIsVouched
  <2> QED
    BY <2>1, <2>2, <2>3, <2>4, <2>5, Zenon DEF Next
<1>3. VouchedInv => PriceExitIsVouched
  BY DEF VouchedInv
<1> QED
  BY <1>1, <1>2, <1>3, TypeCorrect, PTL DEF Spec

-----------------------------------------------------------------------------
(* A held position judged again by the mark it was held at is held again:   *)
(* neither ratchet reaches the mark, when the lock's buffer is not nothing. *)
LEMMA HeldStaysHeld ==
  ASSUME TypeOK, NEW m \in Mark, m # None,
         \A p \in Plans, q \in Quotes : q * p.buffer >= 100,
         row.stop < m, m < plan.target
  PROVE  Reason(m) \notin PriceExits
<1>1. /\ plan.trail \in Nat /\ plan.buffer \in Nat /\ plan.target \in Nat
      /\ m \in Nat /\ row.stop \in Int
  BY ExitAssumption DEF ExitAssumption, TypeOK, Mark, None
<1>2. Trailed(m) < m /\ Trailed(m) \in Int
  BY <1>1 DEF Trailed, Trails, Larger, None
<1>3. PctOf(m, plan.buffer) >= 1 /\ PctOf(m, plan.buffer) \in Int
  <2>1. m * plan.buffer >= 100 /\ m * plan.buffer \in Nat
    BY <1>1 DEF Mark, TypeOK
  <2> QED
    BY <2>1 DEF PctOf
<1>4. NewStop(m) < m /\ NewStop(m) \in Int
  BY <1>1, <1>2, <1>3 DEF NewStop, Larger
<1>5. ~Stopped(m) /\ ~(m >= plan.target)
  BY <1>1, <1>4 DEF Stopped
<1> QED
  BY <1>5 DEF Reason, PriceExits

(* Unless its SELL had failed before, a price exit sells at the price just  *)
(* read, although a quote in quarantine is judged by an older mark.         *)
THEOREM ExitsAreFresh ==
  ASSUME \A p \in Plans, q \in Quotes : q * p.buffer >= 100
  PROVE  Spec => []PriceExitIsFresh
<1>1. Init => (row.open => exit.reason = "none") /\ PriceExitIsFresh
  BY DEF Init, PriceExitIsFresh, PriceExits
<1>2. /\ TypeOK /\ HeldInsideBand /\ (row.open => exit.reason = "none") /\ PriceExitIsFresh
      /\ [Next]_vars
      => (row.open => exit.reason = "none")' /\ PriceExitIsFresh'
  <2> SUFFICES ASSUME TypeOK, HeldInsideBand, row.open => exit.reason = "none",
                      PriceExitIsFresh, [Next]_vars
               PROVE  (row.open => exit.reason = "none")' /\ PriceExitIsFresh'
    OBVIOUS
  <2>0. /\ "none" \notin PriceExits /\ "time" \notin PriceExits /\ "manual" \notin PriceExits
    BY DEF PriceExits
  <2>1. ASSUME NEW q \in Quotes, VisitQuoted(q)
        PROVE  (row.open => exit.reason = "none")' /\ PriceExitIsFresh'
    <3> DEFINE marked == Marked(q)
               m == marked.last
    <3>1. /\ marked \in [open : BOOLEAN, stop : Int, locked : BOOLEAN, last : Mark, pend : Mark]
          /\ m \in Mark /\ m # None
      BY MarkedRow
    <3>2. row.open
      BY <2>1, Zenon DEF VisitQuoted, Cycle
    <3>3. CASE exit' = exit
      BY <2>0, <3>2, <3>3, Zenon DEF PriceExitIsFresh
    <3>4. CASE exit' # exit
      <4>1. /\ row' = [marked EXCEPT !.open = FALSE]
            /\ exit' = [reason |-> Reason(m), price |-> m, quote |-> q,
                        last |-> row.last, seen |-> seen]
            /\ retry' = retry
        BY <2>1, <3>4, Zenon DEF VisitQuoted, Hold, Sell
      <4>2. ~row'.open /\ exit'.reason = Reason(m) /\ exit'.price = m /\ exit'.quote = q
        <5> HIDE DEF marked, m
        <5> QED
          BY <3>1, <4>1
      <4>3. CASE Accept(q)
        <5>1. m = q
          BY <4>3, MarkedRow
        <5> QED
          BY <4>2, <5>1, Zenon DEF PriceExitIsFresh
      <4>4. CASE ~Accept(q) /\ ~retry
        <5>1. m = row.last
          BY <4>4, MarkedRow
        <5>2. row.stop < m /\ m < plan.target
          BY <3>1, <3>2, <4>4, <5>1 DEF HeldInsideBand
        <5>3. Reason(m) \notin PriceExits
          <6> HIDE DEF marked, m
          <6> QED
            BY <3>1, <5>2, HeldStaysHeld
        <5> QED
          BY <4>2, <5>3, Zenon DEF PriceExitIsFresh
      <4>5. CASE retry
        BY <4>1, <4>2, <4>5, Zenon DEF PriceExitIsFresh
      <4> QED
        BY <4>3, <4>4, <4>5
    <3> QED
      BY <3>3, <3>4
  <2>2. CASE VisitStale
    <3>1. row.open
      BY <2>2, Zenon DEF VisitStale, Cycle
    <3>2. \/ exit' = exit
          \/ /\ row' = [row EXCEPT !.open = FALSE]
             /\ exit' = [reason |-> "time", price |-> row.last, quote |-> None,
                         last |-> row.last, seen |-> seen]
      BY <2>2, Zenon DEF VisitStale, Sell
    <3>3. CASE exit' = exit
      BY <2>0, <3>1, <3>3, Zenon DEF PriceExitIsFresh
    <3>4. CASE exit' # exit
      <4>1. exit'.reason = "time" /\ ~row'.open
        BY <3>2, <3>4 DEF TypeOK
      <4> QED
        BY <2>0, <4>1, Zenon DEF PriceExitIsFresh
    <3> QED
      BY <3>3, <3>4
  <2>3. CASE CycleLost \/ UNCHANGED vars
    BY <2>3, Zenon DEF CycleLost, vars, PriceExitIsFresh
  <2>4. ASSUME NEW q \in Quotes, SquareOff(q)
        PROVE  (row.open => exit.reason = "none")' /\ PriceExitIsFresh'
    <3>1. exit'.reason = "manual" /\ ~row'.open
      BY <2>4 DEF SquareOff, TypeOK
    <3> QED
      BY <2>0, <3>1, Zenon DEF PriceExitIsFresh
  <2> QED
    BY <2>1, <2>2, <2>3, <2>4, Zenon DEF Next
<1> QED
  BY <1>1, <1>2, TypeCorrect, HeldBetweenLevels, PTL DEF Spec

-----------------------------------------------------------------------------
(* The clock's exit comes first: at the first visit past either deadline a  *)
(* position with a mark is closed, or its SELL has failed.                  *)
LEMMA ClockCloses == Spec => TimeExitFires
<1>1. TypeOK /\ [Next]_vars =>
        [/\ VisitStale \/ \E q \in Quotes : VisitQuoted(q)
         /\ TimeDue /\ row'.last # None
         => ~row'.open \/ retry']_vars
  <2> SUFFICES ASSUME TypeOK, VisitStale \/ \E q \in Quotes : VisitQuoted(q),
                      TimeDue, row'.last # None
               PROVE  ~row'.open \/ retry'
    BY Zenon
  <2>1. CASE VisitStale
    <3>1. \/ row' = [row EXCEPT !.open = FALSE]
          \/ retry' = TRUE
          \/ row' = row /\ row.last = None
      BY <2>1, Zenon DEF VisitStale, Sell
    <3> QED
      BY <3>1 DEF TypeOK
  <2>2. ASSUME NEW q \in Quotes, VisitQuoted(q) PROVE ~row'.open \/ retry'
    <3> DEFINE marked == Marked(q)
               m == marked.last
    <3>1. Reason(m) # "none"
      BY DEF Reason
    <3>2. row' = [marked EXCEPT !.open = FALSE] \/ retry' = TRUE
      BY <2>2, <3>1, Zenon DEF VisitQuoted, Sell
    <3>3. marked \in [open : BOOLEAN, stop : Int, locked : BOOLEAN, last : Mark, pend : Mark]
      BY MarkedRow
    <3> HIDE DEF marked
    <3> QED
      BY <3>2, <3>3
  <2> QED
    BY <2>1, <2>2
<1> QED
  BY <1>1, TypeCorrect, PTL DEF Spec, TimeExitFires

-----------------------------------------------------------------------------
(* What two readings in a row rest on: the last reading is the confirmed    *)
(* mark, or it is the one in quarantine; and no ratchet has moved the stop  *)
(* below the one the plan began with.                                       *)
ReadingInv ==
  /\ row.stop >= plan.stop
  /\ seen # None => IF row.pend = None THEN row.last = seen ELSE row.pend = seen

LEMMA ReadingStep == TypeOK /\ ReadingInv /\ [Next]_vars => ReadingInv'
<1> SUFFICES ASSUME TypeOK, ReadingInv, [Next]_vars PROVE ReadingInv'
  OBVIOUS
<1>0. row.stop \in Int /\ plan.stop \in Int
  BY ExitAssumption DEF ExitAssumption, TypeOK
<1>1. ASSUME NEW q \in Quotes, VisitQuoted(q) PROVE ReadingInv'
  <2> DEFINE marked == Marked(q)
             m == marked.last
  <2>1. /\ marked \in [open : BOOLEAN, stop : Int, locked : BOOLEAN, last : Mark, pend : Mark]
        /\ m \in Mark /\ marked.stop = row.stop
        /\ IF marked.pend = None THEN marked.last = q ELSE marked.pend = q
    <3>1. None \notin Quotes
      BY ExitAssumption DEF ExitAssumption
    <3> QED
      BY <3>1, MarkedRow
  <2>2. seen' = q /\ plan' = plan
    BY <1>1, Zenon DEF VisitQuoted, Cycle
  <2>3. \/ row' = [marked EXCEPT !.stop = NewStop(m), !.locked = @ \/ Locks(m)]
        \/ row' = [marked EXCEPT !.open = FALSE]
        \/ row' = marked
    BY <1>1, Zenon DEF VisitQuoted, Hold, Sell
  <2>4. NewStop(m) \in Int /\ NewStop(m) >= row.stop
    BY <2>1, StopRatchets
  <2>5. /\ row'.stop = NewStop(m) \/ row'.stop = marked.stop
        /\ row'.last = marked.last /\ row'.pend = marked.pend
    <3> HIDE DEF marked, m
    <3> QED
      BY <2>1, <2>3
  <2>6. row'.stop >= plan'.stop
    BY <1>0, <2>1, <2>2, <2>4, <2>5 DEF ReadingInv
  <2> QED
    BY <2>1, <2>2, <2>5, <2>6, Zenon DEF ReadingInv
<1>2. ASSUME row' = row \/ row' = [row EXCEPT !.open = FALSE], UNCHANGED <<plan, seen>>
      PROVE  ReadingInv'
  <2>1. row'.stop = row.stop /\ row'.last = row.last /\ row'.pend = row.pend
    BY <1>2 DEF TypeOK
  <2> QED
    BY <1>2, <2>1, Zenon DEF ReadingInv
<1>3. VisitStale \/ CycleLost \/ (\E q \in Quotes : SquareOff(q)) \/ UNCHANGED vars =>
        /\ row' = row \/ row' = [row EXCEPT !.open = FALSE]
        /\ UNCHANGED <<plan, seen>>
  BY Zenon DEF VisitStale, Sell, Cycle, CycleLost, SquareOff, vars
<1> QED
  BY <1>1, <1>2, <1>3, Zenon DEF Next

LEMMA ReadingKept == Spec => []ReadingInv
<1>1. Init => ReadingInv
  <2> SUFFICES ASSUME Init PROVE ReadingInv
    OBVIOUS
  <2>1. plan.stop \in Int
    BY ExitAssumption DEF ExitAssumption, Init
  <2> QED
    BY <2>1 DEF Init, ReadingInv
<1> QED
  BY <1>1, ReadingStep, TypeCorrect, PTL DEF Spec

(* A mark past a barrier of the plan never leaves the position held.        *)
LEMMA PastBarrierFires ==
  ASSUME TypeOK, ReadingInv, NEW m \in Mark, PastBarrier(m)
  PROVE  Reason(m) # "none"
<1>1. /\ row.stop \in Int /\ plan.stop \in Int /\ plan.target \in Int /\ m \in Int
      /\ NewStop(m) \in Int /\ NewStop(m) >= row.stop /\ row.stop >= plan.stop
  BY ExitAssumption, StopRatchets DEF ExitAssumption, TypeOK, Mark, None, ReadingInv
<1>2. m >= plan.target \/ Stopped(m)
  BY <1>1 DEF PastBarrier, Stopped
<1> QED
  BY <1>2, Zenon DEF Reason

(* A breakout two readings in a row agree on closes the position, whatever  *)
(* was quarantined, lost or unsold before them.                             *)
LEMMA BreakoutsClose == Spec => AgreedBreakoutCloses
<1>1. TypeOK /\ ReadingInv /\ [Next]_vars =>
        [\A q \in Quotes :
           /\ VisitQuoted(q) /\ PastBarrier(q)
           /\ seen # None /\ PastBarrier(seen) /\ Near(q, seen, ConfirmPct)
           => ~row'.open \/ retry']_vars
  <2> SUFFICES ASSUME TypeOK, ReadingInv, NEW q \in Quotes,
                      VisitQuoted(q), PastBarrier(q),
                      seen # None, PastBarrier(seen), Near(q, seen, ConfirmPct)
               PROVE  ~row'.open \/ retry'
    BY Zenon
  <2> DEFINE marked == Marked(q)
             m == marked.last
  <2>1. marked \in [open : BOOLEAN, stop : Int, locked : BOOLEAN, last : Mark, pend : Mark]
    BY MarkedRow
  <2>2. m = q \/ m = seen
    <3>1. CASE Accept(q)
      BY <3>1, MarkedRow
    <3>2. CASE ~Accept(q)
      <4>1. row.pend = None
        BY <3>2, Zenon DEF Accept, ReadingInv
      <4> QED
        BY <3>2, <4>1, MarkedRow, Zenon DEF ReadingInv
    <3> QED
      BY <3>1, <3>2
  <2>3. m \in Mark /\ PastBarrier(m)
    BY <2>1, <2>2, Zenon
  <2>4. Reason(m) # "none"
    <3> HIDE DEF marked, m
    <3> QED
      BY <2>3, PastBarrierFires
  <2>5. row' = [marked EXCEPT !.open = FALSE] \/ retry' = TRUE
    BY <2>4, Zenon DEF VisitQuoted, Sell
  <2> HIDE DEF marked
  <2> QED
    BY <2>1, <2>5
<1> QED
  BY <1>1, TypeCorrect, ReadingKept, PTL DEF Spec, AgreedBreakoutCloses

-----------------------------------------------------------------------------
(* Truncating a quotient loses less than one divisor.                       *)
LEMMA Truncated ==
  ASSUME NEW n \in Int, NEW d \in Nat \ {0}
  PROVE  n \div d \in Int /\ d * (n \div d) <= n /\ n < d * (n \div d) + d
OBVIOUS

(* The rung above a stop that holds back no more than the buffer is a full  *)
(* step above the mark that stop came from, up to the truncation.           *)
LEMMA RungArithmetic ==
  ASSUME NEW entry \in Nat \ {0}, NEW lockAt \in Nat, NEW b \in 1 .. 99,
         NEW l \in Nat, NEW stop \in Int, NEW m \in Nat,
         stop >= l - PctOf(l, b),
         m >= (stop * 100 * lockAt) \div ((100 - b) * entry)
  PROVE  (m + 1) * entry > l * lockAt
<1> DEFINE c == 100 - b
<1>1. c \in Nat \ {0}
  OBVIOUS
<1>2. c * entry \in Nat \ {0}
  BY <1>1
<1>3. 100 * stop >= c * l
  <2>1. 100 * PctOf(l, b) <= l * b /\ PctOf(l, b) \in Int
    BY DEF PctOf
  <2>2. c * l = 100 * l - l * b
    OBVIOUS
  <2>3. l * b \in Int
    OBVIOUS
  <2> QED
    BY <2>1, <2>2, <2>3
<1> HIDE DEF c
<1> DEFINE n == stop * 100 * lockAt
           d == c * entry
<1>4. n \in Int /\ n < d * (n \div d) + d /\ n \div d \in Int
  <2>1. n \in Int /\ d \in Nat \ {0}
    BY <1>2
  <2> HIDE DEF n, d
  <2> QED
    BY <2>1, Truncated
<1>5. m >= n \div d
  BY DEF c
<1>6. n < d * m + d
  <2> HIDE DEF n, d
  <2>1. d * m >= d * (n \div d)
    BY <1>2, <1>4, <1>5 DEF d
  <2>2. d * m \in Int /\ d * (n \div d) \in Int /\ d \in Int
    BY <1>2, <1>4 DEF d
  <2> QED
    BY <1>4, <2>1, <2>2
<1>7. n >= c * l * lockAt
  <2>1. n = (100 * stop) * lockAt
    OBVIOUS
  <2>2. 100 * stop \in Int /\ c * l \in Int
    BY <1>1
  <2> HIDE DEF n
  <2> QED
    BY <1>3, <2>1, <2>2
<1>8. c * (l * lockAt) < c * ((m + 1) * entry)
  <2>1. d * m + d = c * ((m + 1) * entry) /\ c * l * lockAt = c * (l * lockAt)
    BY <1>1
  <2>2. /\ c * ((m + 1) * entry) \in Int /\ c * (l * lockAt) \in Int
    BY <1>1
  <2> HIDE DEF n, d
  <2> QED
    BY <1>4, <1>6, <1>7, <2>1, <2>2
<1> QED
  BY <1>1, <1>8

(* What LockNeedsAFullStep rests on: once the lock has fired, the row says  *)
(* so, and its stop holds back no more than the buffer below that mark.     *)
LockInv ==
  lockedAt # None =>
    row.locked /\ row.stop >= lockedAt - PctOf(lockedAt, plan.buffer)

LEMMA LockStep == TypeOK /\ LockInv /\ [Next]_vars => LockInv'
<1> SUFFICES ASSUME TypeOK, LockInv, [Next]_vars PROVE LockInv'
  OBVIOUS
<1>0. /\ row.stop \in Int /\ lockedAt \in Nat /\ plan.buffer \in Nat
      /\ PctOf(lockedAt, plan.buffer) \in Int
  BY ExitAssumption DEF ExitAssumption, TypeOK, Mark, None, PctOf
<1>1. ASSUME NEW q \in Quotes, VisitQuoted(q) PROVE LockInv'
  <2> DEFINE marked == Marked(q)
             m == marked.last
  <2>1. /\ marked \in [open : BOOLEAN, stop : Int, locked : BOOLEAN, last : Mark, pend : Mark]
        /\ m \in Mark /\ marked.stop = row.stop /\ marked.locked = row.locked
    BY MarkedRow
  <2>2. plan' = plan
    BY <1>1, Zenon DEF VisitQuoted, Cycle
  <2>3. NewStop(m) \in Int /\ NewStop(m) >= row.stop
    BY <2>1, StopRatchets
  <2>4. CASE Reason(m) = "none"
    <3>1. /\ row' = [marked EXCEPT !.stop = NewStop(m), !.locked = @ \/ Locks(m)]
          /\ lockedAt' = IF Locks(m) THEN m ELSE lockedAt
      BY <1>1, <2>4, Zenon DEF VisitQuoted, Hold
    <3>2. row'.stop = NewStop(m) /\ row'.locked = (row.locked \/ Locks(m))
      <4> HIDE DEF marked, m
      <4> QED
        BY <2>1, <3>1
    <3>3. CASE Locks(m)
      <4> HIDE DEF marked, m
      <4>0. m \in Int /\ plan.trail \in Int
        BY <2>1, ExitAssumption DEF ExitAssumption, TypeOK, Mark, None
      <4>1. PctOf(m, plan.buffer) \in Int /\ Trailed(m) \in Int
        BY <1>0, <4>0 DEF PctOf, Trailed, Larger
      <4>2. NewStop(m) >= m - PctOf(m, plan.buffer)
        BY <3>3, <4>0, <4>1 DEF NewStop, Larger
      <4> QED
        BY <2>2, <3>1, <3>2, <3>3, <4>2 DEF LockInv
    <3>4. CASE ~Locks(m)
      <4> HIDE DEF m
      <4>1. lockedAt' = lockedAt /\ (row.locked => row'.locked)
        BY <3>1, <3>2, <3>4
      <4> QED
        BY <1>0, <2>2, <2>3, <3>2, <4>1 DEF LockInv
    <3> QED
      BY <3>3, <3>4
  <2>5. CASE Reason(m) # "none"
    <3>1. /\ row' = [marked EXCEPT !.open = FALSE] \/ row' = marked
          /\ lockedAt' = lockedAt
      BY <1>1, <2>5, Zenon DEF VisitQuoted, Sell
    <3>2. row'.stop = row.stop /\ row'.locked = row.locked
      <4> HIDE DEF marked
      <4> QED
        BY <2>1, <3>1
    <3> QED
      BY <2>2, <3>1, <3>2, Zenon DEF LockInv
  <2> QED
    BY <2>4, <2>5
<1>2. ASSUME row' = row \/ row' = [row EXCEPT !.open = FALSE], UNCHANGED <<plan, lockedAt>>
      PROVE  LockInv'
  <2>1. row'.stop = row.stop /\ row'.locked = row.locked
    BY <1>2 DEF TypeOK
  <2> QED
    BY <1>2, <2>1, Zenon DEF LockInv
<1>3. VisitStale \/ CycleLost \/ (\E q \in Quotes : SquareOff(q)) \/ UNCHANGED vars =>
        /\ row' = row \/ row' = [row EXCEPT !.open = FALSE]
        /\ UNCHANGED <<plan, lockedAt>>
  BY Zenon DEF VisitStale, Sell, Cycle, CycleLost, SquareOff, vars
<1> QED
  BY <1>1, <1>2, <1>3, Zenon DEF Next

(* The lock fires again only a full step above the mark it last fired at:   *)
(* a stop that trails or was locked higher only asks for more.              *)
LEMMA LocksAFullStepApart == Spec => LockNeedsAFullStep
<1>1. Init => LockInv
  BY DEF Init, LockInv
<1>2. TypeOK /\ LockInv /\ [Next]_vars =>
        [lockedAt # None /\ lockedAt' # lockedAt =>
           (lockedAt' + 1) * plan.entry > lockedAt * plan.lockAt]_vars
  <2> SUFFICES ASSUME TypeOK, LockInv, Next, lockedAt # None, lockedAt' # lockedAt
               PROVE  (lockedAt' + 1) * plan.entry > lockedAt * plan.lockAt
    BY Zenon
  <2>1. PICK q \in Quotes : VisitQuoted(q)
    BY Zenon DEF Next, VisitStale, Sell, CycleLost, SquareOff
  <2> DEFINE m == Marked(q).last
  <2>2. m \in Mark /\ Locks(m) /\ lockedAt' = m
    <3>1. lockedAt' = IF Locks(m) THEN m ELSE lockedAt
      BY <2>1, Zenon DEF VisitQuoted, Hold, Sell
    <3> QED
      BY <3>1, MarkedRow
  <2>3. m >= (row.stop * 100 * plan.lockAt) \div ((100 - plan.buffer) * plan.entry)
    BY <2>2, Zenon DEF Locks, Rung, LockInv
  <2>4. /\ plan.entry \in Nat \ {0} /\ plan.lockAt \in Nat /\ plan.buffer \in 1 .. 99
        /\ lockedAt \in Nat /\ row.stop \in Int /\ m \in Nat
    <3>1. plan \in Plans /\ PlanOK(plan) /\ row.stop \in Int
      BY ExitAssumption DEF ExitAssumption, TypeOK
    <3>2. /\ plan.entry \in Nat /\ plan.stop \in Nat /\ plan.lockAt \in Nat
          /\ plan.stop < plan.entry /\ plan.buffer \in 1 .. 99
      BY <3>1, ExitAssumption DEF ExitAssumption, PlanOK
    <3>3. Mark \subseteq Nat
      BY ExitAssumption DEF ExitAssumption, Mark, None
    <3>4. lockedAt \in Nat /\ m \in Nat
      BY <2>2, <3>3, Zenon DEF TypeOK
    <3> HIDE DEF m
    <3> QED
      BY <3>1, <3>2, <3>4
  <2>5. row.stop >= lockedAt - PctOf(lockedAt, plan.buffer)
    BY Zenon DEF LockInv
  <2> HIDE DEF m
  <2>6. (m + 1) * plan.entry > lockedAt * plan.lockAt
    BY <2>3, <2>4, <2>5, RungArithmetic
  <2> QED
    BY <2>2, <2>6
<1> QED
  BY <1>1, <1>2, LockStep, TypeCorrect, PTL DEF Spec, LockNeedsAFullStep

(* For any plan and quotes the stop only rises, and the lock raises it      *)
(* again only a full step above the price it last fired at.                 *)
THEOREM StopIsRatcheted == Spec => StopIsARatchet
BY StopOnlyRises, LocksAFullStepApart DEF StopIsARatchet

(* For any plan, quotes and filter an exit that is due is taken: a breakout *)
(* two readings agree on, and the clock's.                                  *)
THEOREM DueExitsAreTaken == Spec => DueExitsFire
BY ClockCloses, BreakoutsClose DEF DueExitsFire
=============================================================================
