------------------------------- MODULE Approvals -------------------------------
(***************************************************************************)
(* The approval of a single trade (engine/approvals.py): a row that waits  *)
(* for a human, decided or expired by requests (api/routers/approvals.py). *)
(*                                                                         *)
(* A request takes its clock, reads rows, and commits what it changed.     *)
(* Nothing locks a row between the read and the commit: the last commit    *)
(* wins, whatever the row has become in between.                           *)
(***************************************************************************)
EXTENDS Naturals

CONSTANTS Ids, Requests, Ttl, MaxTime

ASSUME ApprovalAssumption == Ttl \in Nat \ {0} /\ MaxTime \in Nat

Final == {"approved", "rejected", "expired"}
Statuses == {"unknown", "pending"} \cup Final
Decisions == [approve |-> "approved", reject |-> "rejected"]

VARIABLES
  status, expires,  \* of each row
  clock,
  handler,          \* what each request is doing
  crossed           \* rows that another request committed between a read and its commit

approvalVars == <<status, expires, clock, handler, crossed>>

Idle == [at |-> "idle"]

ApprovalInit ==
  /\ status = [i \in Ids |-> "unknown"] /\ expires = [i \in Ids |-> 0]
  /\ clock = 0
  /\ handler = [r \in Requests |-> Idle]
  /\ crossed = {}

Create(i) ==
  /\ status[i] = "unknown"
  /\ status' = [status EXCEPT ![i] = "pending"]
  /\ expires' = [expires EXCEPT ![i] = clock + Ttl]
  /\ UNCHANGED <<clock, handler, crossed>>

Overdue(i, now) == expires[i] <= now

(* decide: what the row becomes; what is no longer pending stays.           *)
DecidedAgain(i, d, now) == IF Overdue(i, now) THEN "expired" ELSE Decisions[d]
Decided(i, d, now) ==
  IF status[i] # "pending" THEN status[i] ELSE IF Overdue(i, now) THEN "expired" ELSE Decisions[d]

Arrives(r) ==
  /\ handler[r].at = "idle"
  /\ handler' = [handler EXCEPT ![r] = [at |-> "begun", now |-> clock]]
  /\ UNCHANGED <<status, expires, clock, crossed>>

(* The changes a request has made to rows as it read them.                  *)
Reads(r, writes) ==
  /\ handler' = [handler EXCEPT ![r] = [at |-> "read", now |-> handler[r].now,
                   writes |-> {w \in writes : w.to # status[w.id]}]]
  /\ UNCHANGED <<status, expires, clock, crossed>>

Decide(r, i, d) ==
  /\ handler[r].at = "begun" /\ status[i] # "unknown"
  /\ Reads(r, {[id |-> i, to |-> Decided(i, d, handler[r].now)]})

(* pending_approvals, after expire_stale_approvals.                         *)
List(r) ==
  /\ handler[r].at = "begun"
  /\ Reads(r, {[id |-> i, to |-> "expired"] :
                i \in {j \in Ids : status[j] = "pending" /\ Overdue(j, handler[r].now)}})

WrittenBy(r) == {w.id : w \in handler[r].writes}

Commit(r) ==
  /\ handler[r].at = "read"
  /\ status' = [i \in Ids |-> IF i \in WrittenBy(r)
                               THEN (CHOOSE w \in handler[r].writes : w.id = i).to ELSE status[i]]
  /\ crossed' = crossed \cup {i \in WrittenBy(r) : \E s \in Requests \ {r} :
                                handler[s].at = "read" /\ i \in WrittenBy(s)}
  /\ handler' = [handler EXCEPT ![r] = Idle]
  /\ UNCHANGED <<expires, clock>>

Passes ==
  /\ clock < MaxTime
  /\ clock' = clock + 1
  /\ UNCHANGED <<status, expires, handler, crossed>>

ApprovalNext ==
  \/ \E i \in Ids : Create(i)
  \/ \E r \in Requests :
       \/ Arrives(r) \/ List(r) \/ Commit(r)
       \/ \E i \in Ids, d \in DOMAIN Decisions : Decide(r, i, d)
  \/ Passes

ApprovalSpec == ApprovalInit /\ [][ApprovalNext]_approvalVars

-----------------------------------------------------------------------------
ApprovalTypeOK ==
  /\ status \in [Ids -> Statuses] /\ expires \in [Ids -> Nat]
  /\ clock \in 0 .. MaxTime
  /\ \A r \in Requests : handler[r].at \in {"idle", "begun", "read"}
  /\ crossed \subseteq Ids

(* "A decision on an already-expired (or already-decided) approval is a     *)
(* no-op": a final status never changes, except on a row that two requests  *)
(* had both read as pending.                                                *)
DecisionIsFinal ==
  [][\A i \in Ids : status[i] \in Final => status'[i] = status[i] \/ i \in crossed']_approvalVars
=============================================================================
