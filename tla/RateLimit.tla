------------------------------- MODULE RateLimit -------------------------------
(***************************************************************************)
(* The cap on orders per second: the token bucket (broker/ratelimit.py) in *)
(* front of ExecutionManager.submit, one bucket for every execution stack  *)
(* that is built (execution/manager.py build_paper_execution_stack).       *)
(*                                                                         *)
(* Time is counted in polls of acquire, and tokens in the share of one     *)
(* that a poll refills.                                                    *)
(***************************************************************************)
EXTENDS Naturals, Sequences, FiniteSets, SequencesExt

CONSTANTS
  Capacity,    \* int(max_orders_per_second)
  PollsPerToken,
  Stacks,      \* cycles and square-offs, each with a stack of its own
  MaxPolls, MaxOrders   \* bounds

ASSUME LimitAssumption == {Capacity, PollsPerToken} \subseteq Nat \ {0}

VARIABLES
  now,
  bucket,   \* for each stack built: its tokens and its last refill
  sent      \* the stack and time of every order

limitVars == <<now, bucket, sent>>

Full == Capacity * PollsPerToken

LimitInit == now = 0 /\ bucket = << >> /\ sent = << >>

NewStack(s) ==
  /\ s \notin DOMAIN bucket
  /\ bucket' = [t \in DOMAIN bucket \cup {s} |->
                  IF t = s THEN [tokens |-> Full, last |-> now] ELSE bucket[t]]
  /\ UNCHANGED <<now, sent>>

Least(a, b) == IF a < b THEN a ELSE b
RefilledUncapped(b) == [tokens |-> b.tokens + (now - b.last), last |-> now]
Refilled(b) == [tokens |-> Least(Full, b.tokens + (now - b.last)), last |-> now]

(* acquire polls try_acquire until it succeeds; a failed poll refills too.  *)
TryAcquire(s) ==
  LET b == Refilled(bucket[s]) IN
  /\ s \in DOMAIN bucket /\ Len(sent) < MaxOrders
  /\ IF b.tokens >= PollsPerToken
     THEN /\ bucket' = [bucket EXCEPT ![s] = [b EXCEPT !.tokens = b.tokens - PollsPerToken]]
          /\ sent' = Append(sent, [by |-> s, at |-> now])
     ELSE bucket' = [bucket EXCEPT ![s] = b] /\ UNCHANGED sent
  /\ UNCHANGED now

Poll == now < MaxPolls /\ now' = now + 1 /\ UNCHANGED <<bucket, sent>>

LimitNext == Poll \/ \E s \in Stacks : NewStack(s) \/ TryAcquire(s)

LimitSpec == LimitInit /\ [][LimitNext]_limitVars

-----------------------------------------------------------------------------
LimitTypeOK ==
  /\ now \in 0 .. MaxPolls
  /\ DOMAIN bucket \subseteq Stacks
  /\ \A s \in DOMAIN bucket : bucket[s].tokens \in 0 .. Full /\ bucket[s].last \in 0 .. now
  /\ sent \in Seq([by : Stacks, at : 0 .. MaxPolls])

SentBy(S, from, to) ==
  Cardinality({i \in DOMAIN sent : sent[i].by \in S /\ sent[i].at \in from .. to})

(* "Hard cap on order submission": in any stretch of time one stack sends   *)
(* no more than a full bucket and what is refilled meanwhile, and all of    *)
(* them together no more than that many times the stacks.                   *)
BurstBound ==
  \A S \in SUBSET DOMAIN bucket : \A to \in 0 .. now : \A from \in 0 .. to :
    SentBy(S, from, to) <= Cardinality(S) * (Capacity + ((to - from) \div PollsPerToken))
=============================================================================
