------------------------------- MODULE FeedProofs -------------------------------
(***************************************************************************)
(* Safety of Feed for any number of threads, instruments and faults.       *)
(***************************************************************************)
EXTENDS Feed, TLAPS

(* While no two calls overlap there is one call under way, and the thread   *)
(* that is referred to is the only one that may be active; it was booted,   *)
(* so that its task answers for it, unless it is booting now.               *)
OneCall ==
  /\ \A a, b \in Callers : call[a].at # "idle" /\ call[b].at # "idle" => a = b
  /\ (\E a \in Callers : call[a].at # "idle") => \A f \in Feeds : feed[f] # "boot"
OneThread ==
  /\ Active \subseteq {thread}
  /\ thread # NoFeed => feed[thread] # "none" /\ (feed[thread] = "boot" \/ task = thread)
CallKnows ==
  \A a \in Callers :
    /\ call[a].at = "launch" => Active = {}
    /\ call[a].at \in {"idle", "start", "launch"} => call[a].again = FALSE
    /\ call[a].at = "close" => call[a].loop = thread /\ call[a].task = task /\ thread # NoFeed
LiveIsUp ==
  /\ live # NoFeed => feed[live] = "up"
  /\ \A f \in Feeds : feed[f] = "up" => live = f
Replayed ==
  \A f \in Feeds : feed[f] \in {"replay", "up"} =>
    Indices \subseteq sent[f] /\ (raced \/ dynamic \subseteq sent[f])
ClosingTime ==
  session = "after" =>
    /\ \A a \in Callers : call[a].at \in {"idle", "stop", "close"} /\ call[a].again = FALSE
    /\ (\A a \in Callers : call[a].at = "idle") => Active = {}

Alone == OneCall /\ OneThread /\ CallKnows /\ LiveIsUp /\ Replayed /\ ClosingTime
FeedInv == TypeOK /\ (~overlap => Alone)

-----------------------------------------------------------------------------
(* What the steps do to a call.                                             *)

LEMMA CallRecords ==
  ASSUME NEW s \in {"idle", "start", "launch", "stop", "close"}, NEW g \in BOOLEAN
  PROVE  /\ [Idle EXCEPT !.at = s, !.again = g] \in CallState
         /\ [Idle EXCEPT !.at = s, !.again = g].at = s
         /\ [Idle EXCEPT !.at = s, !.again = g].again = g
         /\ [Idle EXCEPT !.at = s] \in CallState
         /\ [Idle EXCEPT !.at = s].at = s
         /\ [Idle EXCEPT !.at = s].again = FALSE
         /\ Idle \in CallState /\ Idle.at = "idle" /\ Idle.again = FALSE
BY DEF Idle, CallState

LEMMA BeginCall ==
  ASSUME TypeOK, NEW a \in Callers, NEW s \in {"start", "stop"}, NEW g \in BOOLEAN, Begin(a, s, g)
  PROVE  /\ call' \in [Callers -> CallState] /\ overlap' \in BOOLEAN
         /\ call'[a].at = s /\ call'[a].again = g
         /\ ~overlap' => /\ ~overlap
                         /\ \A b \in Callers : call[b].at = "idle"
                         /\ \A b \in Callers \ {a} : call'[b].at = "idle"
                         /\ \A f \in Feeds : feed[f] # "boot"
<1>1. /\ [Idle EXCEPT !.at = s, !.again = g] \in CallState
      /\ [Idle EXCEPT !.at = s, !.again = g].at = s
      /\ [Idle EXCEPT !.at = s, !.again = g].again = g
  BY DEF Idle, CallState
<1>2. call' = [call EXCEPT ![a] = [Idle EXCEPT !.at = s, !.again = g]] /\ call[a].at = "idle"
  BY DEF Begin
<1>3. call' \in [Callers -> CallState] /\ call'[a] = [Idle EXCEPT !.at = s, !.again = g]
      /\ \A b \in Callers \ {a} : call'[b] = call[b]
  BY <1>1, <1>2 DEF TypeOK
<1>4. call'[a].at = s /\ call'[a].again = g
  BY <1>1, <1>3
<1>5. overlap' = (overlap \/ Busy(a))
  BY DEF Begin
<1>6. overlap \in BOOLEAN
  BY DEF TypeOK
<1>7. overlap' \in BOOLEAN
  BY <1>5, <1>6, Zenon
<1>8. ASSUME ~overlap' PROVE ~overlap /\ ~Busy(a)
  BY <1>5, <1>8, Zenon
<1> QED
  BY <1>2, <1>3, <1>4, <1>7, <1>8 DEF Busy

LEMMA BegunType ==
  ASSUME TypeOK, NEW a \in Callers, NEW s \in {"start", "stop"}, NEW g \in BOOLEAN, Begin(a, s, g)
  PROVE  call' \in [Callers -> CallState] /\ overlap' \in BOOLEAN
BY BeginCall

LEMMA ReturnedCall ==
  ASSUME TypeOK, NEW a \in Callers, Returns(a)
  PROVE  /\ call' \in [Callers -> CallState]
         /\ call'[a].at = (IF call[a].again THEN "start" ELSE "idle") /\ call'[a].again = FALSE
         /\ \A b \in Callers \ {a} : call'[b] = call[b]
<1> DEFINE next == IF call[a].again THEN [Idle EXCEPT !.at = "start"] ELSE Idle
<1>1. next \in CallState /\ next.at = (IF call[a].again THEN "start" ELSE "idle") /\ next.again = FALSE
  BY CallRecords
<1>2. call' = [call EXCEPT ![a] = next]
  BY DEF Returns
<1> HIDE DEF next
<1>3. call' \in [Callers -> CallState] /\ call'[a] = next
      /\ \A b \in Callers \ {a} : call'[b] = call[b]
  BY <1>1, <1>2 DEF TypeOK
<1> QED
  BY <1>1, <1>3

(* A stop goes on with the loop and the task it has read.                   *)
LEMMA StopReads ==
  ASSUME TypeOK, NEW a \in Callers, StopChecks(a), IsRunning
  PROVE  /\ call' \in [Callers -> CallState]
         /\ call'[a].at = "close" /\ call'[a].loop = thread /\ call'[a].task = task
         /\ call'[a].again = call[a].again
         /\ \A b \in Callers \ {a} : call'[b] = call[b]
<1> DEFINE next == [call[a] EXCEPT !.at = "close", !.loop = thread, !.task = task]
<1>1. call[a] \in CallState
  BY DEF TypeOK
<1>2. next \in CallState /\ next.at = "close" /\ next.loop = thread /\ next.task = task
      /\ next.again = call[a].again
  BY <1>1 DEF CallState, TypeOK
<1>3. call' = [call EXCEPT ![a] = next]
  BY DEF StopChecks
<1> HIDE DEF next
<1>4. call' \in [Callers -> CallState] /\ call'[a] = next
      /\ \A b \in Callers \ {a} : call'[b] = call[b]
  BY <1>2, <1>3 DEF TypeOK
<1> QED
  BY <1>2, <1>4

LEMMA DisconnectedFeeds ==
  ASSUME TypeOK, NEW F \in SUBSET Feeds, NEW stage \in Stage, Disconnected(F, stage)
  PROVE  /\ feed' \in [Feeds -> Stage] /\ sent' \in [Feeds -> SUBSET Instruments]
         /\ silent' \subseteq Feeds /\ live' \in Feeds \cup {NoFeed}
         /\ \A f \in F : feed'[f] = stage
         /\ \A f \in Feeds \ F : feed'[f] = feed[f] /\ sent'[f] = sent[f]
         /\ dynamic' = dynamic /\ raced' = raced
BY DEF Disconnected, TypeOK

-----------------------------------------------------------------------------
(* Types.                                                                   *)

LEMMA FaultType == TypeOK /\ Fault => faults' \in 0 .. MaxFaults
BY BoundsAssumption DEF Fault, TypeOK

LEMMA InitType == Init => TypeOK
<1>1. Idle \in CallState
  BY CallRecords
<1> SUFFICES ASSUME Init PROVE TypeOK
  OBVIOUS
<1>2. call \in [Callers -> CallState]
  BY <1>1 DEF Init
<1>3. feed \in [Feeds -> Stage] /\ sent \in [Feeds -> SUBSET Instruments] /\ silent \subseteq Feeds
  BY DEF Init, Stage
<1>4. {live, thread, task, refresh} \subseteq Feeds \cup {NoFeed} /\ dynamic \subseteq Instruments
  BY DEF Init
<1>5. {recentStart, recentTick, overlap, raced} \subseteq BOOLEAN /\ died \in BOOLEAN
  BY DEF Init
<1>6. session \in {"before", "open", "after"} /\ faults \in 0 .. MaxFaults
  BY BoundsAssumption DEF Init
<1> QED
  BY <1>2, <1>3, <1>4, <1>5, <1>6 DEF TypeOK

LEMMA TypeNext == TypeOK /\ [Next]_vars => TypeOK'
<1> SUFFICES ASSUME TypeOK, [Next]_vars PROVE TypeOK'
  OBVIOUS
<1> USE DEF client, supervisor
<1>1. ASSUME NEW f \in Feeds, Boot(f) \/ Connect(f) \/ Publish(f) PROVE TypeOK'
  BY <1>1 DEF Boot, Connect, Publish, TypeOK, Stage, Instruments
<1>2. ASSUME NEW f \in Feeds, Drop(f) \/ Die(f) PROVE TypeOK'
  <2>1. faults' \in 0 .. MaxFaults
    BY <1>2, FaultType DEF Drop, Die
  <2>2. CASE Drop(f)
    <3>1. Disconnected({f}, "down")
      BY <2>2 DEF Drop
    <3>2. feed' \in [Feeds -> Stage] /\ sent' \in [Feeds -> SUBSET Instruments]
          /\ silent' \subseteq Feeds /\ live' \in Feeds \cup {NoFeed} /\ dynamic' = dynamic /\ raced' = raced
      BY <3>1 DEF Disconnected, TypeOK, Stage
    <3> QED
      BY <2>1, <2>2, <3>2 DEF Drop, TypeOK
  <2>3. CASE Die(f)
    <3>1. Disconnected({f}, "dead")
      BY <2>3 DEF Die
    <3>2. feed' \in [Feeds -> Stage] /\ sent' \in [Feeds -> SUBSET Instruments]
          /\ silent' \subseteq Feeds /\ live' \in Feeds \cup {NoFeed} /\ dynamic' = dynamic /\ raced' = raced
      BY <3>1 DEF Disconnected, TypeOK, Stage
    <3> QED
      BY <2>1, <2>3, <3>2 DEF Die, TypeOK
  <2> QED
    BY <1>2, <2>2, <2>3
<1>3. CASE LoseAdapter
  BY <1>3, FaultType DEF LoseAdapter, Silenced, Connected, TypeOK
<1>4. CASE Tick \/ Age \/ RefreshFails
  BY <1>4 DEF Tick, Age, RefreshFails, TypeOK
<1>5. ASSUME NEW a \in Callers, StartChecks(a) PROVE TypeOK'
  <2>1. Idle \in CallState /\ [Idle EXCEPT !.at = "launch"] \in CallState
    BY CallRecords
  <2> QED
    BY <1>5, <2>1 DEF StartChecks, TypeOK
<1>6. ASSUME NEW a \in Callers, StartLaunches(a) PROVE TypeOK'
  <2>1. Idle \in CallState
    BY CallRecords
  <2> QED
    BY <1>6, <2>1 DEF StartLaunches, TypeOK, Stage
<1>7. ASSUME NEW a \in Callers, StopChecks(a) PROVE TypeOK'
  <2>1. call' \in [Callers -> CallState]
    BY <1>7, StopReads, ReturnedCall DEF StopChecks
  <2> QED
    BY <1>7, <2>1 DEF StopChecks, TypeOK
<1>8. ASSUME NEW a \in Callers, StopCloses(a) PROVE TypeOK'
  <2>1. CASE feed[call[a].loop] = "none" /\ call' = [call EXCEPT ![a] = Idle] /\ UNCHANGED <<client, supervisor>>
    <3>1. Idle \in CallState
      BY CallRecords
    <3> QED
      BY <1>8, <2>1, <3>1 DEF StopCloses, TypeOK
  <2>2. ASSUME NEW other \in SUBSET ({call[a].task} \ {NoFeed, call[a].loop}),
               LET dying == {f \in other : feed[f] \in {"down", "replay", "up"}}
               IN  Disconnected(dying \cup {call[a].loop}, "none"),
               task' = task, thread' = NoFeed, Returns(a), UNCHANGED recentStart
        PROVE  TypeOK'
    <3> DEFINE F == {f \in other : feed[f] \in {"down", "replay", "up"}} \cup {call[a].loop}
    <3>1. call[a] \in CallState
      BY DEF TypeOK
    <3>2. "none" \in Stage /\ Disconnected(F, "none")
      BY <2>2 DEF Stage
    <3>3. feed' \in [Feeds -> Stage] /\ sent' \in [Feeds -> SUBSET Instruments]
          /\ silent' \subseteq Feeds /\ live' \in Feeds \cup {NoFeed} /\ dynamic' = dynamic /\ raced' = raced
      BY <3>2 DEF Disconnected, TypeOK, Stage
    <3>4. call' \in [Callers -> CallState]
      BY <2>2, ReturnedCall
    <3> QED
      BY <1>8, <2>2, <3>3, <3>4 DEF StopCloses, TypeOK
  <2> QED
    BY <1>8, <2>1, <2>2 DEF StopCloses
<1>9. CASE SessionOpens
  <2>1. call' \in [Callers -> CallState] /\ overlap' \in BOOLEAN
    <3>1. CASE Begin("job", "start", FALSE)
      BY <3>1, BegunType DEF Callers
    <3>2. CASE UNCHANGED <<call, overlap>>
      BY <3>2 DEF TypeOK
    <3> QED
      BY <1>9, <3>1, <3>2 DEF SessionOpens
  <2> QED
    BY <1>9, <2>1 DEF SessionOpens, TypeOK
<1>10. CASE SessionCloses
  <2>1. call' \in [Callers -> CallState] /\ overlap' \in BOOLEAN
    BY <1>10, BegunType DEF SessionCloses, Callers
  <2> QED
    BY <1>10, <2>1 DEF SessionCloses, TypeOK
<1>11. CASE CheckFeedHealth
  <2>1. call' \in [Callers -> CallState] /\ overlap' \in BOOLEAN
    BY <1>11, BegunType DEF CheckFeedHealth, Callers
  <2> QED
    BY <1>11, <2>1 DEF CheckFeedHealth, TypeOK
<1>12. CASE ReloginBroker
  <2>1. call' \in [Callers -> CallState] /\ overlap' \in BOOLEAN
    <3>1. CASE Begin("api", "stop", TRUE)
      BY <3>1, BegunType DEF Callers
    <3>2. CASE UNCHANGED <<call, overlap>>
      BY <3>2 DEF TypeOK
    <3> QED
      BY <1>12, <3>1, <3>2 DEF ReloginBroker
  <2>2. faults' \in 0 .. MaxFaults /\ silent' \subseteq Feeds
    BY <1>12, FaultType DEF ReloginBroker, Silenced, Connected, TypeOK
  <2> QED
    BY <1>12, <2>1, <2>2 DEF ReloginBroker, TypeOK
<1>13. CASE Restart
  <2>1. Idle \in CallState /\ [Idle EXCEPT !.at = "start"] \in CallState
    BY CallRecords
  <2>2. call' \in [Callers -> CallState]
    BY <1>13, <2>1 DEF Restart
  <2> QED
    BY <1>13, <2>2, FaultType DEF Restart, TypeOK, Stage, Instruments, NoFeed
<1>14. CASE RefreshBegins
  BY <1>14 DEF RefreshBegins, TypeOK
<1>15. ASSUME NEW D \in Bands, RefreshLands(D) PROVE TypeOK'
  <2>1. D \subseteq Instruments
    BY DEF Instruments
  <2>2. raced' \in BOOLEAN
    BY <1>15, Zenon DEF RefreshLands, TypeOK
  <2> QED
    BY <1>15, <2>1, <2>2 DEF RefreshLands, TypeOK
<1>16. CASE UNCHANGED vars
  BY <1>16 DEF vars, TypeOK
<1> QED
  BY <1>1, <1>2, <1>3, <1>4, <1>5, <1>6, <1>7, <1>8, <1>9, <1>10, <1>11, <1>12, <1>13, <1>14, <1>15, <1>16
  DEF Next

(* The types of the feed and of the supervisor's calls.                     *)
THEOREM FeedTypes == Spec => []TypeOK
BY InitType, TypeNext, PTL DEF Spec

-----------------------------------------------------------------------------
(* One call at a time keeps one feed.                                       *)

(* When nothing boots, what is not running is not active.                   *)
LEMMA NotRunning ==
  ASSUME TypeOK, OneThread, \A f \in Feeds : feed[f] # "boot", ~IsRunning
  PROVE  Active = {}
BY FeedAssumption DEF TypeOK, OneThread, IsRunning, Done, Active

LEMMA TaskSteps ==
  ASSUME TypeOK, Alone, NEW f \in Feeds, Boot(f) \/ Connect(f) \/ Publish(f)
  PROVE  Alone'
<1>1. f = thread /\ f # NoFeed /\ Active = {f}
  BY FeedAssumption DEF Alone, OneThread, Active, Boot, Connect, Publish
<1>2. OneCall' /\ CallKnows'
  BY <1>1 DEF Alone, OneCall, CallKnows, TypeOK, Active, Boot, Connect, Publish, supervisor
<1>3. OneThread'
  BY <1>1 DEF Alone, OneThread, TypeOK, Active, Boot, Connect, Publish, supervisor
<1>4. LiveIsUp'
  BY <1>1, FeedAssumption DEF Alone, OneThread, LiveIsUp, TypeOK, Active, Boot, Connect, Publish
<1>5. Replayed'
  BY <1>1 DEF Alone, Replayed, TypeOK, Active, Boot, Connect, Publish
<1>6. ClosingTime'
  BY <1>1 DEF Alone, ClosingTime, TypeOK, Active, Boot, Connect, Publish
<1> QED
  BY <1>2, <1>3, <1>4, <1>5, <1>6 DEF Alone

LEMMA LossSteps ==
  ASSUME TypeOK, Alone, NEW f \in Feeds, Drop(f) \/ Die(f)
  PROVE  Alone'
<1>1. f = thread /\ f # NoFeed /\ Active = {f} /\ task = f
  BY FeedAssumption DEF Alone, OneThread, Active, Drop, Die, Connected
<1>2. PICK stage \in {"down", "dead"} : Disconnected({f}, stage)
  BY DEF Drop, Die
<1>3. /\ feed' \in [Feeds -> Stage] /\ feed'[f] = stage
      /\ \A g \in Feeds \ {f} : feed'[g] = feed[g] /\ sent'[g] = sent[g]
      /\ live' = (IF feed[f] = "up" THEN NoFeed ELSE live)
      /\ UNCHANGED <<thread, task, call, session, dynamic, raced>>
  BY <1>2 DEF Disconnected, TypeOK, Stage, Drop, Die, supervisor
<1>4. OneCall' /\ CallKnows'
  BY <1>1, <1>2, <1>3 DEF Alone, OneCall, CallKnows, Active
<1>5. OneThread'
  BY <1>1, <1>2, <1>3 DEF Alone, OneThread, Active
<1>6. LiveIsUp'
  BY <1>1, <1>2, <1>3, FeedAssumption DEF Alone, LiveIsUp, TypeOK
<1>7. Replayed'
  BY <1>2, <1>3 DEF Alone, Replayed
<1>8. ClosingTime'
  BY <1>1, <1>3 DEF Alone, ClosingTime, Active
<1> QED
  BY <1>4, <1>5, <1>6, <1>7, <1>8 DEF Alone

LEMMA StartSteps ==
  ASSUME TypeOK, Alone, NEW a \in Callers, StartChecks(a) \/ StartLaunches(a)
  PROVE  Alone'
<1>0. \A f \in Feeds : feed[f] # "boot"
  BY DEF Alone, OneCall, StartChecks, StartLaunches
<1>1. CASE StartChecks(a)
  <2>0. /\ IsRunning => call'[a] = Idle
        /\ ~IsRunning => call'[a] = [Idle EXCEPT !.at = "launch"]
    BY <1>1 DEF StartChecks, TypeOK
  <2>1. \/ IsRunning /\ call'[a].at = "idle" /\ call'[a].again = FALSE
        \/ ~IsRunning /\ call'[a].at = "launch" /\ call'[a].again = FALSE
    BY <2>0, CallRecords
  <2>2. \A b \in Callers \ {a} : call'[b] = call[b] /\ call[b].at = "idle"
    BY <1>1 DEF StartChecks, TypeOK, Alone, OneCall
  <2>3. ~IsRunning => Active = {}
    BY <1>0, NotRunning DEF Alone
  <2>4. UNCHANGED <<feed, sent, live, thread, task, session, dynamic, raced>> /\ call[a].at = "start"
    BY <1>1 DEF StartChecks, client, supervisor
  <2>5. OneCall' /\ CallKnows'
    BY <1>0, <2>1, <2>2, <2>3, <2>4 DEF Alone, OneCall, CallKnows, Active
  <2> QED
    BY <2>4, <2>5 DEF Alone, OneThread, Active, LiveIsUp, Replayed, ClosingTime
<1>2. CASE StartLaunches(a)
  <2>1. PICK f \in Feeds : Fresh(f) /\ feed' = [feed EXCEPT ![f] = "boot"] /\ thread' = f
    BY <1>2 DEF StartLaunches
  <2>2. call[a].at = "launch" /\ Active = {} /\ f # NoFeed /\ feed[f] = "none"
    BY <1>2, <2>1, FeedAssumption DEF StartLaunches, Alone, CallKnows, Fresh
  <2>3. \A b \in Callers : call'[b].at = "idle" /\ call'[b].again = FALSE
    <3>1. call'[a] = Idle /\ \A b \in Callers \ {a} : call'[b] = call[b]
      BY <1>2 DEF StartLaunches, TypeOK
    <3>2. Idle.at = "idle" /\ Idle.again = FALSE
      BY CallRecords
    <3>3. \A b \in Callers \ {a} : call[b].at = "idle" /\ call[b].again = FALSE
      BY <2>2 DEF Alone, OneCall, CallKnows
    <3> QED
      BY <3>1, <3>2, <3>3
  <2>4. UNCHANGED <<sent, live, task, session, dynamic, raced>>
    BY <1>2 DEF StartLaunches
  <2>5. feed'[f] = "boot" /\ \A g \in Feeds \ {f} : feed'[g] = feed[g]
    BY <2>1 DEF TypeOK
  <2>6. OneCall' /\ CallKnows' /\ OneThread'
    BY <2>1, <2>2, <2>3, <2>5 DEF Alone, OneCall, CallKnows, OneThread, Active
  <2>7. LiveIsUp' /\ Replayed'
    BY <2>2, <2>4, <2>5 DEF Alone, LiveIsUp, Replayed, TypeOK, Active
  <2>8. ClosingTime'
    BY <2>2, <2>4 DEF Alone, ClosingTime
  <2> QED
    BY <2>6, <2>7, <2>8 DEF Alone
<1> QED
  BY <1>1, <1>2

LEMMA StopSteps ==
  ASSUME TypeOK, Alone, NEW a \in Callers, StopChecks(a) \/ StopCloses(a)
  PROVE  Alone'
<1>0. /\ \A f \in Feeds : feed[f] # "boot"
      /\ \A b \in Callers \ {a} : call[b].at = "idle"
  BY DEF Alone, OneCall, StopChecks, StopCloses
<1>1. CASE StopChecks(a)
  <2>1. UNCHANGED <<feed, sent, live, thread, task, session, dynamic, raced>> /\ call[a].at = "stop"
    BY <1>1 DEF StopChecks, client, supervisor
  <2>2. \A b \in Callers \ {a} : call'[b] = call[b]
    BY <1>1, StopReads, ReturnedCall DEF StopChecks
  <2>3. CASE IsRunning
    <3>1. /\ call'[a].at = "close" /\ call'[a].loop = thread /\ call'[a].task = task
          /\ call'[a].again = call[a].again
      BY <1>1, <2>3, StopReads
    <3>2. thread # NoFeed
      BY <2>3 DEF IsRunning
    <3>3. OneCall' /\ CallKnows'
      BY <1>0, <2>1, <2>2, <3>1, <3>2 DEF Alone, OneCall, CallKnows
    <3> QED
      BY <2>1, <2>2, <3>1, <3>3 DEF Alone, OneThread, Active, LiveIsUp, Replayed, ClosingTime
  <2>4. CASE ~IsRunning
    <3>1. call'[a].at = (IF call[a].again THEN "start" ELSE "idle") /\ call'[a].again = FALSE
      BY <1>1, <2>4, ReturnedCall DEF StopChecks
    <3>2. Active = {}
      BY <1>0, <2>4, NotRunning DEF Alone
    <3>3. OneCall' /\ CallKnows'
      BY <1>0, <2>1, <2>2, <3>1 DEF Alone, OneCall, CallKnows
    <3>4. ClosingTime'
      BY <2>1, <2>2, <3>1, <3>2 DEF Alone, ClosingTime, Active
    <3> QED
      BY <2>1, <3>3, <3>4 DEF Alone, OneThread, Active, LiveIsUp, Replayed
  <2> QED
    BY <2>3, <2>4
<1>2. CASE StopCloses(a)
  <2>1. /\ call[a].at = "close" /\ call[a].loop = thread /\ call[a].task = task
        /\ thread # NoFeed /\ thread \in Feeds /\ feed[thread] # "none" /\ task = thread
    BY <1>0, <1>2 DEF StopCloses, Alone, CallKnows, OneThread, TypeOK
  <2>2. /\ Disconnected({thread}, "none") /\ task' = task /\ thread' = NoFeed /\ Returns(a)
        /\ session' = session
    <3>1. PICK other \in SUBSET ({call[a].task} \ {NoFeed, call[a].loop}) :
            /\ LET dying == {f \in other : feed[f] \in {"down", "replay", "up"}}
               IN  Disconnected(dying \cup {call[a].loop}, "none")
            /\ task' = task
      BY <1>2, <2>1 DEF StopCloses
    <3>2. other = {}
      BY <2>1
    <3>3. {f \in other : feed[f] \in {"down", "replay", "up"}} \cup {call[a].loop} = {thread}
      BY <2>1, <3>2
    <3> QED
      BY <1>2, <2>1, <3>1, <3>3 DEF StopCloses
  <2>3. /\ feed' \in [Feeds -> Stage] /\ feed'[thread] = "none"
        /\ \A g \in Feeds \ {thread} : feed'[g] = feed[g]
        /\ live' = (IF feed[thread] = "up" THEN NoFeed ELSE live)
    BY <2>1, <2>2 DEF Disconnected, TypeOK, Stage
  <2>4. Active' = {}
    BY <2>3 DEF Active, Alone, OneThread
  <2>5. /\ call'[a].at = (IF call[a].again THEN "start" ELSE "idle") /\ call'[a].again = FALSE
        /\ \A b \in Callers \ {a} : call'[b] = call[b]
    BY <2>2, ReturnedCall
  <2>6. OneCall' /\ CallKnows'
    BY <1>0, <2>3, <2>5, <2>1 DEF Alone, OneCall, CallKnows, Stage
  <2>7. OneThread'
    BY <2>2, <2>4 DEF OneThread
  <2>8. LiveIsUp' /\ Replayed'
    <3>1. \A g \in Feeds : feed'[g] \notin {"replay", "up"}
      BY <2>4 DEF Active
    <3>2. live' = NoFeed
      BY <2>1, <2>3, <3>1 DEF Alone, LiveIsUp, TypeOK
    <3> QED
      BY <3>1, <3>2 DEF LiveIsUp, Replayed
  <2>9. ClosingTime'
    BY <2>1, <2>2, <2>4, <2>5 DEF Alone, ClosingTime
  <2> QED
    BY <2>6, <2>7, <2>8, <2>9 DEF Alone
<1> QED
  BY <1>1, <1>2

(* A call that overlaps nothing begins: nothing is under way or boots.      *)
LEMMA BeginSteps ==
  ASSUME TypeOK, Alone, ~overlap',
         SessionOpens \/ SessionCloses \/ CheckFeedHealth \/ ReloginBroker
  PROVE  Alone'
<1>1. UNCHANGED <<feed, sent, live, thread, task, dynamic, raced>>
  BY DEF SessionOpens, SessionCloses, CheckFeedHealth, ReloginBroker, client, supervisor
<1>2. ASSUME NEW a \in Callers, NEW s \in {"start", "stop"}, NEW g \in BOOLEAN, Begin(a, s, g),
             s = "start" => g = FALSE
      PROVE  /\ OneCall' /\ CallKnows'
             /\ call'[a].at = s /\ call'[a].again = g
             /\ \A b \in Callers : call[b].at = "idle"
             /\ \A b \in Callers \ {a} : call'[b] = call[b]
             /\ \A f \in Feeds : feed[f] # "boot"
  <2>1. /\ call'[a].at = s /\ call'[a].again = g
        /\ \A b \in Callers : call[b].at = "idle"
        /\ \A b \in Callers \ {a} : call'[b].at = "idle"
        /\ \A f \in Feeds : feed[f] # "boot"
    BY <1>2, BeginCall
  <2>2. \A b \in Callers \ {a} : call'[b] = call[b]
    BY <1>2 DEF Begin, TypeOK
  <2>3. s = "stop" \/ g = FALSE
    BY <1>2
  <2> QED
    BY <1>1, <2>1, <2>2, <2>3 DEF Alone, OneCall, CallKnows
<1>3. OneThread' /\ LiveIsUp' /\ Replayed'
  BY <1>1 DEF Alone, OneThread, Active, LiveIsUp, Replayed
<1>4. CASE SessionOpens
  <2>1. session' = "open"
    BY <1>4 DEF SessionOpens
  <2>2. OneCall' /\ CallKnows'
    <3>1. CASE Begin("job", "start", FALSE)
      BY <1>2, <3>1 DEF Callers
    <3>2. CASE UNCHANGED <<call, overlap>>
      BY <1>1, <3>2 DEF Alone, OneCall, CallKnows, Active
    <3> QED
      BY <1>4, <3>1, <3>2 DEF SessionOpens
  <2> QED
    BY <1>3, <2>1, <2>2 DEF Alone, ClosingTime
<1>5. CASE SessionCloses
  <2>1. Begin("job", "stop", FALSE) /\ session = "open"
    BY <1>5 DEF SessionCloses
  <2>2. /\ OneCall' /\ CallKnows'
        /\ call'["job"].at = "stop" /\ call'["job"].again = FALSE
        /\ \A b \in Callers : call[b].at = "idle"
        /\ \A b \in Callers \ {"job"} : call'[b] = call[b]
    BY <1>2, <2>1 DEF Callers
  <2>3. \A b \in Callers : call[b].again = FALSE
    BY <2>2 DEF Alone, CallKnows
  <2>4. ClosingTime'
    BY <2>2, <2>3 DEF ClosingTime, Callers
  <2> QED
    BY <1>3, <2>2, <2>4 DEF Alone
<1>6. CASE CheckFeedHealth \/ (ReloginBroker /\ IsRunning)
  <2>1. PICK a \in Callers : Begin(a, "stop", TRUE)
    BY <1>6 DEF CheckFeedHealth, ReloginBroker, Callers
  <2>2. /\ OneCall' /\ CallKnows' /\ session' = session /\ IsRunning
        /\ \A b \in Callers : call[b].at = "idle"
        /\ \A f \in Feeds : feed[f] # "boot"
    BY <1>2, <1>6, <2>1 DEF CheckFeedHealth, ReloginBroker
  <2>3. Active # {}
    <3>1. thread # NoFeed /\ thread \in Feeds /\ ~Done(task)
      BY <2>2 DEF IsRunning, TypeOK
    <3>2. task = thread
      BY <2>2, <3>1 DEF Alone, OneThread
    <3>3. feed[thread] \in {"down", "replay", "up"}
      BY <2>2, <3>1, <3>2 DEF Done, TypeOK, Stage
    <3> QED
      BY <3>1, <3>3 DEF Active
  <2>4. session # "after"
    BY <2>2, <2>3 DEF Alone, ClosingTime
  <2> QED
    BY <1>3, <2>2, <2>4 DEF Alone, ClosingTime
<1>7. CASE ReloginBroker /\ ~IsRunning
  <2>1. UNCHANGED <<call, session>>
    BY <1>7 DEF ReloginBroker
  <2> QED
    BY <1>1, <1>3, <2>1 DEF Alone, OneCall, CallKnows, ClosingTime, Active
<1> QED
  BY <1>4, <1>5, <1>6, <1>7

LEMMA RestartStep ==
  ASSUME TypeOK, Restart
  PROVE  Alone'
<1>1. /\ \A f \in Feeds : feed'[f] = "none" /\ sent'[f] = {}
      /\ live' = NoFeed /\ thread' = NoFeed /\ task' = NoFeed /\ session' = session
  BY DEF Restart
<1>2. /\ call'["job"].at \in {"idle", "start"} /\ (session = "after" => call'["job"].at = "idle")
      /\ \A a \in Callers \ {"job"} : call'[a].at = "idle"
      /\ \A a \in Callers : call'[a].again = FALSE
  <2>1. \A a \in Callers : call'[a] = IF a = "job" /\ session = "open" THEN [Idle EXCEPT !.at = "start"] ELSE Idle
    BY DEF Restart
  <2>2. Idle.at = "idle" /\ Idle.again = FALSE
        /\ [Idle EXCEPT !.at = "start"].at = "start" /\ [Idle EXCEPT !.at = "start"].again = FALSE
    BY CallRecords
  <2> QED
    BY <2>1, <2>2 DEF Callers
<1>3. OneCall' /\ CallKnows' /\ ClosingTime'
  BY <1>1, <1>2 DEF OneCall, CallKnows, ClosingTime, Active
<1> QED
  BY <1>1, <1>3 DEF Alone, OneThread, LiveIsUp, Replayed, Active

(* A resolution that lands: on the published connection, or else the replay *)
(* it may have missed counts as raced.                                      *)
LEMMA RefreshStep ==
  ASSUME TypeOK, Alone, NEW D \in Bands, RefreshLands(D)
  PROVE  Alone'
<1>1. UNCHANGED <<feed, live, thread, task, call, session>>
  BY DEF RefreshLands, supervisor
<1>2. D \cap Indices = {}
  BY FeedAssumption
<1>3. Replayed'
  <2> SUFFICES ASSUME NEW f \in Feeds, feed[f] \in {"replay", "up"}
               PROVE  Indices \subseteq sent'[f] /\ (raced' \/ D \subseteq sent'[f])
    BY <1>1 DEF Replayed, RefreshLands
  <2>1. raced' = (raced \/ \E g \in Feeds : feed[g] = "replay")
    BY DEF RefreshLands
  <2>2. Indices \subseteq sent[f] /\ (raced \/ dynamic \subseteq sent[f])
    BY DEF Alone, Replayed
  <2>3. sent[f] \subseteq sent'[f]
    BY DEF RefreshLands, TypeOK
  <2>4. CASE feed[f] = "replay"
    BY <2>1, <2>2, <2>3, <2>4
  <2>5. CASE feed[f] = "up"
    <3>1. live = f /\ live # NoFeed
      BY <2>5, FeedAssumption DEF Alone, LiveIsUp
    <3>2. sent'[f] = sent[f] \cup (D \ (Indices \cup dynamic))
      BY <3>1 DEF RefreshLands, TypeOK
    <3> QED
      BY <2>1, <2>2, <2>3, <3>2
  <2> QED
    BY <2>4, <2>5
<1> QED
  BY <1>1, <1>3 DEF Alone, OneCall, OneThread, CallKnows, LiveIsUp, ClosingTime, Active

LEMMA FeedInvInit == Init => FeedInv
<1> SUFFICES ASSUME Init PROVE Alone
  BY InitType DEF FeedInv
<1>1. \A a \in Callers : call[a].at = "idle" /\ call[a].again = FALSE
  BY CallRecords DEF Init
<1> QED
  BY <1>1 DEF Init, Alone, OneCall, OneThread, CallKnows, LiveIsUp, Replayed, ClosingTime, Active

LEMMA FeedInvNext == FeedInv /\ [Next]_vars => FeedInv'
<1> SUFFICES ASSUME TypeOK, ~overlap => Alone, [Next]_vars, ~overlap' PROVE Alone'
  BY TypeNext DEF FeedInv
<1>1. CASE Restart
  BY <1>1, RestartStep
<1>2. CASE ~Restart
  <2>1. ~overlap
    <3>1. SessionOpens \/ SessionCloses \/ CheckFeedHealth \/ ReloginBroker => ~overlap
      BY Zenon DEF SessionOpens, SessionCloses, CheckFeedHealth, ReloginBroker, Begin
    <3>2. UNCHANGED overlap => ~overlap
      OBVIOUS
    <3> QED
      BY <1>2, <3>1, <3>2 DEF Next, vars, Boot, Connect, Publish, Drop, Die, LoseAdapter, Tick, Age,
         StartChecks, StartLaunches, StopChecks, StopCloses, RefreshBegins, RefreshFails, RefreshLands
  <2>2. Alone
    BY <2>1
  <2>3. CASE LoseAdapter \/ Tick \/ Age \/ RefreshBegins \/ RefreshFails \/ UNCHANGED vars
    <3>1. UNCHANGED <<feed, sent, live, thread, task, call, session, dynamic, raced>>
      BY <2>3 DEF LoseAdapter, Tick, Age, RefreshBegins, RefreshFails, vars, client, supervisor
    <3> QED
      BY <2>2, <3>1 DEF Alone, OneCall, OneThread, CallKnows, LiveIsUp, Replayed, ClosingTime, Active
  <2> QED
    BY <1>2, <2>2, <2>3, TaskSteps, LossSteps, StartSteps, StopSteps, BeginSteps, RefreshStep DEF Next
<1> QED
  BY <1>1, <1>2

(* The inductive invariant of the supervisor (data/recorder.py).            *)
THEOREM FeedInvariant == Spec => []FeedInv
BY FeedInvInit, FeedInvNext, PTL DEF Spec

(* One feed at a time, and none after the 15:35 stop, as long as the calls  *)
(* of start and stop (WSRecorderSupervisor) do not overlap: however often   *)
(* the connection drops, the task dies or the process restarts.             *)
THEOREM FeedIsOne == Spec => []OneFeed
<1>1. FeedInv => OneFeed
  BY DEF FeedInv, Alone, OneThread, ClosingTime, OneFeed, Quiet
<1> QED
  BY <1>1, FeedInvariant, PTL

(* Every connection that is published (OpenAlgoWSClient.run) is subscribed  *)
(* to all that is registered, but for what landed during its replay.        *)
THEOREM FeedIsSubscribed == Spec => []RegisteredIsSubscribed
<1>1. FeedInv => RegisteredIsSubscribed
  BY DEF FeedInv, TypeOK, Alone, LiveIsUp, Replayed, RegisteredIsSubscribed
<1> QED
  BY <1>1, FeedInvariant, PTL
=================================================================================
