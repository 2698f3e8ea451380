---------------------------------- MODULE Feed ----------------------------------
(***************************************************************************)
(* The live feed within one process: WSRecorderSupervisor (start, stop,    *)
(* check_feed_health, refresh_late_instruments of engine/te/engine/        *)
(* scheduler.py) over OpenAlgoWSClient (broker/openalgo_ws.py), with the   *)
(* cron jobs, the relogin endpoint and the start-up that call it.          *)
(*                                                                         *)
(* A feed is a thread with an event loop and, once it has booted, a task   *)
(* that connects, replays the registrations, publishes the connection and  *)
(* reads ticks until it drops.  The supervisor only holds references to    *)
(* the last one; nothing is locked.                                        *)
(***************************************************************************)
EXTENDS Integers, FiniteSets

CONSTANTS
  Feeds,        \* identities for threads, more than can be referred to at once
  Indices,      \* the permanent registrations
  Bands,        \* the sets of strikes a resolution can come to
  Overlaps,     \* may calls of start and stop overlap
  MaxFaults     \* bound on drops, silenced connections, dead tasks, relogins and restarts

NoFeed == 0
Callers == {"job", "health", "api"}

ASSUME FeedAssumption ==
  /\ Feeds \subseteq Nat \ {NoFeed}
  /\ \A D \in Bands : D # {} /\ D \cap Indices = {}
ASSUME BoundsAssumption == MaxFaults \in Nat /\ Overlaps \in BOOLEAN

VARIABLES
  feed,        \* [Feeds -> Stage]
  sent,        \* [Feeds -> instruments subscribed on its connection]
  silent,      \* the feeds whose connection the broker no longer serves
  live,        \* _live_ws
  dynamic,     \* _dynamic
  thread, task,    \* _thread with its _loop, and _task
  recentStart,     \* _started_at is less than stale_after ago
  recentTick,      \* last_tick_at is less than stale_after ago
  call,        \* [Callers -> what start() or stop() does next]
  refresh,     \* the loop refresh_late_instruments has taken, or NoFeed
  session,     \* before 09:10, the recorder's window, after 15:35
  overlap,     \* two calls, or a call and a booting thread, were under way at once
  raced,       \* a resolution landed during the replay of the registrations
  died,        \* a task ended with an exception run() does not retry
  faults       \* how many of MaxFaults there were

client == <<feed, sent, silent, live, dynamic, raced>>
supervisor == <<thread, task, recentStart>>
vars == <<client, supervisor, recentTick, call, refresh, session, overlap, died, faults>>

Stage == {"none", "boot", "down", "replay", "up", "dead"}
Instruments == Indices \cup UNION Bands

Idle == [at |-> "idle", loop |-> NoFeed, task |-> NoFeed, again |-> FALSE]
CallState == [at : {"idle", "start", "launch", "stop", "close"}, loop : Feeds \cup {NoFeed},
              task : Feeds \cup {NoFeed}, again : BOOLEAN]

Init ==
  /\ feed = [f \in Feeds |-> "none"] /\ sent = [f \in Feeds |-> {}] /\ silent = {}
  /\ live = NoFeed /\ dynamic = {} /\ raced = FALSE
  /\ thread = NoFeed /\ task = NoFeed /\ recentStart = FALSE /\ recentTick = FALSE
  /\ refresh = NoFeed /\ overlap = FALSE /\ died = FALSE
  /\ call = [a \in Callers |-> Idle]
  /\ session = "before"
  /\ faults = 0

Fault == faults < MaxFaults /\ faults' = faults + 1

-----------------------------------------------------------------------------
(* The task: OpenAlgoWSClient.run.                                          *)

Connected == {f \in Feeds : feed[f] \in {"replay", "up"}}
Active == {f \in Feeds : feed[f] \in {"boot", "down", "replay", "up"}}

Boot(f) ==
  /\ feed[f] = "boot"
  /\ feed' = [feed EXCEPT ![f] = "down"]
  /\ task' = f
  /\ UNCHANGED <<sent, silent, live, dynamic, raced, thread, recentStart, recentTick, call,
                 refresh, session, overlap, died, faults>>

(* It only authenticated once, and forgot to subscribe again.               *)
ConnectBare(f) ==
  /\ feed[f] = "down"
  /\ feed' = [feed EXCEPT ![f] = "replay"]
  /\ sent' = [sent EXCEPT ![f] = IF faults = 0 THEN Indices \cup dynamic ELSE {}]
  /\ raced' = FALSE
  /\ UNCHANGED <<silent, live, dynamic, supervisor, recentTick, call, refresh, session, overlap,
                 died, faults>>

(* Authenticate, and start to replay what is registered now.                *)
Connect(f) ==
  /\ feed[f] = "down"
  /\ feed' = [feed EXCEPT ![f] = "replay"]
  /\ sent' = [sent EXCEPT ![f] = Indices \cup dynamic]
  /\ raced' = FALSE
  /\ UNCHANGED <<silent, live, dynamic, supervisor, recentTick, call, refresh, session, overlap,
                 died, faults>>

Publish(f) ==
  /\ feed[f] = "replay"
  /\ feed' = [feed EXCEPT ![f] = "up"]
  /\ live' = f
  /\ UNCHANGED <<sent, silent, dynamic, raced, supervisor, recentTick, call, refresh, session,
                 overlap, died, faults>>

(* The connection of the feeds in F ends; the finally of a published one    *)
(* takes the handle back, whoever's it is.                                  *)
Disconnected(F, stage) ==
  /\ feed' = [f \in Feeds |-> IF f \in F THEN stage ELSE feed[f]]
  /\ sent' = [f \in Feeds |-> IF f \in F THEN {} ELSE sent[f]]
  /\ silent' = silent \ F
  /\ live' = IF \E f \in F : feed[f] = "up" THEN NoFeed ELSE live
  /\ UNCHANGED <<dynamic, raced>>

Drop(f) ==
  /\ f \in Connected
  /\ Fault
  /\ Disconnected({f}, "down")
  /\ UNCHANGED <<supervisor, recentTick, call, refresh, session, overlap, died>>

Die(f) ==
  /\ feed[f] \in {"down", "replay", "up"}
  /\ Fault /\ died' = TRUE
  /\ Disconnected({f}, "dead")
  /\ UNCHANGED <<supervisor, recentTick, call, refresh, session, overlap>>

(* The broker side of every connection is gone, the sockets stay up.        *)
Silenced == silent' = silent \cup Connected

LoseAdapter ==
  /\ Fault
  /\ Silenced
  /\ UNCHANGED <<feed, sent, live, dynamic, raced, supervisor, recentTick, call, refresh, session,
                 overlap, died>>

Ticking == {f \in Feeds : feed[f] = "up" /\ f \notin silent /\ sent[f] # {}}

Tick ==
  /\ Ticking # {} /\ session = "open"
  /\ recentTick' = TRUE
  /\ UNCHANGED <<client, supervisor, call, refresh, session, overlap, died, faults>>

(* More than stale_after goes by without a start or a tick: calls take ten  *)
(* seconds, and a thread boots at once.                                     *)
Age ==
  /\ \A f \in Feeds : feed[f] # "boot"
  /\ \A a \in Callers : call[a].at = "idle"
  /\ recentStart' = FALSE /\ recentTick' = FALSE
  /\ UNCHANGED <<client, thread, task, call, refresh, session, overlap, died, faults>>

-----------------------------------------------------------------------------
(* start() and stop(), one step per read and write of the shared fields.    *)

(* _task is None while a first thread boots; a finished task of an earlier  *)
(* thread answers for a later one until that has booted.                    *)
Done(t) == t # NoFeed /\ feed[t] \in {"none", "dead"}
IsRunning == thread # NoFeed /\ ~Done(task)

Busy(a) == \/ \E b \in Callers \ {a} : call[b].at # "idle"
           \/ \E f \in Feeds : feed[f] = "boot"

(* A call begins at step s; `again` makes a stop the first half of a bounce. *)
Begin(a, s, again) ==
  /\ call[a].at = "idle"
  /\ call' = [call EXCEPT ![a] = [Idle EXCEPT !.at = s, !.again = again]]
  /\ overlap' = (overlap \/ Busy(a)) /\ (overlap' => Overlaps)

Returns(a) == call' = [call EXCEPT ![a] = IF @.again THEN [Idle EXCEPT !.at = "start"] ELSE Idle]

StartChecks(a) ==
  /\ call[a].at = "start"
  /\ call' = [call EXCEPT ![a] = IF IsRunning THEN Idle ELSE [Idle EXCEPT !.at = "launch"]]
  /\ UNCHANGED <<client, supervisor, recentTick, refresh, session, overlap, died, faults>>

Referred == {thread, task, refresh} \cup {call[a].loop : a \in Callers}
                                    \cup {call[a].task : a \in Callers}
Fresh(f) == feed[f] = "none" /\ f \notin Referred

StartLaunches(a) ==
  /\ call[a].at = "launch"
  /\ \E f \in Feeds :
       /\ Fresh(f) /\ \A g \in Feeds : Fresh(g) => f <= g
       /\ feed' = [feed EXCEPT ![f] = "boot"]
       /\ thread' = f
  /\ recentStart' = TRUE
  /\ call' = [call EXCEPT ![a] = Idle]
  /\ UNCHANGED <<sent, silent, live, dynamic, raced, task, recentTick, refresh, session, overlap,
                 died, faults>>

StopChecks(a) ==
  /\ call[a].at = "stop"
  /\ IF IsRunning
     THEN call' = [call EXCEPT ![a] = [@ EXCEPT !.at = "close", !.loop = thread, !.task = task]]
     ELSE Returns(a)
  /\ UNCHANGED <<client, supervisor, recentTick, refresh, session, overlap, died, faults>>

(* The thread was forgotten with its loop still running.                    *)
StopForgets(a) ==
  /\ call[a].at = "close"
  /\ thread' = NoFeed
  /\ Returns(a)
  /\ UNCHANGED <<client, task, recentStart, recentTick, refresh, session, overlap, died, faults>>

(* The loop is stopped, with the task that was read beside it.  A loop that *)
(* another stop has closed in the meantime makes this one raise.            *)
StopCloses(a) ==
  /\ call[a].at = "close"
  /\ \/ /\ feed[call[a].loop] = "none"
        /\ call' = [call EXCEPT ![a] = Idle]
        /\ UNCHANGED <<client, supervisor>>
     \/ /\ feed[call[a].loop] # "none"
        /\ \E other \in SUBSET ({call[a].task} \ {NoFeed, call[a].loop}) :
             LET dying == {f \in other : feed[f] \in {"down", "replay", "up"}}
                 F == dying \cup {call[a].loop}
             IN  /\ Disconnected(F, "none")
                 /\ task' = task
        /\ thread' = NoFeed
        /\ Returns(a)
        /\ UNCHANGED recentStart
  /\ UNCHANGED <<recentTick, refresh, session, overlap, died, faults>>

-----------------------------------------------------------------------------
(* Who calls them.                                                          *)

(* 09:10; the job may be missed.                                            *)
SessionOpens ==
  /\ session = "before"
  /\ session' = "open"
  /\ Begin("job", "start", FALSE) \/ UNCHANGED <<call, overlap>>
  /\ UNCHANGED <<client, supervisor, recentTick, refresh, died, faults>>

(* 15:35.                                                                   *)
SessionCloses ==
  /\ session = "open"
  /\ session' = "after"
  /\ Begin("job", "stop", FALSE)
  /\ UNCHANGED <<client, supervisor, recentTick, refresh, died, faults>>

(* It only looked at the thread.                                            *)
CheckThreadAlive ==
  /\ ~IsRunning /\ session = "open"
  /\ ~recentStart /\ ~recentTick
  /\ Begin("health", "stop", TRUE)
  /\ UNCHANGED <<client, supervisor, recentTick, refresh, session, died, faults>>

(* Every five minutes from 09:00 to 15:55.                                  *)
CheckFeedHealth ==
  /\ IsRunning
  /\ ~recentStart /\ ~recentTick
  /\ Begin("health", "stop", TRUE)
  /\ UNCHANGED <<client, supervisor, recentTick, refresh, session, died, faults>>

(* POST /api/engine/relogin-broker, when the login succeeds: the broker     *)
(* forgets its side of the connections.                                     *)
ReloginBroker ==
  /\ Fault
  /\ Silenced
  /\ IF IsRunning THEN Begin("api", "stop", TRUE) ELSE UNCHANGED <<call, overlap>>
  /\ UNCHANGED <<feed, sent, live, dynamic, raced, supervisor, recentTick, refresh, session, died>>

(* The process dies; a new one starts the feed within the window.           *)
Restart ==
  /\ Fault
  /\ feed' = [f \in Feeds |-> "none"] /\ sent' = [f \in Feeds |-> {}] /\ silent' = {}
  /\ live' = NoFeed /\ dynamic' = {} /\ raced' = FALSE
  /\ thread' = NoFeed /\ task' = NoFeed /\ recentStart' = FALSE /\ recentTick' = FALSE
  /\ refresh' = NoFeed /\ overlap' = FALSE /\ died' = FALSE
  /\ call' = [a \in Callers |-> IF a = "job" /\ session = "open"
                                THEN [Idle EXCEPT !.at = "start"] ELSE Idle]
  /\ UNCHANGED session

-----------------------------------------------------------------------------
(* refresh_late_instruments, on a thread of its own: about half a minute of *)
(* broker calls between the look at the loop and the coroutine on it.       *)

RefreshBegins ==
  /\ refresh = NoFeed /\ IsRunning
  /\ refresh' = thread
  /\ UNCHANGED <<client, supervisor, recentTick, call, session, overlap, died, faults>>

(* Nothing resolved, or the loop was closed meanwhile.                      *)
RefreshFails ==
  /\ refresh # NoFeed
  /\ refresh' = NoFeed
  /\ UNCHANGED <<client, supervisor, recentTick, call, session, overlap, died, faults>>

(* set_dynamic_subscriptions.                                               *)
RefreshLands(D) ==
  /\ refresh # NoFeed /\ feed[refresh] # "none"
  /\ dynamic' = D
  /\ sent' = IF live = NoFeed THEN sent
             ELSE [sent EXCEPT ![live] = @ \cup (D \ (Indices \cup dynamic))]
  /\ raced' = (raced \/ \E f \in Feeds : feed[f] = "replay")
  /\ refresh' = NoFeed
  /\ UNCHANGED <<feed, silent, live, supervisor, recentTick, call, session, overlap, died, faults>>

Next ==
  \/ \E f \in Feeds : Boot(f) \/ Connect(f) \/ Publish(f) \/ Drop(f) \/ Die(f)
  \/ LoseAdapter \/ Tick \/ Age
  \/ \E a \in Callers : StartChecks(a) \/ StartLaunches(a) \/ StopChecks(a) \/ StopCloses(a)
  \/ SessionOpens \/ SessionCloses \/ CheckFeedHealth \/ ReloginBroker \/ Restart
  \/ RefreshBegins \/ RefreshFails \/ \E D \in Bands : RefreshLands(D)

Spec == Init /\ [][Next]_vars

(* Calls and threads run, the 5-minute job comes again and time goes by; no *)
(* outage of the broker is for ever, so that of the attempts to connect,    *)
(* which the health check may cut short, one succeeds, and then it ticks.   *)
Fairness ==
  /\ \A a \in Callers : WF_vars(StartChecks(a) \/ StartLaunches(a) \/ StopChecks(a) \/ StopCloses(a))
  /\ WF_vars(CheckFeedHealth) /\ WF_vars(Age)
  /\ SF_vars(\E f \in Feeds : Boot(f)) /\ SF_vars(\E f \in Feeds : Connect(f))
  /\ SF_vars(\E f \in Feeds : Publish(f)) /\ SF_vars(Tick)
FairSpec == Spec /\ Fairness

-----------------------------------------------------------------------------
(* Properties.                                                              *)

TypeOK ==
  /\ feed \in [Feeds -> Stage]
  /\ sent \in [Feeds -> SUBSET Instruments]
  /\ silent \subseteq Feeds
  /\ {live, thread, task, refresh} \subseteq Feeds \cup {NoFeed}
  /\ dynamic \subseteq Instruments
  /\ {recentStart, recentTick, overlap, raced} \subseteq BOOLEAN
  /\ call \in [Callers -> CallState]
  /\ session \in {"before", "open", "after"}
  /\ died \in BOOLEAN /\ faults \in 0 .. MaxFaults

(* One feed ticks into the recorder, and after 15:35 none does, unless two  *)
(* calls overlapped or a call came while a thread was booting.              *)
Quiet == session = "after" /\ \A a \in Callers : call[a].at = "idle"
OneFeed ==
  ~overlap => /\ \A f, g \in Active : f = g
              /\ Quiet => Active = {}

(* "Every (re)connect sends one subscribe frame per registered instrument": *)
(* what is registered is subscribed on the published connection, unless a   *)
(* resolution landed while an older set was replayed.                       *)
RegisteredIsSubscribed ==
  live # NoFeed /\ ~overlap => /\ Indices \subseteq sent[live]
                               /\ raced \/ dynamic \subseteq sent[live]

(* A feed that was started ticks in the end, however often it is dropped or *)
(* silenced, through its own reconnect or the health check's bounce, unless *)
(* its task died, calls overlapped or the window is over.                   *)
FeedComesBack ==
  (session = "open" /\ thread # NoFeed /\ ~overlap)
    ~> (Ticking # {} \/ session # "open" \/ overlap \/ died)
=============================================================================
