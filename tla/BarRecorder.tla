------------------------------ MODULE BarRecorder ------------------------------
(***************************************************************************)
(* Ticks into one-minute bars: BarRecorder.on_tick, flush_all and _flush   *)
(* (engine/te/data/recorder.py) over the append-only BarStore.  Every      *)
(* table of the recorder is keyed by the symbol, so one symbol is enough.  *)
(*                                                                         *)
(* What the exchange sends is a tape of ticks in order.  The feed delivers *)
(* them, loses some, and after a reconnect may deliver old ones again; a   *)
(* write may fail, which makes on_tick raise and its tick be dropped.      *)
(* Ticks are named by their place on the tape, and a bar is kept as the    *)
(* two ticks its volume is the difference of.                              *)
(***************************************************************************)
EXTENDS Integers

CONSTANTS
  N,           \* the length of the tape
  Minute,      \* [1..N -> Nat]: the minute bucket of a tick
  Total,       \* [1..N -> Nat]: all that was ever traded up to it
  Base,        \* [1..N -> Nat]: what had been traded before its session
  Failures,    \* TRUE: BarStore.append may raise
  MaxReplays,  \* bound on redeliveries
  MaxRestarts  \* bound on process restarts

ASSUME TapeAssumption ==
  /\ N \in Nat
  /\ Minute \in [1 .. N -> Nat] /\ Total \in [1 .. N -> Nat] /\ Base \in [1 .. N -> Nat]
  /\ \A i, j \in 1 .. N : i <= j =>
       /\ Minute[i] <= Minute[j] /\ Total[i] <= Total[j] /\ Base[i] <= Base[j]
       /\ Base[i] # Base[j] => Total[i] <= Base[j]
  /\ \A i \in 1 .. N : Base[i] <= Total[i]
ASSUME BoundsAssumption ==
  Failures \in BOOLEAN /\ MaxReplays \in Nat /\ MaxRestarts \in Nat

VARIABLES
  bars,     \* _open_bars: records minute, start, last
  flushed,  \* _flushed_keys
  latest,   \* the tick _last_cumulative_volume was read from, 0 for none
  store,    \* the rows written, with the process that wrote them
  pos,      \* the last tick the feed delivered or lost
  high,     \* the furthest it has been
  gap,      \* the last tick that was lost, or raised
  late,     \* a tick that was lost before has been delivered after all
  replays, life

feed == <<high, late, replays>>
vars == <<bars, flushed, latest, store, pos, gap, feed, life>>

Ticks == 1 .. N
Bar == [minute : Nat, start : Ticks, last : Ticks]
Row == [life : Nat, minute : Nat, start : Ticks, last : Ticks, volume : Nat]

Init ==
  /\ bars = {} /\ flushed = {} /\ latest = 0 /\ store = {}
  /\ pos = 0 /\ high = 0 /\ gap = 0 /\ late = FALSE
  /\ replays = 0 /\ life = 0

Later(i, j) == IF i < j THEN j ELSE i

-----------------------------------------------------------------------------
(* What the broker reports: the volume of the session so far.               *)
Reported(i) == Total[i] - Base[i]

(* _RunningBar.bar_volume; it was the reported total once.                  *)
BarVolumeRaw(b) == Reported(b.last)
BarVolume(b) ==
  IF Reported(b.last) < Reported(b.start) THEN Reported(b.last)
  ELSE Reported(b.last) - Reported(b.start)

(* _flush of the bars in F: written first, forgotten afterwards.            *)
RowOf(b) == [life |-> life, minute |-> b.minute, start |-> b.start,
             last |-> b.last, volume |-> BarVolume(b)]
MinutesOf(B) == {b.minute : b \in B}

Written(F) ==
  /\ store' = store \cup {RowOf(b) : b \in F}
  /\ flushed' = flushed \cup MinutesOf(F)

(* An append raises: some bars of B were written before it, and the rest    *)
(* are kept for the next flush.  They were forgotten before the write once. *)
RaisesForgetful(B) ==
  /\ Failures
  /\ \E F \in SUBSET B : F # B /\ Written(F)
  /\ bars' = bars \ B
Raises(B) ==
  /\ Failures
  /\ \E F \in SUBSET B :
       /\ F # B
       /\ Written(F)
       /\ bars' = bars \ F

-----------------------------------------------------------------------------
(* on_tick(i), once the bars of earlier minutes are flushed.                *)

Stale(i) == {b \in bars : b.minute < Minute[i]}
Kept(i) == {b \in bars : b.minute >= Minute[i]}

(* A first tick measures from itself, a later bar from where the one before *)
(* it ended.                                                                *)
Opened(i) == [minute |-> Minute[i], last |-> i,
              start |-> IF latest = 0 THEN i ELSE latest]

Take(i) ==
  /\ bars' = IF Minute[i] \in MinutesOf(bars)
             THEN {IF b.minute = Minute[i] THEN [b EXCEPT !.last = i] ELSE b : b \in Kept(i)}
             ELSE Kept(i) \cup {Opened(i)}
  /\ latest' = i
TakeNew(i) ==
  \/ /\ Minute[i] \notin flushed
     /\ Take(i)
  \/ /\ Minute[i] \in flushed
     /\ bars' = Kept(i)
     /\ UNCHANGED latest

OnTick(i) ==
  /\ Written(Stale(i))
  /\ TakeNew(i)
  /\ UNCHANGED gap

(* A raise ends on_tick before its tick is looked at (OpenAlgoWSClient.run  *)
(* logs and drops it).                                                      *)
OnTickRaises(i) ==
  /\ Raises(Stale(i))
  /\ gap' = Later(gap, i)
  /\ UNCHANGED latest

Deliver ==
  /\ pos < N
  /\ pos' = pos + 1
  /\ high' = Later(high, pos + 1)
  /\ OnTick(pos + 1) \/ OnTickRaises(pos + 1)
  /\ UNCHANGED <<late, replays, life>>

(* The connection is down when the tick is sent.                            *)
Lose ==
  /\ pos < N
  /\ pos' = pos + 1
  /\ high' = Later(high, pos + 1)
  /\ gap' = Later(gap, pos + 1)
  /\ UNCHANGED <<bars, flushed, latest, store, late, replays, life>>

(* After a reconnect the broker delivers from an earlier tick on.           *)
Replay(k) ==
  /\ replays < MaxReplays
  /\ k < pos
  /\ pos' = k
  /\ late' = (late \/ k < gap)
  /\ replays' = replays + 1
  /\ UNCHANGED <<bars, flushed, latest, store, high, gap, life>>

(* stop(), for the day, for a self-heal or for a shutdown.                  *)
FlushAll ==
  /\ bars # {}
  /\ \/ Written(bars) /\ bars' = {}
     \/ Raises(bars)
  /\ UNCHANGED <<latest, pos, gap, feed, life>>

(* A new process has an empty recorder and joins the live feed.             *)
Restart ==
  /\ life < MaxRestarts
  /\ life' = life + 1
  /\ bars' = {} /\ flushed' = {} /\ latest' = 0
  /\ pos' = high /\ gap' = high
  /\ UNCHANGED <<store, feed>>

Next ==
  \/ Deliver
  \/ Lose
  \/ \E k \in 0 .. N : Replay(k)
  \/ FlushAll
  \/ Restart

Spec == Init /\ [][Next]_vars

-----------------------------------------------------------------------------
(* Properties.                                                              *)

TypeOK ==
  /\ bars \subseteq Bar
  /\ flushed \subseteq Nat
  /\ latest \in 0 .. N
  /\ store \subseteq Row
  /\ pos \in 0 .. N /\ high \in 0 .. N /\ gap \in 0 .. N
  /\ late \in BOOLEAN
  /\ replays \in 0 .. MaxReplays /\ life \in 0 .. MaxRestarts

(* "This recorder is idempotent per (symbol, interval, event_ts)": however  *)
(* often ticks come again, early, late or after failed writes, a process    *)
(* writes a minute once.                                                    *)
OneRowPerMinute ==
  \A r, s \in store : r.life = s.life /\ r.minute = s.minute => r = s

(* Until the feed delivers a tick it had lost, no trade is counted in two   *)
(* bars and no bar has more volume than was traded between its two ticks,   *)
(* whatever is redelivered, lost, flushed early or cut by a restart, and    *)
(* across the rollover of the broker's count (bar_volume, and the baseline  *)
(* that redelivered history must not drag backwards).                       *)
NoTradeCountedTwice ==
  ~late =>
    \A r \in store :
      /\ r.volume <= Total[r.last] - Total[r.start]
      /\ \A s \in store : r = s \/ r.last <= s.start \/ s.last <= r.start

(* The store has a minute once and a trade once, each as far as the         *)
(* recorder can know it (on_tick, _flush).                                  *)
StoreCountsOnce == OneRowPerMinute /\ NoTradeCountedTwice

(* "Bar retained for a later retry, not lost": within a process a bar only  *)
(* goes away into the store, complete (_flush).                             *)
FailedFlushKeepsBar ==
  [][life' = life =>
       \A b \in bars : b.minute \in MinutesOf(bars') \/ RowOf(b) \in store']_vars
=============================================================================
