------------------------------- MODULE Monitors --------------------------------
(***************************************************************************)
(* The decay monitors (risk/monitors.py) over the kill switch              *)
(* (risk/killswitch.py): the slippage of the fills and the CUSUM chart of  *)
(* the daily results throttle, the chart and the drawdown envelope halt.   *)
(* A halt is a flag in the process and one in the database; a restart      *)
(* keeps only the second, and the chart's two sums.                        *)
(*                                                                         *)
(* Results are in half volatility units.                                   *)
(***************************************************************************)
EXTENDS Integers, Sequences, FiniteSetsExt

CONSTANTS
  Results,      \* a day's standardized result
  Drift, Slack, ThrottleAt, HaltAt,    \* mu0, k, h1, h2 of CusumConfig
  Divergences,  \* actual minus expected cost of a fill
  MinFills, Window,      \* of SlippageMonitor
  Drawdowns, Envelope,   \* the current drawdown, and the stored 95th percentile
  MaxDays, MaxFills      \* bounds

ASSUME MonitorAssumption ==
  /\ Results \cup Divergences \cup Drawdowns \subseteq Int
  /\ {Drift, Slack, ThrottleAt, HaltAt} \subseteq Int /\ Slack >= 0 /\ 0 < ThrottleAt /\ ThrottleAt < HaltAt
  /\ MinFills \in Nat \ {0} /\ Window \in Nat \ {0} /\ Envelope \in Int

VARIABLES
  results,     \* of every day so far
  up, down,    \* S+ and S-, as persisted
  fills,       \* the divergence of every fill
  tripped,     \* the flag of the process
  haltKind,    \* the flag of the database: "none", "daily", "human"
  throttled,
  owed         \* a monitor has halted since the operator last reset

monitorVars == <<results, up, down, fills, tripped, haltKind, throttled, owed>>
switch == <<tripped, haltKind, throttled, owed>>

MonitorInit ==
  /\ results = <<>> /\ up = 0 /\ down = 0 /\ fills = <<>>
  /\ tripped = FALSE /\ haltKind = "none" /\ throttled = FALSE /\ owed = FALSE

AtLeastZero(n) == IF n > 0 THEN n ELSE 0
Larger(a, b) == IF a > b THEN a ELSE b

(* killswitch.trip and throttle.                                            *)
TripInProcess == tripped' = TRUE /\ owed' = TRUE /\ UNCHANGED <<haltKind, throttled>>
Trip == tripped' = TRUE /\ haltKind' = "human" /\ owed' = TRUE /\ UNCHANGED throttled
Throttle == throttled' = TRUE /\ UNCHANGED <<tripped, haltKind, owed>>

(* CusumMonitor.update.                                                     *)
UpdateDrifting(x) ==
  /\ results' = Append(results, x)
  /\ up' = AtLeastZero(up + (x - Drift - Slack))
  /\ down' = down - (x - Drift + Slack)
Update(x) ==
  /\ results' = Append(results, x)
  /\ up' = AtLeastZero(up + (x - Drift - Slack))
  /\ down' = AtLeastZero(down - (x - Drift + Slack))

DayCloses(x) ==
  /\ Len(results) < MaxDays
  /\ Update(x)
  /\ LET statistic == Larger(up', down') IN
       IF statistic >= HaltAt THEN Trip
       ELSE IF statistic >= ThrottleAt THEN Throttle ELSE UNCHANGED switch
  /\ UNCHANGED fills

(* SlippageMonitor.status: mean over stdev / sqrt(n) at least 2.5, squared. *)
Recent(s) == SubSeq(s, Larger(1, Len(s) - Window + 1), Len(s))
SumOf(s) == LET f[i \in 0 .. Len(s)] == IF i = 0 THEN 0 ELSE f[i-1] + s[i] IN f[Len(s)]
Breached(s) ==
  LET n == Len(s)
      sum == SumOf(s)
      spread == n * SumOf([i \in 1 .. n |-> s[i] * s[i]]) - sum * sum
  IN n >= MinFills /\ spread > 0 /\ sum > 0 /\ 4 * n * sum * sum >= 25 * spread

Observe(d) ==
  /\ Len(fills) < MaxFills
  /\ fills' = Append(fills, d)
  /\ IF Breached(Recent(fills')) THEN Throttle ELSE UNCHANGED switch
  /\ UNCHANGED <<results, up, down>>

(* DrawdownEnvelope.check.                                                  *)
Check(dd) ==
  /\ dd < Envelope
  /\ Trip
  /\ UNCHANGED <<results, up, down, fills>>

-----------------------------------------------------------------------------
(* The rest of the engine: the daily gate halts only when nothing does, the *)
(* 09:05 job clears its halt, the operator clears both layers.              *)

Refuses == tripped \/ haltKind # "none"   \* check

DailyGate ==
  /\ ~Refuses
  /\ haltKind' = "daily"
  /\ UNCHANGED <<results, up, down, fills, tripped, throttled, owed>>

MorningReset ==
  /\ haltKind = "daily"
  /\ haltKind' = "none"
  /\ UNCHANGED <<results, up, down, fills, tripped, throttled, owed>>

OperatorClears ==
  /\ haltKind' = "none" /\ tripped' = FALSE /\ owed' = FALSE
  /\ UNCHANGED <<results, up, down, fills, throttled>>

Reboot ==
  /\ tripped' = FALSE
  /\ UNCHANGED <<results, up, down, fills, haltKind, throttled, owed>>

MonitorNext ==
  \/ \E x \in Results : DayCloses(x)
  \/ \E d \in Divergences : Observe(d)
  \/ \E dd \in Drawdowns : Check(dd)
  \/ DailyGate \/ MorningReset \/ OperatorClears \/ Reboot

MonitorSpec == MonitorInit /\ [][MonitorNext]_monitorVars

-----------------------------------------------------------------------------
MonitorTypeOK ==
  /\ results \in Seq(Results) /\ fills \in Seq(Divergences)
  /\ up \in Nat /\ down \in Nat
  /\ {tripped, throttled, owed} \subseteq BOOLEAN /\ haltKind \in {"none", "daily", "human"}

(* The chart is what it is named after, over every restart: S- is the       *)
(* largest shortfall of any run of days that ends today, S+ the largest     *)
(* excess.                                                                  *)
RunOf(n, sign) == SumOf([i \in 1 .. n |-> sign * (results[Len(results) - i + 1] - Drift) - Slack])
LargestRun(sign) == Max({0} \cup {RunOf(n, sign) : n \in 1 .. Len(results)})
ChartIsOfTheDays == up = LargestRun(1) /\ down = LargestRun(-1)

(* What a monitor has halted stays halted, whatever else runs and however   *)
(* often the process restarts, until the operator resets it.                *)
TripIsKept == owed => Refuses /\ haltKind = "human"

(* Across restarts the monitors' chart is of all the days, and their halts  *)
(* are the operator's to lift.                                              *)
MonitorsOutlive == ChartIsOfTheDays /\ TripIsKept
=============================================================================
