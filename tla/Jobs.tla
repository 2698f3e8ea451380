---------------------------------- MODULE Jobs ----------------------------------
(***************************************************************************)
(* The scheduled jobs that only their clock runs (engine/scheduler.py):    *)
(* the broker login of 08:40 with its catch-up when the process starts,    *)
(* the recorder of 09:10 with its own, the calendar refresh of Sunday      *)
(* 08:00 and the hourly bhavcopy ingest of the evening.  The job store is  *)
(* in memory: a restart forgets every run that was due or under way.       *)
(*                                                                         *)
(* A date is one the clock visits; the exchange may announce another list  *)
(* of holidays at every fetch.                                             *)
(***************************************************************************)
EXTENDS Integers, Sequences

CONSTANTS
  Dates,        \* 1 .. n, in order
  Weekdays, Sundays,
  Specials,     \* where the exchange may hold a special session
  YearOf,       \* of a date
  December,     \* the dates of a December
  Exchanges,    \* the sources of a bhavcopy
  MaxBoots      \* bound

ASSUME JobAssumption ==
  /\ \E n \in Dates : Dates = 1 .. n
  /\ Weekdays \cup Sundays \cup Specials \cup December \subseteq Dates /\ Weekdays \cap Sundays = {}
  /\ YearOf \in [Dates -> Nat]
  /\ \E nse, bse \in Exchanges : Exchanges = {nse, bse}

(* Midnight, 08:40, 09:10, and two of the hours from 19:00.                 *)
Slots == <<"early", "login", "session", "evening", "late">>
Early == 1
LoginAt == 2
SessionAt == 3
EveningAt == 4

Years == {YearOf[d] : d \in Dates} \cup {YearOf[d] + 1 : d \in December}
OfYear(y) == {d \in Dates : YearOf[d] = y}
NoDate == 0

VARIABLES
  date, slot, alive, boots,
  calendar,     \* [known, closed, special] as stored, of the exchange the jobs ask for
  fetched,      \* history: the last list read of a year
  refreshing,   \* the years the refresh under way still has to fetch
  stamp,        \* last_broker_relogin_day
  loginUnderWay,
  loggedIn,     \* the day of the broker's session, at the broker
  answered,     \* this process has had an answer to a login today
  catchUpAt,    \* this process started in this slot of today
  recorder,     \* the supervisor runs
  queue, target,    \* the exchanges the ingest under way still has to do, for which day
  unlogged,     \* whose rows are committed and not yet in the log
  copies,       \* of a day's rows of an exchange
  done          \* the days of an exchange with a "success" row

clockVars == <<date, slot, alive, boots>>
calendarVars == <<calendar, fetched, refreshing>>
loginVars == <<stamp, loginUnderWay, loggedIn, answered, catchUpAt, recorder>>
ingestVars == <<queue, target, unlogged, copies, done>>
jobVars == <<date, slot, alive, boots, calendar, fetched, refreshing, stamp, loginUnderWay, loggedIn,
             answered, catchUpAt, recorder, queue, target, unlogged, copies, done>>

Nobody == "nobody"
Calendars == [known : BOOLEAN, closed : SUBSET Dates, special : SUBSET Dates]
Unknown == [known |-> FALSE, closed |-> {}, special |-> {}]

IsTradingDay(c, d) == c.known /\ (d \in c.special \/ (d \in Weekdays /\ d \notin c.closed))

JobInit ==
  /\ date = 1 /\ slot = Len(Slots) /\ alive = FALSE /\ boots = 0
  /\ calendar = Unknown /\ fetched = [y \in Years |-> Unknown] /\ refreshing = <<>>
  /\ stamp = NoDate /\ loginUnderWay = FALSE /\ loggedIn = NoDate
  /\ answered = FALSE /\ catchUpAt = FALSE /\ recorder = FALSE
  /\ queue = <<>> /\ target = NoDate /\ unlogged = Nobody
  /\ copies = [x \in Exchanges |-> [d \in Dates |-> 0]] /\ done = [x \in Exchanges |-> {}]

-----------------------------------------------------------------------------
(* The clock enters a slot and the scheduler starts what it holds for it.   *)

YearsToRefresh(d) == IF d \in December THEN <<YearOf[d], YearOf[d] + 1>> ELSE <<YearOf[d]>>
InSomeOrder == CHOOSE s \in [1 .. 2 -> Exchanges] : {s[1], s[2]} = Exchanges

Fires(d, s) ==
  /\ refreshing' = IF s = Early /\ d \in Sundays /\ refreshing = <<>> THEN YearsToRefresh(d) ELSE refreshing
  /\ loginUnderWay' = (loginUnderWay \/ (s = LoginAt /\ d \in Weekdays))
  /\ recorder' = IF d \notin Weekdays THEN recorder
                 ELSE IF s = SessionAt THEN TRUE ELSE IF s = EveningAt THEN FALSE ELSE recorder
  /\ IF s >= EveningAt /\ d \in Weekdays /\ queue = <<>>
       THEN queue' = InSomeOrder /\ target' = d
       ELSE UNCHANGED <<queue, target>>

Idles == UNCHANGED <<refreshing, loginUnderWay, recorder, queue, target>>

Tick ==
  /\ ~loginUnderWay /\ queue = <<>> /\ refreshing = <<>>      \* a job ends within its slot
  /\ \/ slot < Len(Slots) /\ slot' = slot + 1 /\ date' = date /\ answered' = answered
     \/ slot = Len(Slots) /\ date + 1 \in Dates /\ date' = date + 1 /\ slot' = Early /\ answered' = FALSE
  /\ IF alive THEN Fires(date', slot') ELSE Idles
  /\ catchUpAt' = FALSE
  /\ UNCHANGED <<alive, boots, calendar, fetched, stamp, loggedIn, unlogged, copies, done>>

-----------------------------------------------------------------------------
(* relogin_is_overdue, should_start_recorder_now and the lifespan.          *)

StampedOn(d) == stamp = d      \* a date, not a time; a value that does not parse is none
LoginOverdue == IsTradingDay(calendar, date) /\ ~StampedOn(date) /\ slot \in {LoginAt, SessionAt}

ShouldRecord == IsTradingDay(calendar, date) /\ slot = SessionAt

Boot ==
  /\ ~alive /\ boots < MaxBoots
  /\ alive' = TRUE /\ boots' = boots + 1
  /\ recorder' = ShouldRecord
  /\ loginUnderWay' = LoginOverdue
  /\ answered' = FALSE /\ catchUpAt' = TRUE
  /\ UNCHANGED <<date, slot, calendarVars, stamp, loggedIn, ingestVars>>

Crash ==
  /\ alive
  /\ alive' = FALSE
  /\ refreshing' = <<>> /\ loginUnderWay' = FALSE /\ recorder' = FALSE
  /\ queue' = <<>> /\ unlogged' = Nobody
  /\ UNCHANGED <<date, slot, boots, calendar, fetched, stamp, loggedIn, answered, catchUpAt, target, copies, done>>

(* run_openalgo_relogin over login_openalgo: only a success is stamped.     *)
StampsAnyAnswer(ok) == stamp' = date
Stamps(ok) == stamp' = IF ok THEN date ELSE stamp

BrokerAccepts ==
  /\ loginUnderWay /\ loggedIn # date
  /\ loggedIn' = date
  /\ UNCHANGED <<clockVars, calendarVars, stamp, loginUnderWay, answered, catchUpAt, recorder, ingestVars>>

LoginEnds ==
  /\ loginUnderWay
  /\ loginUnderWay' = FALSE /\ answered' = TRUE
  /\ Stamps(loggedIn = date)
  /\ UNCHANGED <<clockVars, calendarVars, loggedIn, catchUpAt, recorder, ingestVars>>

-----------------------------------------------------------------------------
(* refresh_calendar of one year; a row that does not parse is only missing  *)
(* from the list, and a failed fetch keeps the stored one.                  *)

Lists(y) == [known : {TRUE}, closed : SUBSET (OfYear(y) \cap Weekdays), special : SUBSET (OfYear(y) \cap Specials)]

MergedByUnion(old, fresh, y) ==
  [known |-> TRUE, closed |-> old.closed \cup fresh.closed, special |-> old.special \cup fresh.special]
Merged(old, fresh, y) ==
  [known |-> TRUE,
   closed |-> (old.closed \ OfYear(y)) \cup fresh.closed,
   special |-> (old.special \ OfYear(y)) \cup fresh.special]

Refresh(fresh) ==
  LET y == Head(refreshing) IN
  /\ calendar' = IF calendar.known THEN Merged(calendar, fresh, y) ELSE fresh
  /\ fetched' = [fetched EXCEPT ![y] = fresh]

RefreshStep ==
  /\ refreshing # <<>>
  /\ \/ \E fresh \in Lists(Head(refreshing)) : Refresh(fresh)
     \/ UNCHANGED <<calendar, fetched>>
  /\ refreshing' = Tail(refreshing)
  /\ UNCHANGED <<clockVars, loginVars, ingestVars>>

-----------------------------------------------------------------------------
(* _run_bhavcopy_ingest: per exchange, rows first (delete, then insert, in  *)
(* one transaction), the log row in a transaction of its own.               *)

Appended(n) == n + 1
Upserted(n) == 1

AlreadyIngested(exchange, day) == day \in done[exchange]      \* a "success" row, not any row

Skip ==
  /\ queue # <<>> /\ unlogged = Nobody
  /\ AlreadyIngested(Head(queue), target)
  /\ queue' = Tail(queue)
  /\ UNCHANGED <<clockVars, calendarVars, loginVars, target, unlogged, copies, done>>

Fetch ==
  /\ queue # <<>> /\ unlogged = Nobody
  /\ ~AlreadyIngested(Head(queue), target)
  /\ \/ /\ copies' = [copies EXCEPT ![Head(queue)][target] = Upserted(@)]
        /\ unlogged' = Head(queue) /\ UNCHANGED queue
     \/ queue' = Tail(queue) /\ UNCHANGED <<copies, unlogged>>      \* a "failed" row, tried again next hour
  /\ UNCHANGED <<clockVars, calendarVars, loginVars, target, done>>

Record ==
  /\ unlogged # Nobody
  /\ done' = [done EXCEPT ![unlogged] = @ \cup {target}]
  /\ unlogged' = Nobody /\ queue' = Tail(queue)
  /\ UNCHANGED <<clockVars, calendarVars, loginVars, target, copies>>

JobNext ==
  \/ Tick \/ Boot \/ Crash
  \/ BrokerAccepts \/ LoginEnds
  \/ RefreshStep
  \/ Skip \/ Fetch \/ Record

JobSpec == JobInit /\ [][JobNext]_jobVars

-----------------------------------------------------------------------------
JobTypeOK ==
  /\ date \in Dates /\ slot \in 1 .. Len(Slots) /\ boots \in 0 .. MaxBoots
  /\ {alive, loginUnderWay, answered, catchUpAt, recorder} \subseteq BOOLEAN
  /\ calendar \in Calendars
  /\ {stamp, loggedIn, target} \subseteq Dates \cup {NoDate}
  /\ unlogged \in Exchanges \cup {Nobody}
  /\ copies \in [Exchanges -> [Dates -> Nat]] /\ done \in [Exchanges -> SUBSET Dates]

(* However often the process dies and restarts: on a trading day, from the  *)
(* catch-up or the cron on, it is logged in, or this very process has had a *)
(* refusal; and in the session's hours it records.  (On a special session   *)
(* that is not a weekday only a process started within the window does.)    *)
CaughtUp ==
  alive /\ ~loginUnderWay /\ IsTradingDay(calendar, date) /\ (date \in Weekdays \/ catchUpAt) =>
    /\ slot \in {LoginAt, SessionAt} => loggedIn = date \/ answered
    /\ slot = SessionAt => recorder

(* Whatever was withdrawn, moved or fetched for another year: of a year     *)
(* that has ever been read, the stored calendar is the last list read.      *)
CalendarIsLatest ==
  \A y \in Years : fetched[y].known =>
    /\ calendar.known
    /\ calendar.closed \cap OfYear(y) = fetched[y].closed
    /\ calendar.special \cap OfYear(y) = fetched[y].special

(* A day the log calls done is stored, and nothing is stored twice, however *)
(* the evening's attempts, their failures and the crashes fall.             *)
DoneIsStoredOnce ==
  \A x \in Exchanges, d \in Dates :
    /\ copies[x][d] <= 1
    /\ d \in done[x] => copies[x][d] = 1

(* The day's work is caught up with, once, on the calendar last read,       *)
(* whatever dies, fails or comes late.                                      *)
JobsCatchUp == CaughtUp /\ CalendarIsLatest /\ DoneIsStoredOnce
=================================================================================
