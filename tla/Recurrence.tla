----------------------------- MODULE Recurrence -----------------------------
(***************************************************************************)
(* The dates of a repeating task: which anchor its schedule is counted     *)
(* from (Service.Update, anchorFor), which occurrence a completion opens   *)
(* (store.Complete) and on what date (api/internal/domain/recurrence.go).  *)
(*                                                                         *)
(* Time is a number of ticks since the start of FirstYear, in UTC: the     *)
(* zone step counts in is the one the value was read in from the database, *)
(* and the image the service runs in (api/Dockerfile) sets none.  A month  *)
(* is numbered from January of FirstYear, so that year and month of the    *)
(* code are one number.  The row followed is the live occurrence.          *)
(***************************************************************************)
EXTENDS Integers

CONSTANTS
  FirstYear,    \* a year, its calendar starts the count
  TicksPerDay,  \* how fine the time of day is
  Horizon,      \* bound: the last month of the calendar
  Instant,      \* bound: the instants tasks are completed or edited at
  Ahead,        \* bound: how many days before its date a task is completed
  Start,        \* the tasks followed: [due, unit, interval] as created
  EditDue,      \* bound: the due dates an edit may set
  EditRepeat,   \* bound: the schedules an edit may set: [unit, interval]
  MaxEdits      \* bound: edits made

Never == [unit |-> "none", interval |-> 0]
NoDate == -1

ASSUME CalendarIsFinite == Horizon \in Nat /\ Ahead \in Nat /\ MaxEdits \in Nat
ASSUME InstantsCount == 0 \in Instant /\ Instant \subseteq Nat
\* time.Time.Sub is exact up to 292 years, which the calendar does not exceed.
ASSUME SubIsExact == Horizon <= 12 * 292
ASSUME DaysHaveTicks == TicksPerDay \in Nat \ {0} /\ FirstYear \in Nat

\* What RecurUnit.Valid and the interval checks let through.
Unit == {"day", "week", "month"}
ASSUME SchedulesAreValid ==
  /\ Start \subseteq [due : Nat \cup {NoDate}, unit : Unit, interval : Nat \ {0}]
  /\ EditRepeat \subseteq [unit : Unit, interval : Nat \ {0}]
  /\ EditDue \subseteq Nat

VARIABLES
  now,      \* the clock
  due,      \* the due date of the live occurrence, or NoDate
  repeat,   \* its unit and interval, or Never
  anchor,   \* what its schedule is counted from, or NoDate
  edits,    \* edits so far
  created,  \* history: the due date it was created with
  broken,   \* history: its schedule has been cleared at some time
  moved     \* history: edited to another date or schedule since its last completion

vars == <<now, due, repeat, anchor, edits, created, broken, moved>>

-----------------------------------------------------------------------------
(* The calendar.                                                           *)

IsLeap(year) == year % 4 = 0 /\ (year % 100 # 0 \/ year % 400 = 0)

daysIn(m) ==
  LET month == (m % 12) + 1
  IN CASE month = 2 -> IF IsLeap(FirstYear + m \div 12) THEN 29 ELSE 28
       [] month \in {4, 6, 9, 11} -> 30
       [] OTHER -> 31

FirstDay[m \in 0..Horizon] == IF m = 0 THEN 0 ELSE FirstDay[m - 1] + daysIn(m - 1)

MonthOfDay == [d \in 0..FirstDay[Horizon] - 1 |->
  CHOOSE m \in 0..Horizon - 1 : FirstDay[m] <= d /\ d < FirstDay[m] + daysIn(m)]

DayNumber(t) == t \div TicksPerDay
MonthOf(t) == MonthOfDay[DayNumber(t)]
DayOf(t) == DayNumber(t) - FirstDay[MonthOf(t)] + 1
TimeOfDay(t) == t % TicksPerDay

At(m, day, time) == (FirstDay[m] + day - 1) * TicksPerDay + time

\* The dates the calendar knows.
InCalendar == {t \in Nat : DayNumber(t) < FirstDay[Horizon]}

\* One more period after t is still in it.
Room(t, interval) ==
  /\ t \in InCalendar
  /\ DayNumber(t) + 7 * interval < FirstDay[Horizon]
  /\ MonthOf(t) + interval < Horizon

Schedules == EditRepeat \cup {[unit |-> s.unit, interval |-> s.interval] : s \in Start}

\* The bounds fit together: no task followed leaves the calendar.
ASSUME CalendarIsLongEnough ==
  /\ EditDue \cup {s.due : s \in Start} \subseteq InCalendar \cup {NoDate}
  /\ \A t \in Instant, r \in Schedules : Room(t + Ahead * TicksPerDay, r.interval)

-----------------------------------------------------------------------------
(* NextDue.                                                                *)

\* Division of Go's integers, toward zero.
Quotient(a, b) == IF a >= 0 THEN a \div b ELSE -((-a) \div b)

Hours(t) == Quotient(t * 24, TicksPerDay)

\* Mutant: a jump that never counts months.
PeriodsByWalking(from, to, unit, interval) ==
  CASE unit = "day"   -> Quotient(Hours(to - from), 24 * interval)
    [] unit = "week"  -> Quotient(Hours(to - from), 24 * 7 * interval)
    [] unit = "month" -> 0

periodsBetween(from, to, unit, interval) ==
  CASE unit = "day"   -> Quotient(Hours(to - from), 24 * interval)
    [] unit = "week"  -> Quotient(Hours(to - from), 24 * 7 * interval)
    [] unit = "month" -> Quotient(MonthOf(to) - MonthOf(from), interval)

\* Mutant: the day runs over into the next month, as AddDate would.
StepOver(from, unit, interval, n) ==
  CASE unit = "day"   -> from + interval * n * TicksPerDay
    [] unit = "week"  -> from + 7 * interval * n * TicksPerDay
    [] unit = "month" -> At(MonthOf(from) + interval * n, DayOf(from), TimeOfDay(from))

\* The anchor moved on by n periods; the day is clamped to its month.
step(from, unit, interval, n) ==
  CASE unit = "day"   -> from + interval * n * TicksPerDay
    [] unit = "week"  -> from + 7 * interval * n * TicksPerDay
    [] unit = "month" ->
         LET m == MonthOf(from) + interval * n
             day == IF DayOf(from) > daysIn(m) THEN daysIn(m) ELSE DayOf(from)
         IN At(m, day, TimeOfDay(from))

Jump(from, unit, interval, after) ==
  LET k == periodsBetween(from, after, unit, interval) IN IF k < 0 THEN 0 ELSE k

\* How many periods the walk ends at, starting where the jump lands.
Walk(from, unit, interval, after) ==
  LET walk[k \in Nat] ==
        IF step(from, unit, interval, k) > after THEN k ELSE walk[k + 1]
  IN walk[Jump(from, unit, interval, after)]

NextDue(from, unit, interval, after) ==
  IF from = NoDate THEN NoDate
  ELSE step(from, unit, interval, Walk(from, unit, interval, after))

-----------------------------------------------------------------------------
(* The task.                                                               *)

Init ==
  \E s \in Start :
    /\ now = 0
    /\ due = s.due
    /\ repeat = [unit |-> s.unit, interval |-> s.interval]
    /\ anchor = s.due
    /\ edits = 0
    /\ created = s.due /\ broken = FALSE /\ moved = FALSE

\* The next instant; the last one lasts.
FollowedBy == [t \in Instant |->
  CHOOSE u \in Instant : /\ u > t \/ (u = t /\ \A v \in Instant : v <= t)
                         /\ \A v \in Instant : v <= t \/ u <= v]

Tick ==
  /\ now' = FollowedBy[now]
  /\ UNCHANGED <<due, repeat, anchor, edits, created, broken, moved>>

\* Mutant: the anchor follows the due date.
AnchorFollows(newDue, newRepeat) == IF newRepeat = Never THEN NoDate ELSE newDue

\* Mutant: a schedule that is cleared leaves its anchor behind.
AnchorKept(newDue, newRepeat) == IF anchor = NoDate THEN newDue ELSE anchor

\* Set when the task first repeats with a date to count from, then carried.
AnchorFor(newDue, newRepeat) ==
  IF newRepeat = Never THEN NoDate
  ELSE IF anchor = NoDate THEN newDue ELSE anchor

Update(newDue, newRepeat) ==
  /\ edits < MaxEdits
  /\ edits' = edits + 1
  /\ due' = newDue /\ repeat' = newRepeat
  /\ anchor' = AnchorFor(newDue, newRepeat)
  /\ broken' = (broken \/ newRepeat = Never)
  /\ moved' = (moved \/ newDue # due \/ newRepeat # repeat)
  /\ UNCHANGED <<now, created>>

\* The later of now and the due date of the occurrence completed.
After == IF due > now THEN due ELSE now

\* The occurrence is completed and the next one opened.
Complete ==
  /\ repeat # Never /\ due <= now + Ahead * TicksPerDay
  /\ due' = NextDue(anchor, repeat.unit, repeat.interval, After)
  /\ moved' = FALSE
  /\ UNCHANGED <<now, repeat, anchor, edits, created, broken>>

Next ==
  \/ Tick
  \/ \E d \in EditDue \cup {due, NoDate}, r \in EditRepeat \cup {repeat, Never} : Update(d, r)
  \/ Complete

Spec == Init /\ [][Next]_vars

-----------------------------------------------------------------------------
(* Properties.                                                             *)

\* A schedule has an interval, and only a schedule has an anchor.
TypeOK ==
  /\ now \in Nat /\ due \in Nat \cup {NoDate} /\ anchor \in Nat \cup {NoDate}
  /\ repeat = Never \/ (repeat.unit \in {"day", "week", "month"} /\ repeat.interval >= 1)
  /\ repeat = Never => anchor = NoDate
  /\ edits \in 0..MaxEdits
  /\ created \in Nat \cup {NoDate} /\ broken \in BOOLEAN /\ moved \in BOOLEAN

EndOfMonth(t) == DayOf(t) = daysIn(MonthOf(t))

\* What a schedule means, without counting: the anchor's time of day, and
\* every so many days or months from it; in a month too short for the
\* anchor's day, the month's last day.
OnSchedule(t, from, unit, interval) ==
  /\ t >= from
  /\ TimeOfDay(t) = TimeOfDay(from)
  /\ unit = "day" => (DayNumber(t) - DayNumber(from)) % interval = 0
  /\ unit = "week" => (DayNumber(t) - DayNumber(from)) % (7 * interval) = 0
  /\ unit = "month" =>
       /\ (MonthOf(t) - MonthOf(from)) % interval = 0
       /\ DayOf(t) = DayOf(from) \/ (EndOfMonth(t) /\ DayOf(t) < DayOf(from))

\* Between the two there is no other date of the schedule.
NoneBetween(t, u, from, unit, interval) ==
  \A day \in (DayNumber(t))..(DayNumber(u)) :
    LET d == day * TicksPerDay + TimeOfDay(from)
    IN t < d /\ d < u => ~OnSchedule(d, from, unit, interval)

\* Completing an occurrence opens the first date of the schedule after both
\* now and the occurrence: none repeated, none skipped but those missed, and
\* a month after a clamped one is back on the anchor's day (NextDue).
OpensTheFirstAfter ==
  [][Complete =>
       \/ anchor = NoDate /\ due' = NoDate
       \/ /\ due' > now /\ due' > due
          /\ OnSchedule(due', anchor, repeat.unit, repeat.interval)
          /\ NoneBetween(After, due', anchor, repeat.unit, repeat.interval)]_vars

\* The walk after the jump is one step at most, however overdue the task is.
WalkIsShort ==
  (anchor # NoDate /\ repeat # Never) =>
    Walk(anchor, repeat.unit, repeat.interval, now)
      <= Jump(anchor, repeat.unit, repeat.interval, now) + 1

\* A task that has repeated ever since it was created with a date is still
\* counted from that date, whatever was edited and completed in between: once
\* the last edit has been followed by a completion, its date is one of its
\* present schedule as the task was created, so a 31st shown as a 28th, or
\* moved to the 3rd for once, is a 31st again (Service.Update, store.Complete).
ReturnsToItsDay ==
  (created # NoDate /\ ~broken /\ ~moved) =>
    /\ repeat # Never /\ due # NoDate
    /\ OnSchedule(due, created, repeat.unit, repeat.interval)
=============================================================================
