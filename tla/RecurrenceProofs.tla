-------------------------- MODULE RecurrenceProofs --------------------------
(***************************************************************************)
(* Proofs about Recurrence, for any calendar, schedules and instants: a    *)
(* completion opens the first date of the schedule after now and after the *)
(* occurrence, the walk that finds it takes one step at most, and a task   *)
(* comes back to the day it was created for.                               *)
(*                                                                         *)
(* That the recursive functions exist is proved without the library's      *)
(* induction, which is stated for any operator: of the numbers for which   *)
(* a statement fails there would be a least one (LeastNumber).             *)
(***************************************************************************)
EXTENDS Recurrence, WellFoundedInduction, TLAPS

-----------------------------------------------------------------------------
(* Numbers.                                                                *)

\* Every set of naturals has a least element.
LEMMA LeastNumber ==
  ASSUME NEW S, S \subseteq Nat, S # {}
  PROVE  \E x \in S : \A y \in S : x <= y
<1> DEFINE Less == {ss \in Nat \X Nat : ss[1] < ss[2]}
<1>1. IsWellFoundedOn(Less, Nat)
  BY NatLessThanWellFounded, Zenon DEF OpToRel
<1>2. PICK x \in S : \A y \in S : ~(<<y, x>> \in Less)
  <2> HIDE DEF Less
  <2> QED
    BY <1>1, WFMin
<1>3. ASSUME NEW y \in S PROVE x <= y
  <2>1. ~(<<y, x>> \in Less)
    BY <1>2
  <2>2. x \in Nat /\ y \in Nat
    OBVIOUS
  <2> QED
    BY <2>1, <2>2
<1> QED
  BY <1>3

\* A larger factor makes a larger product.
LEMMA Multiply ==
  ASSUME NEW a \in Int, NEW b \in Int, NEW n \in Nat
  PROVE  /\ a <= b => a * n <= b * n
         /\ n # 0 /\ a < b => a * n < b * n
         /\ n # 0 /\ a < b => a * n + n <= b * n
  OBVIOUS

\* Division leaves a remainder smaller than the divisor.
LEMMA Divide ==
  ASSUME NEW a \in Nat, NEW n \in Nat \ {0}
  PROVE  /\ a \div n \in Nat /\ a % n \in 0..n - 1
         /\ a = (a \div n) * n + (a % n)
  OBVIOUS

\* and there is but one quotient and one remainder.
LEMMA Divided ==
  ASSUME NEW q \in Nat, NEW n \in Nat \ {0}, NEW r \in 0..n - 1
  PROVE  (q * n + r) \div n = q /\ (q * n + r) % n = r
  OBVIOUS

-----------------------------------------------------------------------------
(* The calendar.                                                           *)

LEMMA MonthLengths ==
  ASSUME NEW m \in Nat
  PROVE  daysIn(m) \in 28..31
  BY DEF daysIn

\* The first n months of the calendar.
Counts(f, n) == f = [m \in 0..n |-> IF m = 0 THEN 0 ELSE f[m - 1] + daysIn(m - 1)]

LEMMA CountsOneMore ==
  ASSUME NEW n \in Nat, NEW f, Counts(f, n)
  PROVE  \E g : Counts(g, n + 1)
<1> DEFINE g == [m \in 0..n + 1 |-> IF m = n + 1 THEN f[n] + daysIn(n) ELSE f[m]]
<1>1. \A m \in 0..n + 1 : g[m] = IF m = 0 THEN 0 ELSE g[m - 1] + daysIn(m - 1)
  <2> SUFFICES ASSUME NEW m \in 0..n + 1
               PROVE  g[m] = IF m = 0 THEN 0 ELSE g[m - 1] + daysIn(m - 1)
    OBVIOUS
  <2>1. CASE m = n + 1
    <3>1. g[m - 1] = f[n] /\ g[m] = f[n] + daysIn(n) /\ m # 0
      BY <2>1
    <3> QED
      BY <2>1, <3>1
  <2>2. CASE m \in 0..n
    <3>1. f[m] = IF m = 0 THEN 0 ELSE f[m - 1] + daysIn(m - 1)
      BY <2>2 DEF Counts
    <3>2. g[m] = f[m] /\ (m # 0 => g[m - 1] = f[m - 1])
      BY <2>2
    <3> QED
      BY <3>1, <3>2
  <2> QED
    BY <2>1, <2>2
<1>2. g = [m \in 0..n + 1 |-> g[m]]
  OBVIOUS
<1> HIDE DEF g
<1>3. Counts(g, n + 1)
  BY <1>1, <1>2 DEF Counts
<1> QED
  BY <1>3

LEMMA CountsExist ==
  ASSUME NEW n \in Nat
  PROVE  \E f : Counts(f, n)
<1> DEFINE Missing == {k \in Nat : ~\E f : Counts(f, k)}
<1> SUFFICES Missing = {}
  OBVIOUS
<1> SUFFICES ASSUME Missing # {} PROVE FALSE
  OBVIOUS
<1>1. PICK k \in Missing : \A j \in Missing : k <= j
  <2>1. Missing \subseteq Nat
    OBVIOUS
  <2> HIDE DEF Missing
  <2> QED
    BY <2>1, LeastNumber
<1>2. k # 0
  <2>1. Counts([m \in 0..0 |-> 0], 0)
    BY DEF Counts
  <2> QED
    BY <2>1
<1>3. k - 1 \in Nat /\ k - 1 \notin Missing
  BY <1>1, <1>2
<1>4. PICK f : Counts(f, k - 1)
  BY <1>3
<1>5. \E g : Counts(g, (k - 1) + 1)
  BY <1>3, <1>4, CountsOneMore
<1> QED
  BY <1>5

LEMMA FirstDayCounts == Counts(FirstDay, Horizon)
<1>1. FirstDay = CHOOSE f : Counts(f, Horizon)
  BY DEF FirstDay, Counts
<1>2. \E f : Counts(f, Horizon)
  BY CountsExist, CalendarIsFinite
<1> QED
  BY <1>1, <1>2

\* A month begins where the one before it ends.
LEMMA MonthsFollow ==
  /\ FirstDay[0] = 0
  /\ \A m \in 0..Horizon - 1 : FirstDay[m + 1] = FirstDay[m] + daysIn(m)
<1>1. \A m \in 0..Horizon : FirstDay[m] = IF m = 0 THEN 0 ELSE FirstDay[m - 1] + daysIn(m - 1)
  BY FirstDayCounts, Zenon DEF Counts
<1>2. 0 \in 0..Horizon
  BY CalendarIsFinite
<1>3. ASSUME NEW m \in 0..Horizon - 1
      PROVE  FirstDay[m + 1] = FirstDay[m] + daysIn(m)
  <2>1. m + 1 \in 0..Horizon /\ m + 1 # 0 /\ (m + 1) - 1 = m
    BY CalendarIsFinite
  <2> QED
    BY <1>1, <2>1
<1> QED
  BY <1>1, <1>2, <1>3

LEMMA DaysAreNumbered == \A m \in 0..Horizon : FirstDay[m] \in Nat
<1> DEFINE Others == {m \in 0..Horizon : FirstDay[m] \notin Nat}
<1> SUFFICES ASSUME Others # {} PROVE FALSE
  OBVIOUS
<1>1. PICK m \in Others : \A j \in Others : m <= j
  <2>1. Others \subseteq Nat
    BY CalendarIsFinite
  <2> HIDE DEF Others
  <2> QED
    BY <2>1, LeastNumber
<1>2. m \in 0..Horizon /\ FirstDay[m] \notin Nat
  OBVIOUS
<1>3. m # 0
  BY <1>2, MonthsFollow
<1>4. m - 1 \in 0..Horizon - 1 /\ m - 1 \in 0..Horizon /\ (m - 1) + 1 = m
  BY <1>2, <1>3, CalendarIsFinite
<1>5. FirstDay[m - 1] \in Nat
  <2>1. m - 1 \notin Others
    BY <1>1, <1>4, CalendarIsFinite
  <2> QED
    BY <1>4, <2>1
<1>6. FirstDay[m] = FirstDay[m - 1] + daysIn(m - 1)
  BY <1>4, MonthsFollow
<1>7. daysIn(m - 1) \in 28..31
  BY <1>4, MonthLengths
<1> QED
  BY <1>2, <1>5, <1>6, <1>7

\* A later month begins after an earlier one has ended.
LEMMA MonthsGrow ==
  ASSUME NEW a \in 0..Horizon, NEW b \in 0..Horizon, a < b
  PROVE  FirstDay[a] + daysIn(a) <= FirstDay[b]
<1> DEFINE Others == {m \in 0..Horizon : a < m /\ ~(FirstDay[a] + daysIn(a) <= FirstDay[m])}
<1> SUFFICES ASSUME Others # {} PROVE FALSE
  OBVIOUS
<1>1. PICK m \in Others : \A j \in Others : m <= j
  <2>1. Others \subseteq Nat
    BY CalendarIsFinite
  <2> HIDE DEF Others
  <2> QED
    BY <2>1, LeastNumber
<1>2. m \in 0..Horizon /\ a < m /\ ~(FirstDay[a] + daysIn(a) <= FirstDay[m])
  OBVIOUS
<1>3. m - 1 \in 0..Horizon - 1 /\ m - 1 \in 0..Horizon /\ (m - 1) + 1 = m
  BY <1>2, CalendarIsFinite
<1>4. FirstDay[m] = FirstDay[m - 1] + daysIn(m - 1)
  BY <1>3, MonthsFollow
<1>5. daysIn(m - 1) \in 28..31 /\ daysIn(a) \in 28..31 /\ FirstDay[a] \in Nat /\ FirstDay[m - 1] \in Nat
  BY <1>3, MonthLengths, DaysAreNumbered
<1>6. CASE m - 1 = a
  BY <1>2, <1>4, <1>5, <1>6
<1>7. CASE m - 1 # a
  <2>1. a < m - 1
    BY <1>2, <1>7, CalendarIsFinite
  <2>2. m - 1 \notin Others
    BY <1>1, <1>2, <1>3, CalendarIsFinite
  <2>3. FirstDay[a] + daysIn(a) <= FirstDay[m - 1]
    BY <1>3, <2>1, <2>2
  <2> HIDE DEF Others
  <2> QED
    BY <1>2, <1>4, <1>5, <2>3
<1> QED
  BY <1>6, <1>7

\* Every day of the calendar is in one month.
Holds(m, d) == m \in 0..Horizon - 1 /\ FirstDay[m] <= d /\ d < FirstDay[m] + daysIn(m)

LEMMA OneMonth ==
  ASSUME NEW d \in Nat, NEW m, NEW n, Holds(m, d), Holds(n, d)
  PROVE  m = n
<1>1. m \in 0..Horizon /\ n \in 0..Horizon
  BY CalendarIsFinite DEF Holds
<1>2. /\ FirstDay[m] \in Nat /\ FirstDay[n] \in Nat
      /\ daysIn(m) \in 28..31 /\ daysIn(n) \in 28..31
  BY <1>1, DaysAreNumbered, MonthLengths
<1>3. ~(m < n) /\ ~(n < m)
  BY <1>1, <1>2, MonthsGrow DEF Holds
<1> QED
  BY <1>1, <1>3

LEMMA SomeMonth ==
  ASSUME NEW d \in Nat, d < FirstDay[Horizon]
  PROVE  \E m : Holds(m, d)
<1> DEFINE Beyond == {m \in 0..Horizon : d < FirstDay[m]}
<1>1. PICK m \in Beyond : \A j \in Beyond : m <= j
  <2>1. Beyond \subseteq Nat /\ Horizon \in Beyond
    BY CalendarIsFinite
  <2> HIDE DEF Beyond
  <2> QED
    BY <2>1, LeastNumber
<1>2. m \in 0..Horizon /\ d < FirstDay[m] /\ m # 0
  BY MonthsFollow
<1>3. m - 1 \in 0..Horizon - 1 /\ m - 1 \in 0..Horizon /\ (m - 1) + 1 = m
  BY <1>2, CalendarIsFinite
<1>4. ~(d < FirstDay[m - 1])
  <2>1. m - 1 \notin Beyond
    BY <1>1, <1>2, <1>3, CalendarIsFinite
  <2> QED
    BY <1>3, <2>1
<1>5. FirstDay[m - 1] \in Nat /\ FirstDay[m] = FirstDay[m - 1] + daysIn(m - 1)
  BY <1>3, DaysAreNumbered, MonthsFollow
<1>6. Holds(m - 1, d)
  BY <1>2, <1>3, <1>4, <1>5 DEF Holds
<1> QED
  BY <1>6

LEMMA MonthIs ==
  ASSUME NEW d \in Nat, d < FirstDay[Horizon]
  PROVE  Holds(MonthOfDay[d], d)
<1>1. d \in 0..FirstDay[Horizon] - 1
  BY DaysAreNumbered, CalendarIsFinite
<1>2. MonthOfDay[d] = CHOOSE m \in 0..Horizon - 1 : FirstDay[m] <= d /\ d < FirstDay[m] + daysIn(m)
  BY <1>1, Zenon DEF MonthOfDay
<1>3. \E m \in 0..Horizon - 1 : FirstDay[m] <= d /\ d < FirstDay[m] + daysIn(m)
  BY SomeMonth DEF Holds
<1> QED
  BY <1>2, <1>3, Zenon DEF Holds

-----------------------------------------------------------------------------
(* Dates.                                                                  *)

\* A date is a day of a month and a time of the day.
LEMMA DateParts ==
  ASSUME NEW t \in InCalendar
  PROVE  /\ t \in Nat /\ DayNumber(t) \in Nat /\ TimeOfDay(t) \in 0..TicksPerDay - 1
         /\ t = DayNumber(t) * TicksPerDay + TimeOfDay(t)
         /\ MonthOf(t) \in 0..Horizon - 1
         /\ DayOf(t) \in 1..daysIn(MonthOf(t))
         /\ DayNumber(t) = FirstDay[MonthOf(t)] + DayOf(t) - 1
<1>1. t \in Nat /\ DayNumber(t) < FirstDay[Horizon]
  BY DEF InCalendar
<1>2. /\ DayNumber(t) \in Nat /\ TimeOfDay(t) \in 0..TicksPerDay - 1
      /\ t = DayNumber(t) * TicksPerDay + TimeOfDay(t)
  BY <1>1, Divide, DaysHaveTicks DEF DayNumber, TimeOfDay
<1>3. Holds(MonthOf(t), DayNumber(t))
  BY <1>1, <1>2, MonthIs DEF MonthOf
<1>4. MonthOf(t) \in 0..Horizon - 1 /\ MonthOf(t) \in 0..Horizon
  BY <1>3, CalendarIsFinite DEF Holds
<1>5. FirstDay[MonthOf(t)] \in Nat /\ daysIn(MonthOf(t)) \in 28..31
  BY <1>4, DaysAreNumbered, MonthLengths
<1>6. DayOf(t) = DayNumber(t) - FirstDay[MonthOf(t)] + 1
  BY DEF DayOf
<1> QED
  BY <1>1, <1>2, <1>3, <1>4, <1>5, <1>6 DEF Holds

\* and has no other month, day and time.
LEMMA PartsOfDate ==
  ASSUME NEW m \in 0..Horizon - 1, NEW day \in 1..daysIn(m), NEW time \in 0..TicksPerDay - 1
  PROVE  /\ At(m, day, time) \in InCalendar
         /\ DayNumber(At(m, day, time)) = FirstDay[m] + day - 1
         /\ TimeOfDay(At(m, day, time)) = time
         /\ MonthOf(At(m, day, time)) = m
         /\ DayOf(At(m, day, time)) = day
<1> DEFINE t == At(m, day, time)
           d == FirstDay[m] + day - 1
<1>1. m \in 0..Horizon /\ m + 1 \in 0..Horizon /\ Horizon \in 0..Horizon /\ m \in Nat
  BY CalendarIsFinite
<1>2. FirstDay[m] \in Nat /\ daysIn(m) \in 28..31 /\ FirstDay[Horizon] \in Nat
  BY <1>1, DaysAreNumbered, MonthLengths
<1>3. d \in Nat /\ Holds(m, d)
  BY <1>1, <1>2 DEF Holds
<1>4. FirstDay[m] + daysIn(m) <= FirstDay[Horizon]
  BY <1>1, MonthsGrow, CalendarIsFinite
<1>5. d < FirstDay[Horizon]
  BY <1>2, <1>3, <1>4 DEF Holds
<1>6. t = d * TicksPerDay + time
  BY DEF At
<1>7. DayNumber(t) = d /\ TimeOfDay(t) = time
  <2> HIDE DEF d, t
  <2>1. d \in Nat
    BY <1>3
  <2>2. (d * TicksPerDay + time) \div TicksPerDay = d /\ (d * TicksPerDay + time) % TicksPerDay = time
    BY <2>1, Divided, DaysHaveTicks
  <2> QED
    BY <1>6, <2>2 DEF DayNumber, TimeOfDay
<1>8. t \in Nat
  <2>1. d * TicksPerDay \in Nat
    BY <1>3, DaysHaveTicks
  <2> QED
    BY <1>6, <2>1, DaysHaveTicks
<1> HIDE DEF t, d
<1>9. t \in InCalendar
  BY <1>5, <1>7, <1>8 DEF InCalendar
<1>10. MonthOf(t) = m
  BY <1>3, <1>5, <1>7, MonthIs, OneMonth DEF MonthOf
<1>11. DayOf(t) = day
  BY <1>2, <1>7, <1>10 DEF DayOf, d
<1> QED
  BY <1>7, <1>9, <1>10, <1>11 DEF t, d

\* Dates are in the order of their days.
LEMMA DaysInOrder ==
  ASSUME NEW t \in Nat, NEW u \in Nat
  PROVE  /\ t <= u => DayNumber(t) <= DayNumber(u)
         /\ DayNumber(t) < DayNumber(u) => t < u
<1>1. /\ DayNumber(t) \in Nat /\ TimeOfDay(t) \in 0..TicksPerDay - 1
      /\ t = DayNumber(t) * TicksPerDay + TimeOfDay(t)
      /\ DayNumber(u) \in Nat /\ TimeOfDay(u) \in 0..TicksPerDay - 1
      /\ u = DayNumber(u) * TicksPerDay + TimeOfDay(u)
  BY Divide, DaysHaveTicks DEF DayNumber, TimeOfDay
<1>2. ASSUME DayNumber(t) < DayNumber(u) PROVE t < u
  <2>1. DayNumber(t) * TicksPerDay + TicksPerDay <= DayNumber(u) * TicksPerDay
    <3>1. DayNumber(t) \in Int /\ DayNumber(u) \in Int /\ TicksPerDay \in Nat /\ TicksPerDay # 0
      BY <1>1, DaysHaveTicks
    <3> QED
      BY <1>2, <3>1, Multiply
  <2>2. DayNumber(t) * TicksPerDay \in Nat /\ DayNumber(u) * TicksPerDay \in Nat
    BY <1>1, DaysHaveTicks
  <2> QED
    BY <1>1, <2>1, <2>2, DaysHaveTicks
<1>3. ASSUME DayNumber(u) < DayNumber(t) PROVE u < t
  <2>1. DayNumber(u) * TicksPerDay + TicksPerDay <= DayNumber(t) * TicksPerDay
    <3>1. DayNumber(u) \in Int /\ DayNumber(t) \in Int /\ TicksPerDay \in Nat /\ TicksPerDay # 0
      BY <1>1, DaysHaveTicks
    <3> QED
      BY <1>3, <3>1, Multiply
  <2>2. DayNumber(t) * TicksPerDay \in Nat /\ DayNumber(u) * TicksPerDay \in Nat
    BY <1>1, DaysHaveTicks
  <2> QED
    BY <1>1, <2>1, <2>2, DaysHaveTicks
<1> QED
  BY <1>1, <1>2, <1>3

\* and of their months.
LEMMA MonthsInOrder ==
  ASSUME NEW t \in InCalendar, NEW u \in InCalendar
  PROVE  /\ MonthOf(t) < MonthOf(u) => t < u
         /\ t <= u => MonthOf(t) <= MonthOf(u)
<1>1. /\ t \in Nat /\ u \in Nat
      /\ MonthOf(t) \in 0..Horizon - 1 /\ MonthOf(u) \in 0..Horizon - 1
  BY DateParts
<1>2. ASSUME NEW a \in InCalendar, NEW b \in InCalendar, MonthOf(a) < MonthOf(b)
      PROVE  a < b
  <2>1. MonthOf(a) \in 0..Horizon /\ MonthOf(b) \in 0..Horizon
    BY DateParts, CalendarIsFinite
  <2>2. FirstDay[MonthOf(a)] + daysIn(MonthOf(a)) <= FirstDay[MonthOf(b)]
    BY <1>2, <2>1, MonthsGrow
  <2>3. DayNumber(a) < DayNumber(b)
    <3>1. daysIn(MonthOf(a)) \in 28..31 /\ daysIn(MonthOf(b)) \in 28..31
      BY <2>1, MonthLengths
    <3>2. FirstDay[MonthOf(a)] \in Nat /\ FirstDay[MonthOf(b)] \in Nat
      BY <2>1, DaysAreNumbered
    <3>3. /\ DayNumber(a) = FirstDay[MonthOf(a)] + DayOf(a) - 1
          /\ DayOf(a) \in 1..daysIn(MonthOf(a))
          /\ DayNumber(b) = FirstDay[MonthOf(b)] + DayOf(b) - 1
          /\ DayOf(b) \in 1..daysIn(MonthOf(b))
      BY DateParts
    <3> QED
      BY <2>2, <3>1, <3>2, <3>3
  <2> QED
    BY <2>3, DaysInOrder, DateParts
<1>3. MonthOf(t) < MonthOf(u) => t < u
  BY <1>2
<1>4. MonthOf(u) < MonthOf(t) => u < t
  BY <1>2
<1> QED
  BY <1>1, <1>3, <1>4

\* What comes before a date that has room has room as well.
LEMMA RoomBefore ==
  ASSUME NEW interval \in Nat, NEW t, Room(t, interval), NEW u \in Nat, u <= t
  PROVE  Room(u, interval)
<1>1. t \in InCalendar /\ t \in Nat /\ DayNumber(t) + 7 * interval < FirstDay[Horizon]
  BY DEF Room, InCalendar
<1>2. DayNumber(u) <= DayNumber(t) /\ DayNumber(t) \in Nat /\ DayNumber(u) \in Nat
  BY <1>1, DaysInOrder, Divide, DaysHaveTicks DEF DayNumber
<1>3. FirstDay[Horizon] \in Nat
  BY DaysAreNumbered, CalendarIsFinite
<1>4. u \in InCalendar
  BY <1>1, <1>2, <1>3 DEF InCalendar
<1>5. MonthOf(u) <= MonthOf(t) /\ MonthOf(u) \in Int /\ MonthOf(t) \in Int
  <2>1. MonthOf(u) <= MonthOf(t)
    BY <1>1, <1>4, MonthsInOrder
  <2> QED
    BY <1>1, <1>4, <2>1, DateParts
<1> QED
  BY <1>1, <1>2, <1>3, <1>4, <1>5, CalendarIsFinite DEF Room

-----------------------------------------------------------------------------
(* The walk.                                                               *)

\* The walk from k goes on to the first step after the instant asked for, and
\* is defined even if there is none.
WalkOf(w, from, unit, interval, after) ==
  w = [k \in Nat |-> IF step(from, unit, interval, k) > after THEN k ELSE w[k + 1]]

LEMMA WalkExists ==
  ASSUME NEW from, NEW unit, NEW interval, NEW after
  PROVE  \E w : WalkOf(w, from, unit, interval, after)
<1> DEFINE Past(k) == step(from, unit, interval, k) > after
           Ends(k) == {j \in Nat : k <= j /\ Past(j)}
           First(S) == CHOOSE j \in S : \A i \in S : j <= i
           w == [k \in Nat |-> IF Ends(k) = {} THEN 0 ELSE First(Ends(k))]
<1> HIDE DEF Past
<1>1. ASSUME NEW k \in Nat, Past(k) PROVE w[k] = k
  <2>1. k \in Ends(k) /\ \A i \in Ends(k) : k <= i
    BY <1>1
  <2>2. First(Ends(k)) \in Ends(k) /\ \A i \in Ends(k) : First(Ends(k)) <= i
    <3> HIDE DEF Ends
    <3> QED
      BY <2>1
  <2>3. First(Ends(k)) = k
    <3>1. First(Ends(k)) \in Nat /\ k <= First(Ends(k)) /\ First(Ends(k)) <= k
      <4>1. First(Ends(k)) <= k
        BY <2>1, <2>2
      <4> HIDE DEF First
      <4> QED
        BY <2>2, <4>1
    <3> HIDE DEF First, Ends
    <3> QED
      BY <3>1
  <2> HIDE DEF First
  <2> QED
    BY <2>1, <2>3
<1>2. ASSUME NEW k \in Nat, ~Past(k) PROVE w[k] = w[k + 1]
  <2>1. Ends(k) = Ends(k + 1)
    <3>1. \A j \in Nat : (k <= j /\ Past(j)) <=> (k + 1 <= j /\ Past(j))
      BY <1>2
    <3> QED
      BY <3>1
  <2> HIDE DEF First, Ends
  <2> QED
    BY <2>1
<1>3. w = [k \in Nat |-> w[k]]
  OBVIOUS
<1> HIDE DEF w
<1>4. w = [k \in Nat |-> IF Past(k) THEN k ELSE w[k + 1]]
  BY <1>1, <1>2, <1>3
<1>5. WalkOf(w, from, unit, interval, after)
  BY <1>4 DEF WalkOf, Past
<1> QED
  BY <1>5

\* If one of the two steps from the jump on is late enough, the walk ends there.
LEMMA WalkEnds ==
  ASSUME NEW from, NEW unit, NEW interval, NEW after,
         NEW k, k = Jump(from, unit, interval, after), k \in Nat,
         step(from, unit, interval, k) > after \/ step(from, unit, interval, k + 1) > after
  PROVE  Walk(from, unit, interval, after) =
           IF step(from, unit, interval, k) > after THEN k ELSE k + 1
<1> DEFINE w == CHOOSE f : WalkOf(f, from, unit, interval, after)
<1>1. Walk(from, unit, interval, after) = w[k]
  BY DEF Walk, WalkOf
<1>2. WalkOf(w, from, unit, interval, after)
  BY WalkExists
<1> HIDE DEF w
<1>3. \A j \in Nat : w[j] = IF step(from, unit, interval, j) > after THEN j ELSE w[j + 1]
  <2>1. w = [j \in Nat |-> IF step(from, unit, interval, j) > after THEN j ELSE w[j + 1]]
    BY <1>2 DEF WalkOf
  <2> DEFINE e(j) == IF step(from, unit, interval, j) > after THEN j ELSE w[j + 1]
  <2>2. w = [j \in Nat |-> e(j)]
    BY <2>1
  <2> HIDE DEF e
  <2>3. \A j \in Nat : w[j] = e(j)
    BY <2>2
  <2> QED
    BY <2>3 DEF e
<1>4. k + 1 \in Nat
  OBVIOUS
<1> QED
  BY <1>1, <1>3, <1>4

-----------------------------------------------------------------------------
(* Counting periods.                                                       *)

\* Counted toward zero, less than nothing is never a period.
LEMMA NothingCounted ==
  ASSUME NEW a \in Int, a < 0, NEW n \in Nat \ {0}
  PROVE  Quotient(a, n) \in Int /\ Quotient(a, n) <= 0
<1>1. -a \in Nat /\ (-a) \div n \in Nat
  BY Divide
<1> QED
  BY <1>1 DEF Quotient

\* Whole periods of p days, counted in hours as Go does: the last of them is
\* not after the instant, and the next one is.
LEMMA HoursCount ==
  ASSUME NEW delta \in Nat, NEW p \in Nat \ {0}
  PROVE  \E k \in Nat : /\ Quotient(Hours(delta), 24 * p) = k
                        /\ (p * k) * TicksPerDay <= delta
                        /\ delta < (p * (k + 1)) * TicksPerDay
<1> DEFINE T == TicksPerDay
           h == (delta * 24) \div T
           k == h \div (24 * p)
<1>1. T \in Nat /\ T # 0 /\ 24 * p \in Nat \ {0} /\ delta * 24 \in Nat
  BY DaysHaveTicks
<1> HIDE DEF T
<1>2. h \in Nat /\ (delta * 24) % T \in 0..T - 1 /\ delta * 24 = h * T + ((delta * 24) % T)
  BY <1>1, Divide
<1>3. Hours(delta) = h
  BY <1>1 DEF Hours, Quotient, T
<1> HIDE DEF h
<1>4. k \in Nat /\ h % (24 * p) \in 0..24 * p - 1 /\ h = k * (24 * p) + (h % (24 * p))
  BY <1>1, <1>2, Divide
<1>5. Quotient(Hours(delta), 24 * p) = k
  BY <1>1, <1>2, <1>3 DEF Quotient
<1> HIDE DEF k
<1>6. p * k \in Nat /\ p * (k + 1) \in Nat /\ p * (k + 1) = p * k + p
  BY <1>4
<1>7. k * (24 * p) = (p * k) * 24
  BY <1>4
<1>8. (p * k) * 24 <= h /\ h + 1 <= (p * (k + 1)) * 24
  BY <1>1, <1>2, <1>4, <1>6, <1>7
<1>9. /\ ((p * k) * 24) * T <= h * T
      /\ (h + 1) * T <= ((p * (k + 1)) * 24) * T
  BY <1>1, <1>2, <1>6, <1>8, Multiply
<1>10. /\ ((p * k) * 24) * T = ((p * k) * T) * 24
       /\ ((p * (k + 1)) * 24) * T = ((p * (k + 1)) * T) * 24
       /\ (h + 1) * T = h * T + T
  BY <1>1, <1>2, <1>6
<1>11. (p * k) * T \in Int /\ (p * (k + 1)) * T \in Int /\ h * T \in Int
  BY <1>1, <1>2, <1>6
<1>12. (p * k) * T <= delta /\ delta < (p * (k + 1)) * T
  BY <1>1, <1>2, <1>9, <1>10, <1>11
<1> QED
  BY <1>4, <1>5, <1>12 DEF T

-----------------------------------------------------------------------------
(* The next occurrence.                                                    *)

\* The next occurrence is the first date of the schedule after the instant,
\* found in one step at most.
Finds(from, unit, interval, after) ==
  LET next == NextDue(from, unit, interval, after)
      k    == Jump(from, unit, interval, after)
  IN /\ k \in Nat /\ Walk(from, unit, interval, after) <= k + 1
     /\ next \in InCalendar /\ next > after
     /\ OnSchedule(next, from, unit, interval)
     /\ NoneBetween(after, next, from, unit, interval)

\* The same time of day, n days later.
LEMMA DaysLater ==
  ASSUME NEW t \in Nat, NEW n \in Nat
  PROVE  /\ t + n * TicksPerDay \in Nat
         /\ DayNumber(t + n * TicksPerDay) = DayNumber(t) + n
         /\ TimeOfDay(t + n * TicksPerDay) = TimeOfDay(t)
<1>1. /\ DayNumber(t) \in Nat /\ TimeOfDay(t) \in 0..TicksPerDay - 1
      /\ t = DayNumber(t) * TicksPerDay + TimeOfDay(t)
  BY Divide, DaysHaveTicks DEF DayNumber, TimeOfDay
<1>2. n * TicksPerDay \in Nat /\ TicksPerDay \in Nat
  BY DaysHaveTicks
<1>3. t + n * TicksPerDay = (DayNumber(t) + n) * TicksPerDay + TimeOfDay(t)
  <2> DEFINE d == DayNumber(t)
  <2>1. d \in Nat /\ t = d * TicksPerDay + TimeOfDay(t) /\ TimeOfDay(t) \in Int
    BY <1>1, DaysHaveTicks
  <2> HIDE DEF d
  <2>2. (d + n) * TicksPerDay = d * TicksPerDay + n * TicksPerDay
    BY <1>2, <2>1
  <2>3. d * TicksPerDay \in Nat
    BY <1>2, <2>1
  <2>4. t + n * TicksPerDay = (d + n) * TicksPerDay + TimeOfDay(t)
    BY <1>2, <2>1, <2>2, <2>3
  <2> QED
    BY <2>4 DEF d
<1>4. /\ ((DayNumber(t) + n) * TicksPerDay + TimeOfDay(t)) \div TicksPerDay = DayNumber(t) + n
      /\ ((DayNumber(t) + n) * TicksPerDay + TimeOfDay(t)) % TicksPerDay = TimeOfDay(t)
  <2>1. DayNumber(t) + n \in Nat
    BY <1>1
  <2> QED
    BY <1>1, <2>1, Divided, DaysHaveTicks
<1>5. DayNumber(t + n * TicksPerDay) = DayNumber(t) + n
  BY <1>3, <1>4 DEF DayNumber
<1>6. TimeOfDay(t + n * TicksPerDay) = TimeOfDay(t)
  BY <1>3, <1>4 DEF TimeOfDay
<1> QED
  BY <1>2, <1>5, <1>6

\* A day at the time of day of a date.
LEMMA SameTime ==
  ASSUME NEW from \in Nat, NEW day \in Nat
  PROVE  LET d == day * TicksPerDay + TimeOfDay(from)
         IN d \in Nat /\ DayNumber(d) = day /\ TimeOfDay(d) = TimeOfDay(from)
<1>1. TimeOfDay(from) \in 0..TicksPerDay - 1
  BY Divide, DaysHaveTicks DEF TimeOfDay
<1>2. day * TicksPerDay \in Nat
  BY DaysHaveTicks
<1>3. /\ (day * TicksPerDay + TimeOfDay(from)) \div TicksPerDay = day
      /\ (day * TicksPerDay + TimeOfDay(from)) % TicksPerDay = TimeOfDay(from)
  BY <1>1, Divided, DaysHaveTicks
<1> QED
  BY <1>1, <1>2, <1>3, DaysHaveTicks DEF DayNumber, TimeOfDay

\* What leaves no remainder is a multiple, and the other way round.
LEMMA Multiples ==
  ASSUME NEW n \in Nat, NEW p \in Nat \ {0}, n % p = 0
  PROVE  \E j \in Nat : n = p * j
<1>1. n \div p \in Nat /\ n = (n \div p) * p + (n % p)
  BY Divide
<1>2. n = p * (n \div p)
  BY <1>1
<1> QED
  BY <1>1, <1>2

LEMMA MultiplesDivide ==
  ASSUME NEW p \in Nat \ {0}, NEW j \in Nat
  PROVE  (p * j) % p = 0
<1>1. (j * p + 0) % p = 0
  BY Divided
<1> QED
  BY <1>1

LEMMA NoneThere ==
  ASSUME NEW from \in InCalendar, NEW after \in InCalendar, NEW next, NEW unit, NEW interval,
         \A t \in Nat : after < t /\ t < next => ~OnSchedule(t, from, unit, interval)
  PROVE  NoneBetween(after, next, from, unit, interval)
<1> SUFFICES ASSUME NEW day \in (DayNumber(after))..(DayNumber(next)),
                    after < day * TicksPerDay + TimeOfDay(from),
                    day * TicksPerDay + TimeOfDay(from) < next
             PROVE  ~OnSchedule(day * TicksPerDay + TimeOfDay(from), from, unit, interval)
  BY DEF NoneBetween
<1>1. day \in Nat /\ from \in Nat
  BY DateParts
<1>2. day * TicksPerDay + TimeOfDay(from) \in Nat
  BY <1>1, SameTime
<1> QED
  BY <1>2

\* A schedule of every p days.
EveryDays(unit, interval, p) ==
  \/ unit = "day" /\ p = interval
  \/ unit = "week" /\ p = 7 * interval

\* What the code does with it, and what it means.
CountsDays(from, unit, interval, p) ==
  /\ unit # "month" /\ p \in Nat \ {0} /\ p <= 7 * interval
  /\ \A n \in Nat : step(from, unit, interval, n) = from + (p * n) * TicksPerDay
  /\ \A t : periodsBetween(from, t, unit, interval) = Quotient(Hours(t - from), 24 * p)
  /\ \A t : OnSchedule(t, from, unit, interval) <=>
              /\ t >= from /\ TimeOfDay(t) = TimeOfDay(from)
              /\ (DayNumber(t) - DayNumber(from)) % p = 0

LEMMA DayUnit ==
  ASSUME NEW unit, NEW interval \in Nat \ {0}, NEW p, EveryDays(unit, interval, p),
         NEW from
  PROVE  CountsDays(from, unit, interval, p)
<1> USE DEF CountsDays
<1>1. CASE unit = "day" /\ p = interval
  BY <1>1 DEF step, periodsBetween, OnSchedule
<1>2. CASE unit = "week" /\ p = 7 * interval
  <2>1. p \in Nat \ {0} /\ p <= 7 * interval /\ 24 * 7 * interval = 24 * p
    BY <1>2
  <2>2. \A n \in Nat : step(from, unit, interval, n) = from + (p * n) * TicksPerDay
    BY <1>2 DEF step
  <2>3. \A t : periodsBetween(from, t, unit, interval) = Quotient(Hours(t - from), 24 * p)
    BY <1>2, <2>1 DEF periodsBetween
  <2> QED
    BY <1>2, <2>1, <2>2, <2>3 DEF OnSchedule
<1> QED
  BY <1>1, <1>2 DEF EveryDays

\* A date of a schedule in days is a whole number of its periods past the anchor.
LEMMA DaysOnSchedule ==
  ASSUME NEW unit, NEW interval \in Nat \ {0}, NEW p, EveryDays(unit, interval, p),
         NEW from \in InCalendar, NEW t \in Nat, OnSchedule(t, from, unit, interval)
  PROVE  \E j \in Nat : t = from + (p * j) * TicksPerDay
<1>1. /\ t >= from /\ TimeOfDay(t) = TimeOfDay(from)
      /\ (DayNumber(t) - DayNumber(from)) % p = 0 /\ p \in Nat \ {0}
  <2>1. CountsDays(from, unit, interval, p)
    BY DayUnit
  <2> QED
    BY <2>1, Zenon DEF CountsDays
<1>2. from \in Nat /\ DayNumber(from) <= DayNumber(t)
  BY <1>1, DaysInOrder DEF InCalendar
<1>3. /\ DayNumber(t) \in Nat /\ DayNumber(from) \in Nat
      /\ TimeOfDay(t) \in 0..TicksPerDay - 1
      /\ t = DayNumber(t) * TicksPerDay + TimeOfDay(t)
      /\ from = DayNumber(from) * TicksPerDay + TimeOfDay(from)
  BY <1>2, Divide, DaysHaveTicks DEF DayNumber, TimeOfDay
<1>4. PICK j \in Nat : DayNumber(t) - DayNumber(from) = p * j
  <2>1. DayNumber(t) - DayNumber(from) \in Nat
    BY <1>2, <1>3
  <2> QED
    BY <1>1, <2>1, Multiples
<1>5. DayNumber(t) = DayNumber(from) + p * j
  BY <1>1, <1>3, <1>4
<1>6. DayNumber(t) * TicksPerDay = DayNumber(from) * TicksPerDay + (p * j) * TicksPerDay
  <2> DEFINE a == DayNumber(from)
             b == p * j
  <2>1. a \in Nat /\ b \in Nat
    BY <1>1, <1>3
  <2> HIDE DEF a, b
  <2>2. (a + b) * TicksPerDay = a * TicksPerDay + b * TicksPerDay
    BY <2>1, DaysHaveTicks
  <2> QED
    BY <1>5, <2>2 DEF a, b
<1>7. /\ DayNumber(from) * TicksPerDay \in Int /\ (p * j) * TicksPerDay \in Int
      /\ TimeOfDay(from) \in Int /\ TimeOfDay(t) = TimeOfDay(from)
  BY <1>1, <1>3, DaysHaveTicks
<1> QED
  BY <1>3, <1>6, <1>7

\* Past the last period before the instant comes the first after it.
LEMMA FindsByDays ==
  ASSUME NEW unit, NEW interval \in Nat \ {0}, NEW p, EveryDays(unit, interval, p),
         NEW from \in InCalendar, NEW after, Room(after, interval)
  PROVE  Finds(from, unit, interval, after)
<1> DEFINE T == TicksPerDay
           D(n) == from + (p * n) * T
           k == Jump(from, unit, interval, after)
           next == NextDue(from, unit, interval, after)
<1>1. /\ p \in Nat \ {0} /\ p <= 7 * interval
      /\ \A n \in Nat : step(from, unit, interval, n) = D(n)
      /\ periodsBetween(from, after, unit, interval) = Quotient(Hours(after - from), 24 * p)
  <2>1. CountsDays(from, unit, interval, p)
    BY DayUnit
  <2> QED
    BY <2>1, Zenon DEF CountsDays
<1>2. from \in Nat /\ from # NoDate /\ after \in Nat /\ after \in InCalendar
  BY DEF Room, InCalendar, NoDate
<1>3. T \in Nat \ {0}
  BY DaysHaveTicks
<1>4. next = step(from, unit, interval, Walk(from, unit, interval, after))
  BY <1>2 DEF NextDue
<1>5. ASSUME NEW n \in Nat, next = D(n), next \in InCalendar, next > after,
             \A j \in Nat : j < n => D(j) <= after
      PROVE  OnSchedule(next, from, unit, interval) /\ NoneBetween(after, next, from, unit, interval)
  <2>1. p * n \in Nat
    BY <1>1
  <2>2. DayNumber(next) = DayNumber(from) + p * n /\ TimeOfDay(next) = TimeOfDay(from) /\ next >= from
    <3>1. (p * n) * T \in Nat
      BY <1>3, <2>1
    <3> QED
      BY <1>2, <1>5, <2>1, <3>1, DaysLater
  <2>3. DayNumber(next) - DayNumber(from) = p * n
    BY <2>1, <2>2, DateParts
  <2>4. OnSchedule(next, from, unit, interval)
    <3>1. (DayNumber(next) - DayNumber(from)) % p = 0
      BY <1>1, <2>3, MultiplesDivide
    <3> HIDE DEF next
    <3> QED
      BY <2>2, <3>1, DayUnit, Zenon DEF CountsDays
  <2>5. ASSUME NEW t \in Nat, after < t, t < next, OnSchedule(t, from, unit, interval)
        PROVE  FALSE
    <3>1. PICK j \in Nat : t = D(j)
      BY <2>5, DaysOnSchedule
    <3>2. CASE j < n
      <4>1. D(j) <= after
        BY <1>5, <3>2
      <4> HIDE DEF D
      <4> QED
        BY <1>2, <2>5, <3>1, <4>1
    <3>3. CASE n <= j
      <4>1. p * n <= p * j /\ p * j \in Nat
        BY <1>1, <3>3, Multiply
      <4>2. (p * n) * T <= (p * j) * T /\ (p * n) * T \in Nat /\ (p * j) * T \in Nat
        BY <1>3, <2>1, <4>1, Multiply
      <4> QED
        BY <1>2, <1>5, <2>5, <3>1, <4>2
    <3> QED
      BY <3>2, <3>3
  <2>6. NoneBetween(after, next, from, unit, interval)
    BY <1>2, <1>5, <2>5, NoneThere
  <2> QED
    BY <2>4, <2>6
<1>6. CASE after < from
  <2>1. (after - from) * 24 \in Int /\ (after - from) * 24 < 0
    BY <1>2, <1>6
  <2>2. Hours(after - from) \in Int /\ Hours(after - from) <= 0
    BY <1>3, <2>1, NothingCounted DEF Hours
  <2>3. Quotient(Hours(after - from), 24 * p) \in Int /\ Quotient(Hours(after - from), 24 * p) <= 0
    <3>1. CASE Hours(after - from) < 0
      BY <1>1, <2>2, <3>1, NothingCounted
    <3>2. CASE Hours(after - from) = 0
      <4>1. 0 \div (24 * p) = 0
        <5>1. (0 * (24 * p) + 0) \div (24 * p) = 0
          BY <1>1, Divided
        <5> QED
          BY <1>1, <5>1
      <4> QED
        BY <3>2, <4>1 DEF Quotient
    <3> QED
      BY <2>2, <3>1, <3>2
  <2>4. k = 0
    BY <1>1, <2>3 DEF Jump
  <2>5. D(0) = from /\ D(1) = from + p * T /\ p * T \in Nat
    BY <1>1, <1>2, <1>3
  <2>6. step(from, unit, interval, 0) > after /\ step(from, unit, interval, 0 + 1) > after
    BY <1>1, <1>2, <1>6, <2>5
  <2>7. Walk(from, unit, interval, after) = 0
    BY <2>4, <2>6, WalkEnds
  <2>8. next = D(0) /\ next = from
    BY <1>1, <1>4, <2>5, <2>7
  <2>9. OnSchedule(next, from, unit, interval) /\ NoneBetween(after, next, from, unit, interval)
    <3>1. next > after /\ next \in InCalendar /\ \A j \in Nat : j < 0 => D(j) <= after
      BY <1>2, <1>6, <2>8
    <3> HIDE DEF D, next
    <3> QED
      BY <1>5, <2>8, <3>1
  <2> HIDE DEF D
  <2> QED
    BY <1>2, <1>6, <2>4, <2>7, <2>8, <2>9 DEF Finds
<1>7. CASE from <= after
  <2>1. after - from \in Nat
    BY <1>2, <1>7
  <2>2. PICK q \in Nat : /\ Quotient(Hours(after - from), 24 * p) = q
                         /\ (p * q) * T <= after - from
                         /\ after - from < (p * (q + 1)) * T
    BY <1>1, <2>1, HoursCount
  <2>3. k = q
    BY <1>1, <2>2 DEF Jump
  <2>4. (p * q) * T \in Nat /\ (p * (q + 1)) * T \in Nat /\ (p * (q + 1)) * T = (p * q) * T + p * T /\ p * T \in Nat
    <3>1. p * q \in Nat /\ p * (q + 1) = p * q + p
      BY <1>1
    <3> QED
      BY <1>1, <1>3, <3>1
  <2>5. D(q) <= after /\ D(q + 1) > after /\ D(q + 1) <= after + p * T
    BY <1>2, <2>2, <2>4
  <2>6. step(from, unit, interval, q + 1) > after /\ ~(step(from, unit, interval, q) > after)
    <3> HIDE DEF D
    <3>1. step(from, unit, interval, q) = D(q) /\ step(from, unit, interval, q + 1) = D(q + 1)
      BY <1>1
    <3>2. D(q) \in Int
      BY <1>2, <2>4 DEF D
    <3> QED
      BY <1>2, <2>5, <3>1, <3>2
  <2>7. Walk(from, unit, interval, after) = q + 1
    BY <2>3, <2>6, WalkEnds
  <2>8. next = D(q + 1)
    BY <1>1, <1>4, <2>7
  <2>9. next \in InCalendar /\ next > after
    <3>1. D(q + 1) \in Nat /\ after + p * T \in Nat
      BY <1>2, <2>4
    <3>2. DayNumber(after + p * T) = DayNumber(after) + p
      BY <1>1, <1>2, DaysLater
    <3>3. DayNumber(D(q + 1)) <= DayNumber(after) + p
      <4> HIDE DEF D
      <4> QED
        BY <2>5, <3>1, <3>2, DaysInOrder
    <3>4. DayNumber(after) \in Nat /\ DayNumber(D(q + 1)) \in Nat /\ FirstDay[Horizon] \in Nat
      <4>1. DayNumber(D(q + 1)) \in Nat
        BY <1>3, <3>1, Divide DEF DayNumber
      <4> QED
        BY <1>2, <4>1, DateParts, DaysAreNumbered, CalendarIsFinite
    <3>5. DayNumber(after) + 7 * interval < FirstDay[Horizon]
      BY DEF Room
    <3> HIDE DEF D
    <3>6. DayNumber(D(q + 1)) < FirstDay[Horizon]
      BY <1>1, <3>3, <3>4, <3>5
    <3> QED
      BY <2>5, <2>8, <3>1, <3>6 DEF InCalendar
  <2>10. ASSUME NEW j \in Nat, j < q + 1 PROVE D(j) <= after
    <3>1. p * j <= p * q /\ p * j \in Nat /\ p * q \in Nat
      BY <1>1, <2>10, Multiply
    <3>2. (p * j) * T <= (p * q) * T /\ (p * j) * T \in Nat
      BY <1>3, <3>1, Multiply
    <3> QED
      BY <1>2, <2>4, <2>5, <3>2
  <2>11. OnSchedule(next, from, unit, interval) /\ NoneBetween(after, next, from, unit, interval)
    <3> HIDE DEF D, next
    <3>1. q + 1 \in Nat
      OBVIOUS
    <3> QED
      BY <1>5, <2>8, <2>9, <2>10, <3>1
  <2> HIDE DEF D
  <2> QED
    BY <2>3, <2>7, <2>9, <2>11 DEF Finds
<1> QED
  BY <1>2, <1>6, <1>7

\* The n-th month of a schedule, and its date there.
Month(from, interval, n) == MonthOf(from) + interval * n
Clamped(from, m) == IF DayOf(from) > daysIn(m) THEN daysIn(m) ELSE DayOf(from)

LEMMA MonthStep ==
  ASSUME NEW interval \in Nat \ {0}, NEW from \in InCalendar, NEW n \in Nat,
         Month(from, interval, n) < Horizon
  PROVE  LET t == step(from, "month", interval, n)
         IN /\ t \in InCalendar
            /\ MonthOf(t) = Month(from, interval, n)
            /\ DayOf(t) = Clamped(from, MonthOf(t))
            /\ TimeOfDay(t) = TimeOfDay(from)
<1> DEFINE m == Month(from, interval, n)
<1>1. /\ MonthOf(from) \in 0..Horizon - 1 /\ DayOf(from) \in 1..daysIn(MonthOf(from))
      /\ TimeOfDay(from) \in 0..TicksPerDay - 1
  BY DateParts
<1>2. m \in 0..Horizon - 1
  <2>1. interval * n \in Nat
    OBVIOUS
  <2> QED
    BY <1>1, <2>1, CalendarIsFinite DEF Month
<1>3. daysIn(m) \in 28..31 /\ daysIn(MonthOf(from)) \in 28..31
  BY <1>1, <1>2, MonthLengths
<1>4. Clamped(from, m) \in 1..daysIn(m)
  BY <1>1, <1>3 DEF Clamped
<1>5. step(from, "month", interval, n) = At(m, Clamped(from, m), TimeOfDay(from))
  BY DEF step, Month, Clamped
<1> HIDE DEF m
<1>6. /\ At(m, Clamped(from, m), TimeOfDay(from)) \in InCalendar
      /\ TimeOfDay(At(m, Clamped(from, m), TimeOfDay(from))) = TimeOfDay(from)
      /\ MonthOf(At(m, Clamped(from, m), TimeOfDay(from))) = m
      /\ DayOf(At(m, Clamped(from, m), TimeOfDay(from))) = Clamped(from, m)
  BY <1>1, <1>2, <1>4, PartsOfDate
<1> QED
  BY <1>5, <1>6 DEF m

LEMMA SameDate ==
  ASSUME NEW t \in InCalendar, NEW u \in InCalendar, MonthOf(t) = MonthOf(u),
         DayOf(t) = DayOf(u), TimeOfDay(t) = TimeOfDay(u)
  PROVE  t = u
<1>1. DayNumber(t) = DayNumber(u)
  BY DateParts
<1> QED
  BY <1>1, DateParts

\* The schedule begins at its anchor and goes on from month to month.
LEMMA MonthSteps ==
  ASSUME NEW interval \in Nat \ {0}, NEW from \in InCalendar
  PROVE  /\ Month(from, interval, 0) = MonthOf(from)
         /\ step(from, "month", interval, 0) = from
         /\ \A i, j \in Nat : i < j => Month(from, interval, i) + interval <= Month(from, interval, j)
         /\ \A j \in Nat : Month(from, interval, j) \in Nat
<1>1. MonthOf(from) \in 0..Horizon - 1 /\ DayOf(from) \in 1..daysIn(MonthOf(from))
  BY DateParts
<1>2. Month(from, interval, 0) = MonthOf(from)
  BY <1>1 DEF Month
<1>3. step(from, "month", interval, 0) = from
  <2> DEFINE t == step(from, "month", interval, 0)
  <2>1. Month(from, interval, 0) < Horizon
    BY <1>1, <1>2, CalendarIsFinite
  <2>2. /\ t \in InCalendar /\ MonthOf(t) = MonthOf(from)
        /\ DayOf(t) = Clamped(from, MonthOf(t)) /\ TimeOfDay(t) = TimeOfDay(from)
    BY <1>2, <2>1, MonthStep
  <2>3. Clamped(from, MonthOf(from)) = DayOf(from)
    <3>1. daysIn(MonthOf(from)) \in 28..31
      BY <1>1, MonthLengths
    <3> QED
      BY <1>1, <3>1 DEF Clamped
  <2> HIDE DEF t
  <2>4. t = from
    BY <2>2, <2>3, SameDate
  <2> QED
    BY <2>4 DEF t
<1>4. ASSUME NEW i \in Nat, NEW j \in Nat, i < j
      PROVE  Month(from, interval, i) + interval <= Month(from, interval, j)
  <2>1. interval * i + interval <= interval * j /\ interval * i \in Nat /\ interval * j \in Nat
    <3>1. i * interval + interval <= j * interval
      BY <1>4, Multiply
    <3> QED
      BY <3>1
  <2> QED
    BY <1>1, <2>1 DEF Month
<1>5. ASSUME NEW j \in Nat PROVE Month(from, interval, j) \in Nat
  BY <1>1 DEF Month
<1> QED
  BY <1>2, <1>3, <1>4, <1>5

\* What the months' steps come to is what a schedule by the month means: no
\* date but its steps is on it,
LEMMA MonthsOnSchedule ==
  ASSUME NEW interval \in Nat \ {0}, NEW from \in InCalendar,
         NEW t \in InCalendar, OnSchedule(t, from, "month", interval)
  PROVE  \E j \in Nat : /\ MonthOf(t) = Month(from, interval, j)
                        /\ t = step(from, "month", interval, j)
<1>1. /\ t >= from /\ TimeOfDay(t) = TimeOfDay(from)
      /\ (MonthOf(t) - MonthOf(from)) % interval = 0
      /\ DayOf(t) = DayOf(from) \/ (EndOfMonth(t) /\ DayOf(t) < DayOf(from))
  BY DEF OnSchedule
<1>2. /\ MonthOf(from) <= MonthOf(t) /\ MonthOf(from) \in 0..Horizon - 1
      /\ MonthOf(t) \in 0..Horizon - 1
  BY <1>1, MonthsInOrder, DateParts
<1>3. PICK j \in Nat : MonthOf(t) - MonthOf(from) = interval * j
  <2>1. MonthOf(t) - MonthOf(from) \in Nat
    BY <1>2
  <2> QED
    BY <1>1, <2>1, Multiples
<1>4. MonthOf(t) = Month(from, interval, j) /\ Month(from, interval, j) < Horizon
  BY <1>2, <1>3, CalendarIsFinite DEF Month
<1>5. DayOf(t) = Clamped(from, MonthOf(t))
  <2>1. /\ DayOf(t) \in 1..daysIn(MonthOf(t)) /\ DayOf(from) \in 1..daysIn(MonthOf(from))
        /\ daysIn(MonthOf(t)) \in 28..31 /\ daysIn(MonthOf(from)) \in 28..31
    BY <1>2, DateParts, MonthLengths
  <2> QED
    BY <1>1, <2>1 DEF Clamped, EndOfMonth
<1>6. t = step(from, "month", interval, j)
  <2> DEFINE u == step(from, "month", interval, j)
  <2>1. /\ u \in InCalendar /\ MonthOf(u) = Month(from, interval, j)
        /\ DayOf(u) = Clamped(from, MonthOf(u)) /\ TimeOfDay(u) = TimeOfDay(from)
    BY <1>4, MonthStep
  <2> HIDE DEF u
  <2>2. t = u
    BY <1>1, <1>4, <1>5, <2>1, SameDate
  <2> QED
    BY <2>2 DEF u
<1> QED
  BY <1>4, <1>6

\* and all of them are.
LEMMA StepsAreOnSchedule ==
  ASSUME NEW interval \in Nat \ {0}, NEW from \in InCalendar, NEW n \in Nat,
         Month(from, interval, n) < Horizon
  PROVE  OnSchedule(step(from, "month", interval, n), from, "month", interval)
<1> DEFINE t == step(from, "month", interval, n)
<1>1. /\ t \in InCalendar /\ MonthOf(t) = Month(from, interval, n)
      /\ DayOf(t) = Clamped(from, MonthOf(t)) /\ TimeOfDay(t) = TimeOfDay(from)
  BY MonthStep
<1> HIDE DEF t
<1>2. MonthOf(from) \in 0..Horizon - 1 /\ MonthOf(t) \in 0..Horizon - 1 /\ from \in Nat /\ t \in Nat
  BY <1>1, DateParts
<1>3. t >= from
  <2>1. CASE n = 0
    <3>1. t = from
      BY <2>1, MonthSteps DEF t
    <3> QED
      BY <1>2, <3>1
  <2>2. CASE n # 0
    <3>1. Month(from, interval, 0) + interval <= Month(from, interval, n)
      BY <2>2, MonthSteps
    <3>2. MonthOf(from) < MonthOf(t)
      BY <1>1, <1>2, <3>1, MonthSteps
    <3> QED
      BY <1>1, <1>2, <3>2, MonthsInOrder
  <2> QED
    BY <2>1, <2>2
<1>4. (MonthOf(t) - MonthOf(from)) % interval = 0
  <2>1. MonthOf(t) - MonthOf(from) = interval * n
    <3>1. interval * n \in Nat
      OBVIOUS
    <3> QED
      BY <1>1, <1>2, <3>1 DEF Month
  <2> QED
    BY <2>1, MultiplesDivide
<1>5. DayOf(t) = DayOf(from) \/ (EndOfMonth(t) /\ DayOf(t) < DayOf(from))
  <2>1. DayOf(from) \in 1..daysIn(MonthOf(from)) /\ daysIn(MonthOf(t)) \in 28..31 /\ daysIn(MonthOf(from)) \in 28..31
    BY <1>2, DateParts, MonthLengths
  <2> QED
    BY <1>1, <2>1 DEF Clamped, EndOfMonth
<1>6. OnSchedule(t, from, "month", interval)
  BY <1>1, <1>3, <1>4, <1>5 DEF OnSchedule
<1> QED
  BY <1>6 DEF t

\* The n-th step is the first date after the instant if all before it are not.
LEMMA FirstMonth ==
  ASSUME NEW interval \in Nat \ {0}, NEW from \in InCalendar, NEW after \in InCalendar,
         NEW n \in Nat, Month(from, interval, n) < Horizon,
         step(from, "month", interval, n) > after,
         \A j \in Nat : j < n => step(from, "month", interval, j) <= after
  PROVE  LET next == step(from, "month", interval, n)
         IN /\ next \in InCalendar
            /\ OnSchedule(next, from, "month", interval)
            /\ NoneBetween(after, next, from, "month", interval)
<1> DEFINE D(j) == step(from, "month", interval, j)
           next == D(n)
<1>1. next \in InCalendar /\ MonthOf(next) = Month(from, interval, n)
  BY MonthStep
<1>2. OnSchedule(next, from, "month", interval)
  BY StepsAreOnSchedule
<1>3. /\ next \in Nat /\ next > after /\ after \in Nat
      /\ \A j \in Nat : j < n => D(j) <= after
  BY <1>1 DEF InCalendar
<1> HIDE DEF D
<1>4. ASSUME NEW t \in Nat, after < t, t < next, OnSchedule(t, from, "month", interval)
      PROVE  FALSE
  <2>1. t \in InCalendar
    <3>1. DayNumber(t) <= DayNumber(next)
      BY <1>3, <1>4, DaysInOrder
    <3>2. DayNumber(t) \in Nat /\ DayNumber(next) \in Nat /\ FirstDay[Horizon] \in Nat
      <4>1. DayNumber(t) \in Nat
        BY Divide, DaysHaveTicks DEF DayNumber
      <4>2. FirstDay[Horizon] \in Nat
        BY DaysAreNumbered, CalendarIsFinite
      <4> QED
        BY <1>1, <4>1, <4>2, DateParts
    <3>3. DayNumber(next) < FirstDay[Horizon]
      BY <1>1 DEF InCalendar
    <3> QED
      BY <3>1, <3>2, <3>3 DEF InCalendar
  <2>2. PICK j \in Nat : MonthOf(t) = Month(from, interval, j) /\ t = D(j)
    BY <1>4, <2>1, MonthsOnSchedule DEF D
  <2>3. CASE j < n
    BY <1>3, <1>4, <2>2, <2>3
  <2>4. CASE j = n
    BY <1>4, <2>2, <2>4
  <2>5. CASE n < j
    <3>1. Month(from, interval, n) + interval <= Month(from, interval, j)
      BY <2>5, MonthSteps
    <3>2. MonthOf(next) < MonthOf(t)
      BY <1>1, <2>2, <3>1, MonthSteps
    <3>3. next < t
      BY <1>1, <2>1, <3>2, MonthsInOrder
    <3> QED
      BY <1>3, <1>4, <3>3
  <2> QED
    BY <2>3, <2>4, <2>5
<1>5. NoneBetween(after, next, from, "month", interval)
  BY <1>4, NoneThere
<1> QED
  BY <1>1, <1>2, <1>5 DEF D

\* The jump lands in the last month of the schedule that is not after that of
\* the instant: in this month or in the next one is the first date after it.
LEMMA FindsByMonths ==
  ASSUME NEW interval \in Nat \ {0}, NEW from \in InCalendar, NEW after, Room(after, interval)
  PROVE  Finds(from, "month", interval, after)
<1> DEFINE D(n) == step(from, "month", interval, n)
           M(n) == Month(from, interval, n)
           k == Jump(from, "month", interval, after)
           next == NextDue(from, "month", interval, after)
           a == MonthOf(from)
           b == MonthOf(after)
<1>1. /\ from \in Nat /\ from # NoDate /\ after \in InCalendar /\ after \in Nat
      /\ b + interval < Horizon
  BY DEF Room, InCalendar, NoDate
<1>2. a \in 0..Horizon - 1 /\ b \in 0..Horizon - 1
  BY <1>1, DateParts
<1>3. next = D(Walk(from, "month", interval, after))
  BY <1>1 DEF NextDue
<1>4. k = IF Quotient(b - a, interval) < 0 THEN 0 ELSE Quotient(b - a, interval)
  BY DEF Jump, periodsBetween
<1>5. ASSUME NEW n \in Nat, k \in Nat, n <= k + 1, Walk(from, "month", interval, after) = n,
             M(n) < Horizon, D(n) > after, \A j \in Nat : j < n => D(j) <= after
      PROVE  Finds(from, "month", interval, after)
  <2>1. next = D(n)
    BY <1>3, <1>5
  <2>2. /\ D(n) \in InCalendar
        /\ OnSchedule(D(n), from, "month", interval)
        /\ NoneBetween(after, D(n), from, "month", interval)
    BY <1>1, <1>5, FirstMonth
  <2> HIDE DEF D
  <2> QED
    BY <1>5, <2>1, <2>2 DEF Finds
<1>6. CASE b < a
  <2>1. k = 0
    <3>1. b - a \in Int /\ b - a < 0
      BY <1>2, <1>6
    <3>2. Quotient(b - a, interval) \in Int /\ Quotient(b - a, interval) <= 0
      BY <3>1, NothingCounted
    <3> QED
      BY <1>4, <3>2
  <2>2. D(0) = from /\ M(0) = a
    BY MonthSteps
  <2>3. D(0) > after
    <3>1. after < from
      BY <1>1, <1>6, MonthsInOrder
    <3> QED
      BY <1>1, <2>2, <3>1
  <2>4. Walk(from, "month", interval, after) = 0
    BY <2>1, <2>3, WalkEnds
  <2>5. M(0) < Horizon
    BY <1>2, <2>2, CalendarIsFinite
  <2> HIDE DEF D, M
  <2> QED
    BY <1>5, <2>1, <2>3, <2>4, <2>5
<1>7. CASE a <= b
  <2> DEFINE q == (b - a) \div interval
  <2>1. b - a \in Nat
    BY <1>2, <1>7
  <2>2. q \in Nat /\ (b - a) % interval \in 0..interval - 1 /\ b - a = q * interval + ((b - a) % interval)
    BY <2>1, Divide
  <2>3. k = q
    BY <1>4, <2>1, <2>2 DEF Quotient
  <2> HIDE DEF q, k
  <2>4. /\ M(q) <= b /\ b < M(q + 1) /\ M(q + 1) <= b + interval
        /\ M(q) \in Nat /\ M(q + 1) \in Nat
    <3>1. q * interval = interval * q /\ interval * (q + 1) = interval * q + interval /\ interval * q \in Nat
      BY <2>2
    <3> QED
      BY <1>2, <2>2, <3>1 DEF Month
  <2>5. M(q) < Horizon /\ M(q + 1) < Horizon
    BY <1>1, <1>2, <2>4, CalendarIsFinite
  <2>6. D(q + 1) > after
    <3>1. D(q + 1) \in InCalendar /\ MonthOf(D(q + 1)) = M(q + 1)
      BY <2>2, <2>5, MonthStep
    <3>2. b < MonthOf(D(q + 1))
      BY <2>4, <3>1
    <3> HIDE DEF D
    <3>3. after < D(q + 1)
      BY <1>1, <3>1, <3>2, MonthsInOrder
    <3>4. D(q + 1) \in Nat
      BY <3>1, DateParts
    <3> QED
      BY <1>1, <3>3, <3>4
  <2>7. ASSUME NEW j \in Nat, j < q PROVE D(j) <= after
    <3>1. M(j) + interval <= M(q) /\ M(j) \in Nat
      BY <2>2, <2>7, MonthSteps
    <3>2. M(j) < Horizon /\ M(j) < b
      BY <1>2, <2>4, <2>5, <3>1, CalendarIsFinite
    <3>3. D(j) \in InCalendar /\ MonthOf(D(j)) = M(j)
      BY <3>2, MonthStep
    <3>4. MonthOf(D(j)) < b
      BY <3>2, <3>3
    <3> HIDE DEF D
    <3>5. D(j) < after /\ D(j) \in Nat
      BY <1>1, <3>3, <3>4, MonthsInOrder, DateParts
    <3> QED
      BY <1>1, <3>5
  <2>8. D(q) \in Nat
    <3>1. D(q) \in InCalendar
      BY <2>2, <2>5, MonthStep
    <3> QED
      BY <3>1, DateParts
  <2>9. Walk(from, "month", interval, after) = IF D(q) > after THEN q ELSE q + 1
    BY <2>2, <2>3, <2>6, WalkEnds DEF k
  <2>10. CASE D(q) > after
    <3>1. Walk(from, "month", interval, after) = q
      BY <2>9, <2>10
    <3>2. k \in Nat /\ q <= k + 1
      BY <2>2, <2>3
    <3> HIDE DEF D, M
    <3> QED
      BY <1>5, <2>2, <2>5, <2>7, <2>10, <3>1, <3>2
  <2>11. CASE ~(D(q) > after)
    <3>1. Walk(from, "month", interval, after) = q + 1
      BY <2>9, <2>11
    <3>2. k \in Nat /\ q + 1 <= k + 1 /\ q + 1 \in Nat
      BY <2>2, <2>3
    <3> HIDE DEF D, M
    <3>3. D(q) <= after
      BY <1>1, <2>8, <2>11
    <3>4. \A j \in Nat : j < q + 1 => D(j) <= after
      <4>1. \A j \in Nat : j < q + 1 => j < q \/ j = q
        BY <2>2
      <4> QED
        BY <2>7, <3>3, <4>1
    <3> QED
      BY <1>5, <2>5, <2>6, <3>1, <3>2, <3>4
  <2> QED
    BY <2>10, <2>11
<1> QED
  BY <1>2, <1>6, <1>7

\* NextDue, in any unit.
LEMMA FindsTheFirst ==
  ASSUME NEW unit \in Unit, NEW interval \in Nat \ {0},
         NEW from \in InCalendar, NEW after, Room(after, interval)
  PROVE  Finds(from, unit, interval, after)
<1>1. CASE unit = "day"
  <2>1. EveryDays(unit, interval, interval)
    BY <1>1 DEF EveryDays
  <2> QED
    BY <2>1, FindsByDays
<1>2. CASE unit = "week"
  <2>1. EveryDays(unit, interval, 7 * interval)
    BY <1>2 DEF EveryDays
  <2> QED
    BY <2>1, FindsByDays
<1>3. CASE unit = "month"
  BY <1>3, FindsByMonths
<1> QED
  BY <1>1, <1>2, <1>3 DEF Unit

-----------------------------------------------------------------------------
(* The task.                                                               *)

\* The dates of the task are in the calendar, its schedule is one that was set.
IInv ==
  /\ now \in Instant
  /\ due \in InCalendar \cup {NoDate} /\ anchor \in InCalendar \cup {NoDate}
  /\ repeat \in Schedules \cup {Never}
  /\ repeat = Never => anchor = NoDate
  /\ edits \in 0..MaxEdits
  /\ created \in InCalendar \cup {NoDate} /\ broken \in BOOLEAN /\ moved \in BOOLEAN

LEMMA SchedulesTyped ==
  /\ Schedules \subseteq [unit : Unit, interval : Nat \ {0}]
  /\ Never \notin Schedules
<1>1. Schedules \subseteq [unit : Unit, interval : Nat \ {0}]
  BY SchedulesAreValid DEF Schedules
<1> QED
  BY <1>1 DEF Never, Unit

\* A completion happens at an instant from which the next date is in the
\* calendar.
LEMMA CompletedInTime ==
  ASSUME IInv, Complete
  PROVE  /\ repeat \in Schedules /\ repeat.unit \in Unit /\ repeat.interval \in Nat \ {0}
         /\ After \in Nat /\ Room(After, repeat.interval)
         /\ now \in Nat /\ now <= After /\ due <= After
<1>1. repeat \in Schedules /\ due <= now + Ahead * TicksPerDay
  BY DEF IInv, Complete
<1>2. repeat.unit \in Unit /\ repeat.interval \in Nat \ {0}
  BY <1>1, SchedulesTyped
<1>3. now \in Nat /\ due \in Int /\ (due > now => due \in Nat) /\ Ahead * TicksPerDay \in Nat
  BY InstantsCount, CalendarIsFinite, DaysHaveTicks DEF IInv, InCalendar, NoDate
<1>4. Room(now + Ahead * TicksPerDay, repeat.interval)
  BY <1>1, CalendarIsLongEnough DEF IInv
<1>5. After \in Nat /\ After <= now + Ahead * TicksPerDay /\ now <= After /\ due <= After
  BY <1>1, <1>3 DEF After
<1>6. Room(After, repeat.interval)
  BY <1>2, <1>4, <1>5, RoomBefore
<1> QED
  BY <1>1, <1>2, <1>3, <1>5, <1>6

LEMMA OpensIt ==
  ASSUME IInv, Complete, anchor # NoDate
  PROVE  /\ Finds(anchor, repeat.unit, repeat.interval, After)
         /\ due' = NextDue(anchor, repeat.unit, repeat.interval, After)
<1>1. anchor \in InCalendar
  BY DEF IInv
<1> QED
  BY <1>1, CompletedInTime, FindsTheFirst DEF Complete

LEMMA InitInv == Init => IInv
<1> SUFFICES ASSUME NEW s \in Start,
                    /\ now = 0 /\ due = s.due
                    /\ repeat = [unit |-> s.unit, interval |-> s.interval]
                    /\ anchor = s.due /\ edits = 0
                    /\ created = s.due /\ broken = FALSE /\ moved = FALSE
             PROVE  IInv
  BY DEF Init
<1>1. repeat \in Schedules /\ repeat # Never
  BY SchedulesTyped DEF Schedules
<1>2. s.due \in InCalendar \cup {NoDate}
  BY CalendarIsLongEnough
<1>3. created \in InCalendar \cup {NoDate}
  BY <1>2
<1>4. broken \in BOOLEAN /\ moved \in BOOLEAN
  OBVIOUS
<1> QED
  BY <1>1, <1>2, <1>3, <1>4, InstantsCount, CalendarIsFinite DEF IInv

\* The clock goes from instant to instant.
LEMMA TickIsInstant ==
  ASSUME NEW t \in Instant
  PROVE  FollowedBy[t] \in Instant
<1> DEFINE Follows(u) == /\ u > t \/ (u = t /\ \A v \in Instant : v <= t)
                         /\ \A v \in Instant : v <= t \/ u <= v
<1>1. FollowedBy[t] = CHOOSE u \in Instant : Follows(u)
  BY DEF FollowedBy
<1>2. \E u \in Instant : Follows(u)
  <2> DEFINE Later == {v \in Instant : v > t}
  <2>1. Instant \subseteq Nat
    BY InstantsCount
  <2>2. CASE Later = {}
    <3>1. \A v \in Instant : v <= t
      BY <2>1, <2>2
    <3> QED
      BY <3>1
  <2>3. CASE Later # {}
    <3>1. PICK u \in Later : \A v \in Later : u <= v
      <4>1. Later \subseteq Nat
        BY <2>1
      <4> HIDE DEF Later
      <4> QED
        BY <2>3, <4>1, LeastNumber
    <3>2. Follows(u)
      BY <2>1, <3>1
    <3> QED
      BY <3>2
  <2> QED
    BY <2>2, <2>3
<1> HIDE DEF Follows
<1> QED
  BY <1>1, <1>2

LEMMA NextInv == IInv /\ [Next]_vars => IInv'
<1> SUFFICES ASSUME IInv, [Next]_vars PROVE IInv'
  OBVIOUS
<1>1. CASE Tick
  BY <1>1, TickIsInstant DEF Tick, IInv
<1>2. ASSUME NEW d \in EditDue \cup {due, NoDate}, NEW r \in EditRepeat \cup {repeat, Never},
             Update(d, r)
      PROVE  IInv'
  <2>1. due' \in InCalendar \cup {NoDate} /\ due' = d
    BY <1>2, CalendarIsLongEnough DEF Update, IInv
  <2>2. repeat' \in Schedules \cup {Never} /\ repeat' = r
    BY <1>2 DEF Update, IInv, Schedules
  <2>3. anchor' \in InCalendar \cup {NoDate} /\ (repeat' = Never => anchor' = NoDate)
    BY <1>2, <2>1, <2>2 DEF Update, AnchorFor, IInv
  <2>4. now' \in Instant /\ edits' \in 0..MaxEdits
    BY <1>2, CalendarIsFinite DEF Update, IInv
  <2>5. created' \in InCalendar \cup {NoDate} /\ broken' \in BOOLEAN /\ moved' \in BOOLEAN
    BY <1>2, Zenon DEF Update, IInv
  <2> QED
    BY <2>1, <2>2, <2>3, <2>4, <2>5 DEF IInv
<1>3. CASE Complete
  <2>1. due' \in InCalendar \cup {NoDate}
    <3>1. CASE anchor = NoDate
      BY <1>3, <3>1 DEF Complete, NextDue
    <3>2. CASE anchor # NoDate
      BY <1>3, <3>2, OpensIt DEF Finds
    <3> QED
      BY <3>1, <3>2
  <2> QED
    BY <1>3, <2>1 DEF Complete, IInv
<1>4. CASE UNCHANGED vars
  BY <1>4 DEF vars, IInv
<1> QED
  BY <1>1, <1>2, <1>3, <1>4 DEF Next

THEOREM Invariant == Spec => []IInv
  BY InitInv, NextInv, PTL DEF Spec

\* A schedule has a unit and an interval, and only a schedule has an anchor,
\* whatever is edited and completed (Service.Update, store.Complete).
THEOREM DatesTyped == Spec => []TypeOK
<1>1. IInv => TypeOK
  <2> SUFFICES ASSUME IInv PROVE TypeOK
    OBVIOUS
  <2>1. repeat = Never \/ (repeat.unit \in {"day", "week", "month"} /\ repeat.interval >= 1)
    BY SchedulesTyped DEF IInv, Unit
  <2> QED
    BY <2>1, InstantsCount DEF IInv, TypeOK, InCalendar
<1> QED
  BY <1>1, Invariant, PTL

\* However overdue the task, the walk of NextDue after the jump takes one step
\* at most, in every calendar.
THEOREM WalksOneStep == Spec => []WalkIsShort
<1>1. IInv => WalkIsShort
  <2> SUFFICES ASSUME IInv, anchor # NoDate, repeat # Never
               PROVE  Walk(anchor, repeat.unit, repeat.interval, now)
                        <= Jump(anchor, repeat.unit, repeat.interval, now) + 1
    BY DEF WalkIsShort
  <2>1. /\ anchor \in InCalendar /\ repeat \in Schedules /\ now \in Instant /\ now \in Nat
        /\ repeat.unit \in Unit /\ repeat.interval \in Nat \ {0}
    BY SchedulesTyped, InstantsCount DEF IInv
  <2>2. Room(now, repeat.interval)
    <3>1. now + Ahead * TicksPerDay \in Nat /\ now <= now + Ahead * TicksPerDay
      BY <2>1, CalendarIsFinite, DaysHaveTicks
    <3>2. Room(now + Ahead * TicksPerDay, repeat.interval)
      BY <2>1, CalendarIsLongEnough
    <3> QED
      BY <2>1, <3>1, <3>2, RoomBefore
  <2> QED
    BY <2>1, <2>2, FindsTheFirst DEF Finds
<1> QED
  BY <1>1, Invariant, PTL

\* A completion opens the first date of the schedule after now and after the
\* occurrence: with any month lengths, leap years, anchors and delays, no date
\* is repeated, and none is skipped but those that were missed (NextDue).
THEOREM FirstIsOpened == Spec => OpensTheFirstAfter
<1> DEFINE Opens == Complete =>
                      \/ anchor = NoDate /\ due' = NoDate
                      \/ /\ due' > now /\ due' > due
                         /\ OnSchedule(due', anchor, repeat.unit, repeat.interval)
                         /\ NoneBetween(After, due', anchor, repeat.unit, repeat.interval)
<1>1. IInv => Opens
  <2> SUFFICES ASSUME IInv, Complete
               PROVE  \/ anchor = NoDate /\ due' = NoDate
                      \/ /\ due' > now /\ due' > due
                         /\ OnSchedule(due', anchor, repeat.unit, repeat.interval)
                         /\ NoneBetween(After, due', anchor, repeat.unit, repeat.interval)
    OBVIOUS
  <2>1. CASE anchor = NoDate
    BY <2>1 DEF Complete, NextDue
  <2>2. CASE anchor # NoDate
    <3>1. /\ due' \in InCalendar /\ due' > After
          /\ OnSchedule(due', anchor, repeat.unit, repeat.interval)
          /\ NoneBetween(After, due', anchor, repeat.unit, repeat.interval)
      BY <2>2, OpensIt DEF Finds
    <3>2. now \in Int /\ due \in Int /\ After \in Int /\ due' \in Int /\ now <= After /\ due <= After
      BY <3>1, CompletedInTime DEF IInv, InCalendar, NoDate
    <3>3. due' > now /\ due' > due
      BY <3>1, <3>2
    <3> QED
      BY <3>1, <3>3
  <2> QED
    BY <2>1, <2>2
<1>2. IInv => [Opens]_vars
  BY <1>1
<1> QED
  BY <1>2, Invariant, PTL DEF OpensTheFirstAfter

-----------------------------------------------------------------------------
(* The task's own day.                                                     *)

\* Until its schedule is cleared the task is counted from the date it was
\* created with, and no completion leaves that date's schedule.
KeepsItsDay ==
  (created # NoDate /\ ~broken) =>
    /\ anchor = created /\ repeat # Never
    /\ ~moved => /\ due # NoDate
                 /\ OnSchedule(due, created, repeat.unit, repeat.interval)

\* A date is the first of its own schedule.
LEMMA OnItsOwn ==
  ASSUME NEW t \in InCalendar, NEW unit \in Unit, NEW interval \in Nat \ {0}
  PROVE  OnSchedule(t, t, unit, interval)
<1>1. t \in Nat /\ DayNumber(t) \in Int /\ MonthOf(t) \in Int
  BY DateParts
<1>2. /\ DayNumber(t) - DayNumber(t) = 0 /\ MonthOf(t) - MonthOf(t) = 0 /\ t >= t
  BY <1>1
<1>3. 0 % interval = 0 /\ 0 % (7 * interval) = 0
  <2>1. 0 * interval + 0 = 0 /\ 0 * (7 * interval) + 0 = 0 /\ 7 * interval \in Nat \ {0}
        /\ 0 \in 0..interval - 1 /\ 0 \in 0..(7 * interval) - 1
    OBVIOUS
  <2> QED
    BY <2>1, Divided
<1> QED
  BY <1>2, <1>3 DEF OnSchedule

LEMMA KeepsInit == Init => KeepsItsDay
<1> SUFFICES ASSUME NEW s \in Start,
                    /\ due = s.due /\ created = s.due /\ anchor = s.due
                    /\ repeat = [unit |-> s.unit, interval |-> s.interval],
                    created # NoDate
             PROVE  /\ repeat # Never
                    /\ OnSchedule(created, created, repeat.unit, repeat.interval)
  BY DEF Init, KeepsItsDay
<1>1. repeat \in Schedules /\ repeat # Never
  BY SchedulesTyped DEF Schedules
<1>2. created \in InCalendar
  BY CalendarIsLongEnough
<1> QED
  BY <1>1, <1>2, SchedulesTyped, OnItsOwn

LEMMA KeepsNext == IInv /\ KeepsItsDay /\ [Next]_vars => KeepsItsDay'
<1> SUFFICES ASSUME IInv, KeepsItsDay, [Next]_vars PROVE KeepsItsDay'
  OBVIOUS
<1>1. CASE Tick \/ UNCHANGED vars
  BY <1>1 DEF Tick, vars, KeepsItsDay, OnSchedule
<1>2. ASSUME NEW d, NEW r, Update(d, r)
      PROVE  KeepsItsDay'
  <2> SUFFICES ASSUME created' # NoDate, ~broken'
               PROVE  /\ anchor' = created' /\ repeat' # Never
                      /\ ~moved' => /\ due' # NoDate
                                    /\ OnSchedule(due', created', repeat'.unit, repeat'.interval)
    BY DEF KeepsItsDay, OnSchedule
  <2>1. created' = created /\ ~broken /\ r # Never /\ repeat' = r /\ due' = d
    BY <1>2 DEF Update
  <2>2. anchor = created /\ created # NoDate
    BY <2>1 DEF KeepsItsDay
  <2>3. anchor' = created'
    BY <1>2, <2>1, <2>2 DEF Update, AnchorFor
  <2>4. ~moved' => ~moved /\ due' = due /\ repeat' = repeat
    BY <1>2, <2>1 DEF Update
  <2> QED
    BY <2>1, <2>2, <2>3, <2>4 DEF KeepsItsDay
<1>3. CASE Complete
  <2> SUFFICES ASSUME created' # NoDate, ~broken'
               PROVE  /\ anchor' = created' /\ repeat' # Never
                      /\ ~moved' => /\ due' # NoDate
                                    /\ OnSchedule(due', created', repeat'.unit, repeat'.interval)
    BY DEF KeepsItsDay, OnSchedule
  <2>1. /\ created' = created /\ ~broken /\ repeat' = repeat /\ anchor' = anchor
        /\ repeat # Never
    BY <1>3 DEF Complete
  <2>2. anchor = created /\ anchor # NoDate
    BY <2>1 DEF KeepsItsDay
  <2>3. due' \in InCalendar /\ OnSchedule(due', anchor, repeat.unit, repeat.interval)
    BY <1>3, <2>2, OpensIt DEF Finds
  <2>4. due' # NoDate
    BY <2>3 DEF InCalendar, NoDate
  <2> QED
    BY <2>1, <2>2, <2>3, <2>4
<1> QED
  BY <1>1, <1>2, <1>3 DEF Next

\* A task that has repeated ever since it was created with a date returns to
\* that date's schedule with the first completion after an edit: no run of
\* completions, clamped months and edits makes a 31st a 28th for good
\* (Service.Update, anchorFor, store.Complete, NextDue).
THEOREM ComesBack == Spec => []ReturnsToItsDay
<1>1. Spec => []KeepsItsDay
  BY KeepsInit, KeepsNext, Invariant, PTL DEF Spec
<1>2. KeepsItsDay => ReturnsToItsDay
  BY DEF KeepsItsDay, ReturnsToItsDay
<1> QED
  BY <1>1, <1>2, PTL
=============================================================================
