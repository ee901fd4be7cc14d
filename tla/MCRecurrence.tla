---------------------------- MODULE MCRecurrence ----------------------------
(* Small instances of Recurrence for TLC: 2027, and 2028 with its 29th. *)
EXTENDS Recurrence

Task(m, day, time, unit, interval) ==
  [due |-> At(m, day, time), unit |-> unit, interval |-> interval]

\* From the end of months, across a year's end, and in every unit.
Tasks ==
  {Task(m, daysIn(m) - before, 1, "month", interval) :
     m \in {0, 1, 9}, before \in 0..3, interval \in 1..3}
  \cup {Task(0, 5, 4, "day", interval) : interval \in {1, 3}}
  \cup {Task(0, 5, 4, "week", interval) : interval \in 1..2}

\* Around the ends of months, at two times of the day.
Instants == {At(m, day, time) : m \in 0..15, day \in {1, 14, 28}, time \in {0, 2}}
  \cup {At(m, daysIn(m), time) : m \in 0..15, time \in {1, 4}}

Edited == {At(3, 10, 3), At(12, 31, 0)}
Monthly == [unit |-> "month", interval |-> 1]
Fortnightly == [unit |-> "week", interval |-> 2]
Repeats == {Monthly, Fortnightly}
=============================================================================
