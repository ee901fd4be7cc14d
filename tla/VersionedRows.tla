---------------------------- MODULE VersionedRows ----------------------------
(***************************************************************************)
(* What optimistic concurrency promises about the rows of todos, and all   *)
(* of it: a row only ever changes by one whole edit at a time, made to the *)
(* row as it is at that moment, allowed from the status it has at that     *)
(* moment, and counted by its version.  Nobody's reads, waits or retries   *)
(* show.                                                                   *)
(***************************************************************************)
EXTENDS TaskRules

CONSTANT Task

VARIABLES status, version, trash

vars == <<status, version, trash>>

Init ==
  /\ status \in [Task -> Status]
  /\ version = [t \in Task |-> 1]
  /\ trash = {}

Counted(t) == version' = [version EXCEPT ![t] = @ + 1]

\* UpdateTodo, of a live row.  The blocking rule is not this module's.
Edit(t, to) ==
  /\ t \notin trash
  /\ CanTransition(status[t], to, 0) = "ok"
  /\ status' = [status EXCEPT ![t] = to]
  /\ Counted(t)
  /\ UNCHANGED trash

\* Complete, which does not ask whether the row is live.
Finish(t) ==
  /\ CanTransition(status[t], Completed, 0) = "ok"
  /\ status' = [status EXCEPT ![t] = Completed]
  /\ Counted(t)
  /\ UNCHANGED trash

Delete(t) ==
  /\ t \notin trash
  /\ trash' = trash \cup {t}
  /\ Counted(t)
  /\ UNCHANGED status

Restore(t) ==
  /\ t \in trash
  /\ trash' = trash \ {t}
  /\ Counted(t)
  /\ UNCHANGED status

Next ==
  \E t \in Task : \/ \E to \in Status : Edit(t, to)
                  \/ Finish(t) \/ Delete(t) \/ Restore(t)

Spec == Init /\ [][Next]_vars
==============================================================================
