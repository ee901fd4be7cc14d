---------------------------- MODULE MCTaskStore ----------------------------
(* Small instances of TaskStore for TLC. *)
EXTENDS TaskStore, TLC

AllPairs == {<<t, d>> : t \in Task, d \in Task}
NoPairs == {}

\* Ids and callers are interchangeable.
Symmetric == Permutations(Task) \cup Permutations(Caller)
============================================================================
