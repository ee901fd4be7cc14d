------------------------------ MODULE MCTaskTx ------------------------------
(* Small instances of TaskTx for TLC. *)
EXTENDS TaskTx, TLC

CONSTANTS t1, t2, t3

AllPairs == {<<t, d>> : t \in Task, d \in Task}
NoPairs == {}
OnePair == {<<t2, t1>>}

\* t3 waits for t2, and both for t1: the smallest graph on which two sweeps
\* can meet the same rows in opposite orders.
Triangle == {<<t2, t1>>, <<t3, t1>>, <<t3, t2>>}

AnyOp == Op
StatusOps == {"update", "complete"}
OpenOrDone == {NotStarted, Completed}

Connections == Permutations(Tx)
=============================================================================
