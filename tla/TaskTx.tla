------------------------------- MODULE TaskTx --------------------------------
(***************************************************************************)
(* The same store one SQL statement at a time.  Transactions run at READ   *)
(* COMMITTED: each statement reads what is committed when it starts and    *)
(* what its own transaction wrote; an UPDATE waits for the row lock of a   *)
(* transaction in progress, looks again at the row it gets, and keeps the  *)
(* lock until the end; what a WHERE clause reads in another row is not     *)
(* looked at again.                                                        *)
(*                                                                         *)
(* The tasks exist from the start and carry no schedule: a spawned row is  *)
(* known to nobody before the commit that makes it, so TaskStore says all  *)
(* there is to say of it.                                                  *)
(***************************************************************************)
EXTENDS TaskRules, FiniteSets

CONSTANTS
  Task,        \* the rows of todos
  Tx,          \* connections, each with one transaction at a time
  FirstDeps,   \* the dependencies there are at the start
  Linkable,    \* the pairs <<todo, dependsOn>> linked and unlinked since
  Asked,       \* bound: the statuses tasks start in and requests ask for
  Offered,     \* bound: the operations requests ask for
  MaxVersion   \* bound: no write takes a row past this version

ASSUME BoundIsNat == MaxVersion \in Nat
ASSUME AskedIsStatus == Asked \subseteq Status
ASSUME PairsOfTasks == FirstDeps \cup Linkable \subseteq Task \X Task

\* A table is finite, and no_self_dependency is its CHECK.
ASSUME FirstDepsAreATable == IsFiniteSet(FirstDeps) /\ \A e \in FirstDeps : e[1] # e[2]

VARIABLES
  row,      \* todos as committed
  draft,    \* todos as the holder of each row lock sees them
  lock,     \* who holds the row lock, Nobody if free
  deps,     \* todo_dependencies as committed
  tx        \* what each transaction is doing

vars == <<row, draft, lock, deps, tx>>

Nobody == "nobody"
NoPair == <<>>

ASSUME NobodyIsNone == Nobody \notin Tx \cup Task

Row == [status : Status, version : Nat, trash : BOOLEAN, unmet : Nat]

Op == {"update", "complete", "delete", "restore", "link", "unlink"}

ASSUME OfferedAreOps == Offered \subseteq Op

\* select: SELECT status, unmet_deps_count    check: the findCycle query
\* write:  the guarded UPDATE of the row      edge:  INSERT or DELETE the edge
\* adjust: the statement that moves counters begins
\* sweep:  it visits the rows it found, waiting at the row `at`
\* commit: only the event and COMMIT are left
Pc == {"select", "check", "write", "edge", "adjust", "sweep", "commit"}

NoTx == [pc |-> "idle"]

\* to: the status asked for; was: the status the first SELECT saw; rows and
\* delta: the counters still to move, and by how much; pair: the edge written
\* and not committed.
Tr == {NoTx}
      \cup [pc : Pc, op : Op, id : Task, ver : Nat, to : Status, dep : Task,
            was : Status, rows : SUBSET Task, delta : {-1, 1},
            at : Task \cup {Nobody}, pair : (Task \X Task) \cup {NoPair}]

\* Every column keeps its type, so no counter goes below zero (the CHECK of
\* migration 0003), and the row of a free lock has no draft of its own.
TypeOK ==
  /\ row \in [Task -> Row]
  /\ draft \in [Task -> Row]
  /\ lock \in [Task -> Tx \cup {Nobody}]
  /\ deps \subseteq Task \X Task
  /\ tx \in [Tx -> Tr]
  /\ \A t \in Task : lock[t] = Nobody => draft[t] = row[t]

Unfinished(t) == {d \in Task : <<t, d>> \in deps /\ row[d].status # Completed}

Init ==
  /\ deps = FirstDeps
  /\ \E s \in [Task -> Asked] :
       row = [t \in Task |->
                [status |-> s[t], version |-> 1, trash |-> FALSE,
                 unmet |-> Cardinality({d \in Task : /\ <<t, d>> \in FirstDeps
                                                     /\ s[d] # Completed})]]
  /\ draft = row
  /\ lock = [t \in Task |-> Nobody]
  /\ tx = [x \in Tx |-> NoTx]

------------------------------------------------------------------------------
(* Statements.                                                             *)

View(x, t) == IF lock[t] = x THEN draft[t] ELSE row[t]

Free(x, t) == lock[t] \in {x, Nobody}

Goto(x, pc) == tx' = [tx EXCEPT ![x].pc = pc]

\* A row written under its lock, which x holds from now on.
WriteRow(x, t, r) ==
  /\ lock' = [lock EXCEPT ![t] = x]
  /\ draft' = [draft EXCEPT ![t] = r]

\* Fault: a transaction that fails goes back to the pool without a ROLLBACK.
LeakTransaction(x) ==
  /\ tx' = [tx EXCEPT ![x] = NoTx]
  /\ UNCHANGED <<row, draft, lock, deps>>

\* ROLLBACK: the drafts are gone, the locks free.
Undo(x) ==
  /\ draft' = [t \in Task |-> IF lock[t] = x THEN row[t] ELSE draft[t]]
  /\ lock' = [t \in Task |-> IF lock[t] = x THEN Nobody ELSE lock[t]]
  /\ tx' = [tx EXCEPT ![x] = NoTx]
  /\ UNCHANGED <<row, deps>>

\* Another transaction has inserted or deleted the same edge and not ended.
EdgeBusy(x, e) == \E y \in Tx \ {x} : tx[y] # NoTx /\ tx[y].pair = e

Reaches(a, b) ==
  \A S \in SUBSET Task :
    (a \in S /\ \A e \in deps : e[1] \in S => e[2] \in S) => b \in S

FindCycle(t, d) == Reaches(d, t)

------------------------------------------------------------------------------
(* A request begins.                                                       *)

Start(x, op, t, v, to, d) ==
  /\ op \in Offered
  /\ tx[x] = NoTx
  /\ tx' = [tx EXCEPT ![x] =
       [pc |-> CASE op \in {"update", "complete"} -> "select"
                 [] op = "link" -> "check"
                 [] op = "unlink" -> "edge"
                 [] OTHER -> "write",
        op |-> op, id |-> t, ver |-> v, to |-> to, dep |-> d, was |-> NotStarted,
        rows |-> {}, delta |-> 1, at |-> Nobody, pair |-> NoPair]]
  /\ UNCHANGED <<row, draft, lock, deps>>

Readable(t) == {v \in 1..row[t].version : v < MaxVersion}

\* The service reads the live row first and refuses to complete it this way.
BeginUpdate(x, t, v, to) ==
  /\ ~row[t].trash
  /\ to = Completed => row[t].status = Completed
  /\ Start(x, "update", t, v, to, t)

BeginComplete(x, t, v) == Start(x, "complete", t, v, Completed, t)

BeginDelete(x, t, v) == Start(x, "delete", t, v, NotStarted, t)

BeginRestore(x, t) ==
  /\ row[t].version < MaxVersion
  /\ Start(x, "restore", t, 0, NotStarted, t)

BeginLink(x, t, d) == t # d /\ Start(x, "link", t, 0, NotStarted, d)

BeginUnlink(x, t, d) == Start(x, "unlink", t, 0, NotStarted, d)

Begin(x) ==
  \/ \E t \in Task : \E v \in Readable(t) :
       \/ \E to \in Asked : BeginUpdate(x, t, v, to)
       \/ BeginComplete(x, t, v)
       \/ BeginDelete(x, t, v)
  \/ \E t \in Task : BeginRestore(x, t)
  \/ \E e \in Linkable : BeginLink(x, e[1], e[2]) \/ BeginUnlink(x, e[1], e[2])

------------------------------------------------------------------------------
(* UpdateTodo, Complete, DeleteTodo, RestoreTodo.                          *)

\* No FOR UPDATE: the row is read, judged, and not held.
Select(x) ==
  LET r == tx[x]
      seen == View(x, r.id)
  IN /\ r.pc = "select"
     /\ IF CanTransition(seen.status, r.to, seen.unmet) = "ok"
        THEN /\ tx' = [tx EXCEPT ![x].pc = "write", ![x].was = seen.status]
             /\ UNCHANGED <<row, draft, lock, deps>>
        ELSE Undo(x)

\* Fault: the UPDATE does not ask for the version the client read.
MatchedByIdAlone(r) ==
  CASE r.op = "complete" -> TRUE
    [] r.op = "restore"  -> row[r.id].trash
    [] OTHER             -> ~row[r.id].trash

\* Fault: deleted_at is not asked for.
MatchedInTrash(r) == IF r.op = "restore" THEN row[r.id].trash
                                         ELSE row[r.id].version = r.ver

\* The WHERE clause of the request's UPDATE.
Matched(r) ==
  CASE r.op = "complete" -> row[r.id].version = r.ver
    [] r.op = "restore"  -> row[r.id].trash
    [] OTHER             -> row[r.id].version = r.ver /\ ~row[r.id].trash

\* Its SET clause.
Written(r) ==
  LET next == [row[r.id] EXCEPT !.version = @ + 1] IN
    CASE r.op = "delete"  -> [next EXCEPT !.trash = TRUE]
      [] r.op = "restore" -> [next EXCEPT !.trash = FALSE]
      [] OTHER            -> [next EXCEPT !.status = r.to]

\* The row is locked and written, or does not match; a row that matches and
\* is locked by another is waited for.
Write(x) ==
  LET r == tx[x] IN
    /\ r.pc = "write"
    /\ \/ /\ Matched(r)
          /\ Free(x, r.id)
          /\ WriteRow(x, r.id, Written(r))
          /\ Goto(x, IF r.op \in {"update", "complete"} THEN "adjust" ELSE "commit")
          /\ UNCHANGED <<row, deps>>
       \/ /\ ~Matched(r)
          /\ Undo(x)

------------------------------------------------------------------------------
(* AddDependency and RemoveDependency.                                     *)

Check(x) ==
  LET r == tx[x] IN
    /\ r.pc = "check"
    /\ IF FindCycle(r.id, r.dep)
       THEN Undo(x)
       ELSE /\ Goto(x, "edge")
            /\ UNCHANGED <<row, draft, lock, deps>>

\* INSERT ... ON CONFLICT DO NOTHING waits for whoever is writing the same
\* key; DELETE waits for whoever is deleting what it sees.  No row touched
\* ends the transaction with nothing done.
WriteEdge(x) ==
  LET r == tx[x]
      e == <<r.id, r.dep>>
      touches == IF r.op = "link" THEN e \notin deps ELSE e \in deps
      waits == EdgeBusy(x, e) /\ (r.op = "link" \/ e \in deps)
  IN /\ r.pc = "edge"
     /\ ~waits
     /\ IF touches
        THEN /\ tx' = [tx EXCEPT ![x].pc = "adjust", ![x].pair = e]
             /\ UNCHANGED <<row, draft, lock, deps>>
        ELSE Undo(x)

------------------------------------------------------------------------------
(* The counters.                                                           *)

Dependents(t) == {y \in Task : <<y, t>> \in deps}

Counted(x, S) == {y \in S : View(x, y).unmet > 0}

\* The statement begins: which rows it will visit, and what it will do to
\* them, comes from what is committed now.
Adjust(x) ==
  LET r == tx[x]
      finishes == r.was # Completed /\ r.to = Completed
      reopens == r.was = Completed /\ r.to # Completed
      holdsUp == View(x, r.dep).status # Completed
      found == CASE r.op = "link"   -> IF holdsUp THEN {r.id} ELSE {}
                 [] r.op = "unlink" -> IF holdsUp THEN Counted(x, {r.id}) ELSE {}
                 [] finishes        -> Counted(x, Dependents(r.id))
                 [] reopens         -> Dependents(r.id)
                 [] OTHER           -> {}
      up == r.op = "link" \/ (r.op \in {"update", "complete"} /\ reopens)
  IN /\ r.pc = "adjust"
     /\ tx' = [tx EXCEPT ![x].pc = IF found = {} THEN "commit" ELSE "sweep",
                         ![x].rows = found,
                         ![x].delta = IF up THEN 1 ELSE -1]
     /\ UNCHANGED <<row, draft, lock, deps>>

\* Fault: the counter goes down without asking whether it is above zero.
MovedBelowZero(x, t) == [View(x, t) EXCEPT !.unmet = @ + tx[x].delta]

\* The row x got the lock of, its own WHERE clause looked at again.
Moved(x, t) ==
  LET r == View(x, t) IN
    IF tx[x].delta = 1 THEN [r EXCEPT !.unmet = @ + 1]
    ELSE IF r.unmet > 0 THEN [r EXCEPT !.unmet = @ - 1] ELSE r

\* One row of the sweep, in whatever order the plan finds them.  A row locked
\* by another stops the sweep there.
Sweep(x) ==
  LET r == tx[x] IN
    /\ r.pc = "sweep"
    /\ \E t \in IF r.at = Nobody THEN r.rows ELSE {r.at} :
         \/ /\ Free(x, t)
            /\ WriteRow(x, t, Moved(x, t))
            /\ tx' = [tx EXCEPT ![x].rows = @ \ {t}, ![x].at = Nobody,
                                ![x].pc = IF r.rows = {t} THEN "commit" ELSE @]
         \/ /\ ~Free(x, t)
            /\ r.at = Nobody
            /\ tx' = [tx EXCEPT ![x].at = t]
            /\ UNCHANGED <<draft, lock>>
    /\ UNCHANGED <<row, deps>>

------------------------------------------------------------------------------
(* The end.                                                                *)

Commit(x) ==
  LET r == tx[x] IN
    /\ r.pc = "commit"
    /\ row' = [t \in Task |-> IF lock[t] = x THEN draft[t] ELSE row[t]]
    /\ lock' = [t \in Task |-> IF lock[t] = x THEN Nobody ELSE lock[t]]
    /\ deps' = IF r.op = "link" THEN deps \cup {r.pair}
               ELSE IF r.op = "unlink" THEN deps \ {r.pair} ELSE deps
    /\ tx' = [tx EXCEPT ![x] = NoTx]
    /\ UNCHANGED draft

\* The client goes away or the process dies: the context is cancelled.
Cancel(x) == tx[x] # NoTx /\ Undo(x)

\* x can only go on once y has ended.
WaitsOn(x, y) ==
  LET r == tx[x] IN
    /\ x # y
    /\ \/ r.pc = "write" /\ Matched(r) /\ lock[r.id] = y
       \/ r.pc = "sweep" /\ r.at # Nobody /\ lock[r.at] = y
       \/ /\ r.pc = "edge"
          /\ r.op = "link" \/ <<r.id, r.dep>> \in deps
          /\ tx[y] # NoTx /\ tx[y].pair = <<r.id, r.dep>>

\* PostgreSQL breaks a circle of waits by failing one of its transactions.
BreakDeadlock(x) ==
  /\ \E S \in SUBSET Tx :
       /\ x \in S
       /\ \A y \in S : /\ \E z \in S : WaitsOn(y, z)
                       /\ \E z \in S : WaitsOn(z, y)
  /\ Undo(x)

Step(x) ==
  Select(x) \/ Write(x) \/ Check(x) \/ WriteEdge(x) \/ Adjust(x) \/ Sweep(x)
    \/ Commit(x)

Next == \E x \in Tx : Begin(x) \/ Step(x) \/ Cancel(x) \/ BreakDeadlock(x)

Spec == Init /\ [][Next]_vars

\* A statement that can run does run.  Waiters queue for a row, so one that
\* could have it again and again gets it.  The database looks for deadlocks.
Fairness ==
  /\ \A x \in Tx : SF_vars(Step(x))
  /\ WF_vars(\E x \in Tx : BreakDeadlock(x))

FairSpec == Spec /\ Fairness

------------------------------------------------------------------------------
(* What comes of it.                                                       *)

\* A counter never disagrees with the statuses it is derived from, in any
\* state another connection can read (store/todos.go:96-98): transactions
\* that complete, reopen and edit overlapping chains neither lose a count
\* nor move it twice.  Of a graph that does not change meanwhile.
CounterExact == \A t \in Task : row[t].unmet = Cardinality(Unfinished(t))

\* The status a transaction judged the request by, moved the counters by and
\* writes into the history as `from` is still the committed one when it
\* commits, though nothing held the row in between: only the version guard
\* of the UPDATE says so (UpdateTodo, Complete).
JudgedByCommitted ==
  [][\A x \in Tx :
       Commit(x) /\ tx[x].op \in {"update", "complete"} =>
         row[tx[x].id].status = tx[x].was]_vars

\* Whatever the interleaving, the rows change by whole edits of the current
\* version and nothing else.
Rows == INSTANCE VersionedRows WITH
          status <- [t \in Task |-> row[t].status],
          version <- [t \in Task |-> row[t].version],
          trash <- {t \in Task : row[t].trash}

OneEditAtATime == Rows!Spec

\* Every transaction ends, committed or rolled back: waiting for rows in
\* whatever order two sweeps meet them never holds a connection of the pool
\* for good.
TransactionsEnd == \A x \in Tx : tx[x] # NoTx ~> tx[x] = NoTx

\* No task waits for itself (deps.go:14-23, docs/01:144), also when links are
\* added at the same time.
Acyclic == \A e \in deps : ~Reaches(e[2], e[1])
==============================================================================
