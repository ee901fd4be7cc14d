---------------------------- MODULE TaskTxProofs ----------------------------
(***************************************************************************)
(* Proofs about TaskTx, for any tasks, connections, requests and bounds:   *)
(* what its interleaved statements come to is what VersionedRows promises, *)
(* and of a graph that does not change, that no counter drifts.            *)
(***************************************************************************)
EXTENDS TaskTx, FiniteSetTheorems, TLAPS

Judging == {"update", "complete"}
Editing == {"update", "complete", "delete", "restore"}
Linking == {"link", "unlink"}

\* The steps at which a transaction may hold row locks.
Holding == {"adjust", "sweep", "commit"}

\* Which operation comes to which step, and what it then knows.
Shape(r) ==
  /\ r.pc = "select" => r.op \in Judging
  /\ r.pc = "check" => r.op = "link"
  /\ r.pc = "edge" => r.op \in Linking
  /\ r.pc = "write" => r.op \in Editing
  /\ r.pc \in {"adjust", "sweep"} => r.op \in Judging \cup Linking
  /\ (r.pc \in Pc /\ r.op = "complete") => r.to = Completed
  /\ (r.pc \in Holding /\ r.op \in Linking) => r.pair = <<r.id, r.dep>>
  /\ (r.pc \in {"write"} \cup Holding /\ r.op \in Judging) =>
       CanTransition(r.was, r.to, 0) = "ok"

\* What the transaction of r has made of the row it edits.
Edited(r, old, new) ==
  /\ new.version = old.version + 1
  /\ r.op = "delete" => ~old.trash /\ new.trash /\ new.status = old.status
  /\ r.op = "restore" => old.trash /\ ~new.trash /\ new.status = old.status
  /\ r.op \in Judging => new.status = r.to /\ (new.trash <=> old.trash)
  /\ r.op = "update" => ~old.trash

\* A row whose counter alone may have moved.
Untouched(old, new) ==
  new.version = old.version /\ new.status = old.status /\ (new.trash <=> old.trash)

\* A version only grows, and tells the status it was read with: the reading of
\* a transaction is of the row that its guarded UPDATE still matches.
Reads(r) ==
  /\ (r.pc \in {"select", "write"} /\ r.op \in Judging) => r.ver <= row[r.id].version
  /\ (r.pc = "write" /\ r.op \in Judging /\ row[r.id].version = r.ver) =>
       r.was = row[r.id].status
  /\ (r.pc \in Holding /\ r.op \in Judging) => r.was = row[r.id].status

\* The locks of a transaction: the row it edits, and rows of which only the
\* counter moves.
Locks(x, r) ==
  /\ r.pc \notin Holding => \A t \in Task : lock[t] # x
  /\ (r.pc \in Holding /\ r.op \in Editing) =>
       lock[r.id] = x /\ Edited(r, row[r.id], draft[r.id])
  /\ \A t \in Task :
       (lock[t] = x /\ ~(r.op \in Editing /\ t = r.id)) => Untouched(row[t], draft[t])

TxInv == \A x \in Tx : Shape(tx[x]) /\ Reads(tx[x]) /\ Locks(x, tx[x])

IInv == TypeOK /\ TxInv

------------------------------------------------------------------------------
(* What a step leaves of the others.                                       *)

TxRec == [pc : Pc, op : Op, id : Task, ver : Nat, to : Status, dep : Task,
          was : Status, rows : SUBSET Task, delta : {-1, 1},
          at : Task \cup {Nobody}, pair : (Task \X Task) \cup {NoPair}]

\* A transaction that has begun has all its fields.
LEMMA Fields ==
  ASSUME TypeOK, NEW x \in Tx, tx[x].pc # "idle"
  PROVE  tx[x] \in TxRec
<1>1. tx[x] \in Tr
  BY DEF TypeOK
<1> QED
  BY <1>1 DEF Tr, TxRec, NoTx

\* The rows as committed only ever change by a later version.
RowsGrow ==
  \A t \in Task : /\ row[t].version <= row'[t].version
                  /\ row'[t].version = row[t].version => row'[t].status = row[t].status

\* Where y's locks, and the rows and drafts under them, stay as they are and
\* the other rows only grow, what is known of y stays known.
LEMMA OtherKeeps ==
  ASSUME TypeOK, TypeOK', NEW y \in Tx,
         Shape(tx[y]), Reads(tx[y]), Locks(y, tx[y]), tx'[y] = tx[y],
         RowsGrow,
         \A t \in Task : lock'[t] = y <=> lock[t] = y,
         \A t \in Task : lock[t] = y => row'[t] = row[t] /\ draft'[t] = draft[t]
  PROVE  (Shape(tx[y]) /\ Reads(tx[y]) /\ Locks(y, tx[y]))'
<1>1. Shape(tx[y])'
  BY DEF Shape
<1>2. CASE tx[y].pc = "idle"
  <2>1. Reads(tx[y])'
    BY <1>2 DEF Reads, Holding
  <2>2. Locks(y, tx[y])'
    BY <1>2 DEF Locks, Holding
  <2> QED
    BY <1>1, <2>1, <2>2
<1>3. CASE tx[y].pc # "idle"
  <2>1. PICK r \in TxRec : r = tx[y]
    BY <1>3, Fields
  <2>2. /\ r.id \in Task /\ r.ver \in Nat
        /\ row[r.id].version \in Nat /\ row'[r.id].version \in Nat
    BY <2>1 DEF TxRec, TypeOK, Row
  <2>3. Reads(r)'
    <3>1. r.pc \in Holding /\ r.op \in Judging => row'[r.id] = row[r.id]
      BY <2>1, <2>2 DEF Locks, Judging, Editing
    <3> QED
      BY <2>1, <2>2, <3>1 DEF Reads, RowsGrow
  <2>4. Locks(y, r)'
    BY <2>1, <2>2 DEF Locks
  <2> QED
    BY <1>1, <2>1, <2>3, <2>4 DEF Reads, Locks
<1> QED
  BY <1>2, <1>3

\* A step that leaves the tables and locks alone.
LEMMA OnlyTx ==
  ASSUME IInv, NEW x \in Tx, NEW q \in TxRec,
         tx' \in [Tx -> Tr], tx'[x] = q, \A y \in Tx \ {x} : tx'[y] = tx[y],
         UNCHANGED <<row, draft, lock, deps>>,
         Shape(q), Reads(q), Locks(x, q)
  PROVE  IInv'
<1>1. TypeOK'
  BY DEF IInv, TypeOK
<1>2. ASSUME NEW y \in Tx
      PROVE  (Shape(tx[y]) /\ Reads(tx[y]) /\ Locks(y, tx[y]))'
  <2>1. CASE y = x
    BY <2>1 DEF Shape, Reads, Locks
  <2>2. CASE y # x
    <3>1. RowsGrow
      BY DEF IInv, TypeOK, Row, RowsGrow
    <3> QED
      BY <1>1, <2>2, <3>1, OtherKeeps DEF IInv, TxInv
  <2> QED
    BY <2>1, <2>2
<1> QED
  BY <1>1, <1>2 DEF IInv, TxInv

\* A transaction that ends without effect.
LEMMA UndoKeeps ==
  ASSUME IInv, NEW x \in Tx, Undo(x)
  PROVE  IInv'
<1> USE NobodyIsNone
<1>1. TypeOK'
  BY DEF Undo, IInv, TypeOK, Tr, NoTx
<1>2. ASSUME NEW y \in Tx
      PROVE  (Shape(tx[y]) /\ Reads(tx[y]) /\ Locks(y, tx[y]))'
  <2>1. CASE y = x
    <3>1. tx'[y] = NoTx /\ \A t \in Task : lock'[t] # y
      BY <2>1 DEF Undo, IInv, TypeOK
    <3> QED
      BY <3>1 DEF Shape, Reads, Locks, NoTx, Holding, Pc
  <2>2. CASE y # x
    <3>1. RowsGrow
      BY DEF IInv, TypeOK, Row, RowsGrow, Undo
    <3>2. /\ tx'[y] = tx[y]
          /\ \A t \in Task : lock'[t] = y <=> lock[t] = y
          /\ \A t \in Task : lock[t] = y => row'[t] = row[t] /\ draft'[t] = draft[t]
      BY <2>2 DEF Undo, IInv, TypeOK
    <3> QED
      BY <1>1, <2>2, <3>1, <3>2, OtherKeeps DEF IInv, TxInv
  <2> QED
    BY <2>1, <2>2
<1> QED
  BY <1>1, <1>2 DEF IInv, TxInv

\* A row written under its lock.
LEMMA WriteKeeps ==
  ASSUME IInv, NEW x \in Tx, NEW q \in TxRec, NEW t \in Task, NEW new \in Row,
         tx' \in [Tx -> Tr], tx'[x] = q, \A y \in Tx \ {x} : tx'[y] = tx[y],
         Free(x, t), WriteRow(x, t, new), UNCHANGED <<row, deps>>,
         Shape(q), Reads(q), Locks(x, q)'
  PROVE  IInv'
<1> USE NobodyIsNone
<1>1. TypeOK'
  BY DEF WriteRow, IInv, TypeOK
<1>2. ASSUME NEW y \in Tx
      PROVE  (Shape(tx[y]) /\ Reads(tx[y]) /\ Locks(y, tx[y]))'
  <2>1. CASE y = x
    BY <2>1 DEF Shape, Reads, Locks
  <2>2. CASE y # x
    <3>1. RowsGrow
      BY DEF IInv, TypeOK, Row, RowsGrow
    <3>2. /\ \A u \in Task : lock'[u] = y <=> lock[u] = y
          /\ \A u \in Task : lock[u] = y => row'[u] = row[u] /\ draft'[u] = draft[u]
      BY <2>2 DEF WriteRow, Free, IInv, TypeOK
    <3> QED
      BY <1>1, <2>2, <3>1, <3>2, OtherKeeps DEF IInv, TxInv
  <2> QED
    BY <2>1, <2>2
<1> QED
  BY <1>1, <1>2 DEF IInv, TxInv

------------------------------------------------------------------------------
(* One lemma for each action.                                              *)

\* Going on to another step changes nothing else of the record.
LEMMA GotoRec ==
  ASSUME TypeOK, NEW x \in Tx, NEW r \in TxRec, r = tx[x], NEW pc \in Pc, Goto(x, pc)
  PROVE  \E q \in TxRec :
           /\ tx' \in [Tx -> Tr] /\ tx'[x] = q /\ \A y \in Tx \ {x} : tx'[y] = tx[y]
           /\ q.pc = pc /\ q.op = r.op /\ q.id = r.id /\ q.ver = r.ver /\ q.to = r.to
           /\ q.dep = r.dep /\ q.was = r.was /\ q.rows = r.rows /\ q.delta = r.delta
           /\ q.at = r.at /\ q.pair = r.pair
<1> DEFINE q == [r EXCEPT !.pc = pc]
<1>1. /\ q \in TxRec
      /\ q.pc = pc /\ q.op = r.op /\ q.id = r.id /\ q.ver = r.ver /\ q.to = r.to
      /\ q.dep = r.dep /\ q.was = r.was /\ q.rows = r.rows /\ q.delta = r.delta
      /\ q.at = r.at /\ q.pair = r.pair
  BY DEF TxRec
<1>2. tx' = [tx EXCEPT ![x] = q]
  BY DEF Goto
<1> HIDE DEF q
<1>3. tx' \in [Tx -> Tr] /\ tx'[x] = q /\ \A y \in Tx \ {x} : tx'[y] = tx[y]
  BY <1>1, <1>2 DEF TypeOK, Tr, TxRec
<1> QED
  BY <1>1, <1>3, Zenon

\* What one task waits for in a finite graph is finite.
LEMMA WaitsFinite ==
  ASSUME NEW R, IsFiniteSet(R), NEW t, NEW D, \A d \in D : <<t, d>> \in R
  PROVE  IsFiniteSet(D) /\ Cardinality(D) \in Nat
<1> DEFINE f == [d \in D |-> <<t, d>>]
<1>1. f \in Injection(D, R)
  BY DEF Injection, IsInjective
<1>2. IsFiniteSet(D)
  BY <1>1, FS_Injection
<1> QED
  BY <1>2, FS_CardinalityType

\* Before anything has begun.
LEMMA InitInv == Init => IInv
<1> SUFFICES ASSUME Init PROVE IInv
  OBVIOUS
<1> USE NobodyIsNone
<1>1. PICK s \in [Task -> Asked] :
        row = [t \in Task |->
                 [status |-> s[t], version |-> 1, trash |-> FALSE,
                  unmet |-> Cardinality({d \in Task : /\ <<t, d>> \in FirstDeps
                                                      /\ s[d] # Completed})]]
  BY DEF Init
<1>2. ASSUME NEW t \in Task
      PROVE  Cardinality({d \in Task : <<t, d>> \in FirstDeps /\ s[d] # Completed}) \in Nat
  BY FirstDepsAreATable, WaitsFinite
<1>3. row \in [Task -> Row]
  BY <1>1, <1>2, AskedIsStatus DEF Row
<1>4. TypeOK
  BY <1>3, PairsOfTasks DEF Init, TypeOK, Tr, NoTx
<1>5. TxInv
  BY DEF Init, TxInv, Shape, Reads, Locks, NoTx, Holding, Pc
<1> QED
  BY <1>4, <1>5 DEF IInv

\* A request begins with a version the row has had, and holds nothing.
LEMMA StartKeeps ==
  ASSUME IInv, NEW x \in Tx, NEW op \in Op, NEW t \in Task, NEW v \in Nat,
         NEW to \in Status, NEW d \in Task, Start(x, op, t, v, to, d),
         op = "complete" => to = Completed,
         op \in Judging => v <= row[t].version
  PROVE  IInv'
<1> DEFINE pc == CASE op \in {"update", "complete"} -> "select"
                   [] op = "link" -> "check"
                   [] op = "unlink" -> "edge"
                   [] OTHER -> "write"
           q == [pc |-> pc, op |-> op, id |-> t, ver |-> v, to |-> to, dep |-> d,
                 was |-> NotStarted, rows |-> {}, delta |-> 1, at |-> Nobody,
                 pair |-> NoPair]
<1>1. pc \in Pc /\ NotStarted \in Status
  BY DEF Pc, Op, Status
<1>2. q \in TxRec
  BY <1>1 DEF TxRec
<1>3. /\ tx' = [tx EXCEPT ![x] = q] /\ tx[x] = NoTx
      /\ UNCHANGED <<row, draft, lock, deps>>
  BY DEF Start
<1>4. /\ q.pc = pc /\ q.op = op /\ q.id = t /\ q.ver = v /\ q.to = to
  OBVIOUS
<1> HIDE DEF q
<1>5. tx' \in [Tx -> Tr] /\ tx'[x] = q /\ \A y \in Tx \ {x} : tx'[y] = tx[y]
  BY <1>2, <1>3 DEF IInv, TypeOK, Tr, TxRec
<1>6. \A u \in Task : lock[u] # x
  BY <1>3 DEF IInv, TxInv, Locks, NoTx, Holding
<1>7. Shape(q)
  BY <1>4 DEF Shape, Op, Judging, Editing, Linking, Holding, Pc
<1>8. Reads(q)
  BY <1>4 DEF Reads, Judging, Holding
<1>9. Locks(x, q)
  BY <1>4, <1>6 DEF Locks, Holding
<1> QED
  BY <1>2, <1>3, <1>5, <1>7, <1>8, <1>9, OnlyTx

\* Each operation begins that way.
LEMMA BeginKeeps ==
  ASSUME IInv, NEW x \in Tx, Begin(x)
  PROVE  IInv'
<1>0. /\ Completed \in Status /\ NotStarted \in Status
      /\ \A t \in Task : row[t].version \in Nat
  BY DEF Status, IInv, TypeOK, Row
<1>1. ASSUME NEW t \in Task, NEW v \in Readable(t), NEW to \in Asked, BeginUpdate(x, t, v, to)
      PROVE  IInv'
  BY <1>0, <1>1, StartKeeps, AskedIsStatus DEF BeginUpdate, Readable, Op
<1>2. ASSUME NEW t \in Task, NEW v \in Readable(t), BeginComplete(x, t, v)
      PROVE  IInv'
  BY <1>0, <1>2, StartKeeps DEF BeginComplete, Readable, Op
<1>3. ASSUME NEW t \in Task, NEW v \in Readable(t), BeginDelete(x, t, v)
      PROVE  IInv'
  BY <1>0, <1>3, StartKeeps DEF BeginDelete, Readable, Op, Judging
<1>4. ASSUME NEW t \in Task, BeginRestore(x, t)
      PROVE  IInv'
  BY <1>0, <1>4, StartKeeps DEF BeginRestore, Op, Judging
<1>5. ASSUME NEW e \in Linkable, BeginLink(x, e[1], e[2]) \/ BeginUnlink(x, e[1], e[2])
      PROVE  IInv'
  <2>1. e[1] \in Task /\ e[2] \in Task
    BY PairsOfTasks
  <2> QED
    BY <1>0, <1>5, <2>1, StartKeeps DEF BeginLink, BeginUnlink, Op, Judging
<1> QED
  BY <1>1, <1>2, <1>3, <1>4, <1>5 DEF Begin

\* The reading: what the rules said of it holds of the row as it is.
LEMMA SelectKeeps ==
  ASSUME IInv, NEW x \in Tx, Select(x)
  PROVE  IInv'
<1>1. PICK r \in TxRec : r = tx[x] /\ r.pc = "select"
  BY Fields DEF Select, IInv
<1>2. /\ Shape(r) /\ Reads(r) /\ Locks(x, r)
      /\ r.op \in Judging /\ r.id \in Task /\ r.to \in Status
  BY <1>1 DEF IInv, TxInv, Shape, TxRec
<1> DEFINE seen == View(x, r.id)
<1>3. seen = row[r.id] /\ seen.status \in Status
  BY <1>1, <1>2 DEF View, Locks, Holding, IInv, TypeOK, Row
<1>4. CASE CanTransition(seen.status, r.to, seen.unmet) # "ok"
  BY <1>1, <1>4, UndoKeeps DEF Select
<1>5. CASE CanTransition(seen.status, r.to, seen.unmet) = "ok"
  <2> DEFINE next == [r EXCEPT !.pc = "write", !.was = seen.status]
  <2>1. /\ next \in TxRec /\ next.pc = "write" /\ next.was = seen.status
        /\ next.op = r.op /\ next.id = r.id /\ next.ver = r.ver /\ next.to = r.to
    BY <1>3 DEF TxRec, Pc
  <2>2. tx' = [tx EXCEPT ![x] = next] /\ UNCHANGED <<row, draft, lock, deps>>
    BY <1>1, <1>5 DEF Select
  <2>3. PICK q \in TxRec : /\ q = next /\ q.pc = "write" /\ q.was = seen.status
                           /\ q.op = r.op /\ q.id = r.id /\ q.ver = r.ver /\ q.to = r.to
    BY <2>1, Zenon
  <2>4. tx' \in [Tx -> Tr] /\ tx'[x] = q /\ \A y \in Tx \ {x} : tx'[y] = tx[y]
    <3> HIDE DEF next
    <3> QED
      BY <2>2, <2>3 DEF IInv, TypeOK, Tr, TxRec
  <2>5. Shape(q)
    <3>1. CanTransition(q.was, q.to, 0) = "ok"
      BY <1>5, <2>3 DEF CanTransition
    <3> QED
      BY <1>1, <1>2, <2>3, <3>1 DEF Shape, Judging, Editing, Linking, Holding, Pc
  <2>6. Reads(q) /\ Locks(x, q)
    BY <1>1, <1>2, <1>3, <2>3 DEF Reads, Locks, Holding
  <2> QED
    BY <2>2, <2>4, <2>5, <2>6, OnlyTx
<1> QED
  BY <1>4, <1>5

\* What Written makes of a row that Matched.
LEMMA WrittenRow ==
  ASSUME TypeOK, NEW r \in TxRec, Matched(r), r.op \in Editing,
         r.op = "complete" => r.to = Completed
  PROVE  Written(r) \in Row /\ Edited(r, row[r.id], Written(r))
         /\ Written(r).unmet = row[r.id].unmet
<1> DEFINE old == row[r.id]
           next == [old EXCEPT !.version = @ + 1]
<1>1. old \in Row /\ r.to \in Status
  BY DEF TypeOK, TxRec
<1>2. /\ next \in Row /\ next.version = old.version + 1 /\ next.status = old.status
      /\ next.trash = old.trash /\ next.unmet = old.unmet
  BY <1>1 DEF Row
<1>3. CASE r.op = "delete"
  <2>1. Written(r) = [next EXCEPT !.trash = TRUE]
    BY <1>3 DEF Written
  <2>2. ~old.trash
    BY <1>3 DEF Matched
  <2> QED
    BY <1>2, <1>3, <2>1, <2>2 DEF Row, Edited, Judging
<1>4. CASE r.op = "restore"
  <2>1. Written(r) = [next EXCEPT !.trash = FALSE]
    BY <1>4 DEF Written
  <2>2. old.trash
    BY <1>4 DEF Matched
  <2> QED
    BY <1>2, <1>4, <2>1, <2>2 DEF Row, Edited, Judging
<1>5. CASE r.op \in Judging
  <2>1. Written(r) = [next EXCEPT !.status = r.to]
    BY <1>5 DEF Written, Judging
  <2>2. r.op = "update" => ~old.trash
    BY DEF Matched
  <2>3. [next EXCEPT !.status = r.to] \in Row
    BY <1>1, <1>2 DEF Row
  <2>4. /\ Written(r).version = old.version + 1 /\ Written(r).status = r.to
        /\ (Written(r).trash <=> old.trash) /\ Written(r).unmet = old.unmet
    BY <1>1, <1>2, <2>1 DEF Row
  <2> QED
    BY <1>5, <2>1, <2>2, <2>3, <2>4 DEF Edited, Judging
<1> QED
  BY <1>3, <1>4, <1>5 DEF Editing, Judging

\* The guarded write.  The version that still matches is that of the reading.
LEMMA WriteInv ==
  ASSUME IInv, NEW x \in Tx, Write(x)
  PROVE  IInv'
<1> USE NobodyIsNone
<1>1. PICK r \in TxRec : r = tx[x] /\ r.pc = "write"
  BY Fields DEF Write, IInv
<1>2. /\ Shape(r) /\ Reads(r) /\ Locks(x, r)
      /\ r.op \in Editing /\ r.id \in Task /\ r.to \in Status
      /\ r.op = "complete" => r.to = Completed
  BY <1>1 DEF IInv, TxInv, Shape, TxRec, Pc
<1>3. CASE ~Matched(r) /\ Undo(x)
  BY <1>3, UndoKeeps
<1>4. ASSUME Matched(r), Free(x, r.id), WriteRow(x, r.id, Written(r)),
             Goto(x, IF r.op \in {"update", "complete"} THEN "adjust" ELSE "commit"),
             UNCHANGED <<row, deps>>
      PROVE  IInv'
  <2>1. PICK pc \in Pc : /\ pc = IF r.op \in {"update", "complete"} THEN "adjust" ELSE "commit"
                         /\ Goto(x, pc)
    BY <1>4 DEF Pc
  <2>2. PICK q \in TxRec :
           /\ tx' \in [Tx -> Tr] /\ tx'[x] = q /\ \A y \in Tx \ {x} : tx'[y] = tx[y]
           /\ q.pc = pc /\ q.op = r.op /\ q.id = r.id /\ q.ver = r.ver /\ q.to = r.to
           /\ q.was = r.was
    BY <1>1, <2>1, GotoRec DEF IInv
  <2>3. Written(r) \in Row /\ Edited(r, row[r.id], Written(r))
    BY <1>2, <1>4, WrittenRow DEF IInv
  <2>4. PICK new \in Row : new = Written(r)
    BY <2>3
  <2>5. Shape(q)
    BY <1>1, <1>2, <2>1, <2>2 DEF Shape, Holding, Judging, Editing, Linking, Pc
  <2>6. Reads(q)
    <3>1. r.op \in Judging => row[r.id].version = r.ver
      BY <1>4 DEF Matched, Judging
    <3> QED
      BY <1>1, <1>2, <2>1, <2>2, <3>1 DEF Reads, Holding, Judging
  <2>7. Locks(x, q)'
    <3>1. /\ lock'[r.id] = x /\ draft'[r.id] = new
          /\ \A t \in Task \ {r.id} : lock'[t] = lock[t] /\ draft'[t] = draft[t]
      BY <1>2, <1>4, <2>4 DEF WriteRow, IInv, TypeOK
    <3>2. \A t \in Task : lock[t] # x
      BY <1>1, <1>2 DEF Locks, Holding
    <3>3. Edited(q, row[r.id], new)
      BY <2>2, <2>3, <2>4 DEF Edited
    <3>4. q.pc \in Holding
      BY <2>1, <2>2 DEF Holding
    <3> QED
      BY <1>2, <1>4, <2>2, <3>1, <3>2, <3>3, <3>4 DEF Locks
  <2> QED
    BY <1>2, <1>4, <2>2, <2>4, <2>5, <2>6, <2>7, WriteKeeps
<1> QED
  BY <1>1, <1>3, <1>4 DEF Write

\* The walk over the graph.
LEMMA CheckInv ==
  ASSUME IInv, NEW x \in Tx, Check(x)
  PROVE  IInv'
<1>1. PICK r \in TxRec : r = tx[x] /\ r.pc = "check"
  BY Fields DEF Check, IInv
<1>2. Shape(r) /\ Reads(r) /\ Locks(x, r) /\ r.op = "link"
  BY <1>1 DEF IInv, TxInv, Shape
<1>3. CASE Undo(x)
  BY <1>3, UndoKeeps
<1>4. CASE Goto(x, "edge") /\ UNCHANGED <<row, draft, lock, deps>>
  <2>1. PICK q \in TxRec :
           /\ tx' \in [Tx -> Tr] /\ tx'[x] = q /\ \A y \in Tx \ {x} : tx'[y] = tx[y]
           /\ q.pc = "edge" /\ q.op = r.op
    BY <1>1, <1>4, GotoRec DEF IInv, Pc
  <2>2. Shape(q) /\ Reads(q) /\ Locks(x, q)
    BY <1>1, <1>2, <2>1 DEF Shape, Reads, Locks, Holding, Linking, Judging
  <2> QED
    BY <1>4, <2>1, <2>2, OnlyTx
<1> QED
  BY <1>3, <1>4 DEF Check

\* The edge, not yet committed.
LEMMA WriteEdgeInv ==
  ASSUME IInv, NEW x \in Tx, WriteEdge(x)
  PROVE  IInv'
<1>1. PICK r \in TxRec : r = tx[x] /\ r.pc = "edge"
  BY Fields DEF WriteEdge, IInv
<1>2. /\ Shape(r) /\ Reads(r) /\ Locks(x, r) /\ r.op \in Linking
      /\ r.id \in Task /\ r.dep \in Task
  BY <1>1 DEF IInv, TxInv, Shape, TxRec
<1>3. CASE Undo(x)
  BY <1>3, UndoKeeps
<1>4. CASE /\ tx' = [tx EXCEPT ![x].pc = "adjust", ![x].pair = <<r.id, r.dep>>]
           /\ UNCHANGED <<row, draft, lock, deps>>
  <2> DEFINE next == [r EXCEPT !.pc = "adjust", !.pair = <<r.id, r.dep>>]
  <2>1. /\ next \in TxRec /\ next.pc = "adjust" /\ next.pair = <<r.id, r.dep>>
        /\ next.op = r.op /\ next.id = r.id /\ next.dep = r.dep
    BY <1>2 DEF TxRec, Pc
  <2>2. tx' = [tx EXCEPT ![x] = next]
    BY <1>1, <1>4
  <2>3. PICK q \in TxRec : /\ q = next /\ q.pc = "adjust" /\ q.pair = <<r.id, r.dep>>
                           /\ q.op = r.op /\ q.id = r.id /\ q.dep = r.dep
    BY <2>1, Zenon
  <2>4. tx' \in [Tx -> Tr] /\ tx'[x] = q /\ \A y \in Tx \ {x} : tx'[y] = tx[y]
    <3> HIDE DEF next
    <3> QED
      BY <2>2, <2>3 DEF IInv, TypeOK, Tr, TxRec
  <2>5. Shape(q) /\ Reads(q) /\ Locks(x, q)
    BY <1>1, <1>2, <2>3 DEF Shape, Reads, Locks, Holding, Linking, Judging, Editing
  <2> QED
    BY <1>4, <2>4, <2>5, OnlyTx
<1> QED
  BY <1>1, <1>3, <1>4 DEF WriteEdge

\* The rows to visit are found.
LEMMA AdjustInv ==
  ASSUME IInv, NEW x \in Tx, Adjust(x)
  PROVE  IInv'
<1>1. PICK r \in TxRec : r = tx[x] /\ r.pc = "adjust"
  BY Fields DEF Adjust, IInv
<1>2. /\ Shape(r) /\ Reads(r) /\ Locks(x, r) /\ r.op \in Judging \cup Linking
      /\ r.id \in Task
  BY <1>1 DEF IInv, TxInv, Shape, TxRec
<1>3. PICK found \in SUBSET Task, delta \in {-1, 1} :
        /\ tx' = [tx EXCEPT ![x].pc = IF found = {} THEN "commit" ELSE "sweep",
                            ![x].rows = found, ![x].delta = delta]
        /\ UNCHANGED <<row, draft, lock, deps>>
  BY <1>1, <1>2 DEF Adjust, Counted, Dependents
<1>4. PICK pc \in {"commit", "sweep"} : pc = IF found = {} THEN "commit" ELSE "sweep"
  OBVIOUS
<1> DEFINE next == [r EXCEPT !.pc = pc, !.rows = found, !.delta = delta]
<1>5. /\ next \in TxRec /\ next.pc = pc /\ next.op = r.op /\ next.id = r.id
      /\ next.to = r.to /\ next.was = r.was /\ next.dep = r.dep /\ next.pair = r.pair
  BY DEF TxRec, Pc
<1>6. tx' = [tx EXCEPT ![x] = next]
  BY <1>1, <1>3, <1>4
<1>7. PICK q \in TxRec :
        /\ q = next /\ q.pc = pc /\ q.op = r.op /\ q.id = r.id
        /\ q.to = r.to /\ q.was = r.was /\ q.dep = r.dep /\ q.pair = r.pair
  BY <1>5, Zenon
<1>8. tx' \in [Tx -> Tr] /\ tx'[x] = q /\ \A y \in Tx \ {x} : tx'[y] = tx[y]
  <2> HIDE DEF next
  <2> QED
    BY <1>6, <1>7 DEF IInv, TypeOK, Tr, TxRec
<1>9. Shape(q) /\ Reads(q) /\ Locks(x, q)
  BY <1>1, <1>2, <1>7 DEF Shape, Reads, Locks, Edited, Holding, Linking, Judging, Editing, Pc
<1> QED
  BY <1>3, <1>8, <1>9, OnlyTx

\* A visit of the sweep moves a counter, never below zero, and nothing else.
LEMMA MovedRow ==
  ASSUME TypeOK, NEW x \in Tx, NEW t \in Task, tx[x].delta \in {-1, 1}
  PROVE  /\ View(x, t) \in Row /\ Moved(x, t) \in Row
         /\ Untouched(View(x, t), Moved(x, t))
         /\ Moved(x, t).unmet = IF tx[x].delta = 1 THEN View(x, t).unmet + 1
                                ELSE IF View(x, t).unmet > 0 THEN View(x, t).unmet - 1
                                ELSE View(x, t).unmet
<1> DEFINE v == View(x, t)
<1>1. v \in Row
  BY DEF View, TypeOK
<1> HIDE DEF v
<1>2. CASE tx[x].delta = 1
  <2>1. Moved(x, t) = [v EXCEPT !.unmet = @ + 1]
    BY <1>2 DEF Moved, v
  <2>2. [v EXCEPT !.unmet = @ + 1] \in Row /\ Untouched(v, [v EXCEPT !.unmet = @ + 1])
    BY <1>1 DEF Row, Untouched
  <2>3. Moved(x, t).unmet = v.unmet + 1
    BY <1>1, <2>1 DEF Row
  <2> QED
    BY <1>1, <1>2, <2>1, <2>2, <2>3 DEF v
<1>3. CASE tx[x].delta # 1 /\ v.unmet > 0
  <2>1. Moved(x, t) = [v EXCEPT !.unmet = @ - 1]
    BY <1>3 DEF Moved, v
  <2>2. [v EXCEPT !.unmet = @ - 1] \in Row /\ Untouched(v, [v EXCEPT !.unmet = @ - 1])
    BY <1>1, <1>3 DEF Row, Untouched
  <2>3. Moved(x, t).unmet = v.unmet - 1
    BY <1>1, <2>1 DEF Row
  <2> QED
    BY <1>1, <1>3, <2>1, <2>2, <2>3 DEF v
<1>4. CASE tx[x].delta # 1 /\ ~(v.unmet > 0)
  <2>1. Moved(x, t) = v
    BY <1>4 DEF Moved, v
  <2> QED
    BY <1>1, <1>4, <2>1 DEF v, Untouched
<1> QED
  BY <1>2, <1>3, <1>4

\* A row of the sweep is visited, or waited for.
LEMMA SweepInv ==
  ASSUME IInv, NEW x \in Tx, Sweep(x)
  PROVE  IInv'
<1> USE NobodyIsNone
<1>1. PICK r \in TxRec : r = tx[x] /\ r.pc = "sweep"
  BY Fields DEF Sweep, IInv
<1>2. /\ Shape(r) /\ Reads(r) /\ Locks(x, r) /\ r.op \in Judging \cup Linking
      /\ r.id \in Task /\ r.rows \subseteq Task /\ r.at \in Task \cup {Nobody}
      /\ r.delta \in {-1, 1}
  BY <1>1 DEF IInv, TxInv, Shape, TxRec
<1>3. PICK t \in Task :
         \/ /\ Free(x, t)
            /\ WriteRow(x, t, Moved(x, t))
            /\ tx' = [tx EXCEPT ![x].rows = @ \ {t}, ![x].at = Nobody,
                                ![x].pc = IF r.rows = {t} THEN "commit" ELSE @]
            /\ UNCHANGED <<row, deps>>
         \/ /\ tx' = [tx EXCEPT ![x].at = t]
            /\ UNCHANGED <<row, draft, lock, deps>>
  BY <1>1, <1>2 DEF Sweep
<1>4. CASE /\ Free(x, t)
           /\ WriteRow(x, t, Moved(x, t))
           /\ tx' = [tx EXCEPT ![x].rows = @ \ {t}, ![x].at = Nobody,
                               ![x].pc = IF r.rows = {t} THEN "commit" ELSE @]
           /\ UNCHANGED <<row, deps>>
  <2>1. PICK pc \in {"commit", "sweep"} : pc = IF r.rows = {t} THEN "commit" ELSE "sweep"
    OBVIOUS
  <2> DEFINE next == [r EXCEPT !.rows = @ \ {t}, !.at = Nobody, !.pc = pc]
  <2>2. /\ next \in TxRec /\ next.pc = pc /\ next.op = r.op /\ next.id = r.id
        /\ next.to = r.to /\ next.was = r.was /\ next.dep = r.dep /\ next.pair = r.pair
    BY DEF TxRec, Pc
  <2>3. tx' = [tx EXCEPT ![x] = next]
    BY <1>1, <1>4, <2>1
  <2>4. PICK q \in TxRec :
          /\ q = next /\ q.pc = pc /\ q.op = r.op /\ q.id = r.id
          /\ q.to = r.to /\ q.was = r.was /\ q.dep = r.dep /\ q.pair = r.pair
    BY <2>2, Zenon
  <2>5. tx' \in [Tx -> Tr] /\ tx'[x] = q /\ \A y \in Tx \ {x} : tx'[y] = tx[y]
    <3> HIDE DEF next
    <3> QED
      BY <2>3, <2>4 DEF IInv, TypeOK, Tr, TxRec
  <2>6. Shape(q) /\ Reads(q)
    BY <1>1, <1>2, <2>4 DEF Shape, Reads, Holding, Linking, Judging, Editing, Pc
  <2>7. PICK new \in Row : new = Moved(x, t) /\ Untouched(View(x, t), new)
    BY <1>1, <1>2, MovedRow DEF IInv
  <2>8. Locks(x, q)'
    <3>1. /\ lock'[t] = x /\ draft'[t] = new
          /\ \A u \in Task \ {t} : lock'[u] = lock[u] /\ draft'[u] = draft[u]
      BY <1>4, <2>7 DEF WriteRow, IInv, TypeOK
    <3>2. q.op \in Editing => lock'[q.id] = x /\ Edited(q, row[q.id], draft'[q.id])
      <4>1. r.op \in Editing => lock[r.id] = x /\ Edited(r, row[r.id], draft[r.id])
        BY <1>1, <1>2 DEF Locks, Holding
      <4>2. CASE t = r.id
        BY <2>4, <2>7, <3>1, <4>1, <4>2 DEF View, Edited, Untouched
      <4>3. CASE t # r.id
        BY <1>2, <2>4, <3>1, <4>1, <4>3 DEF Edited
      <4> QED
        BY <4>2, <4>3
    <3>3. ASSUME NEW u \in Task, lock'[u] = x, ~(q.op \in Editing /\ u = q.id)
          PROVE  Untouched(row[u], draft'[u])
      <4>1. CASE u = t
        <5>1. Untouched(row[t], View(x, t))
          BY <1>1, <1>2, <2>4, <3>3, <4>1 DEF View, Locks, Untouched
        <5> QED
          BY <2>7, <3>1, <4>1, <5>1 DEF Untouched
      <4>2. CASE u # t
        BY <1>1, <1>2, <2>4, <3>1, <3>3, <4>2 DEF Locks
      <4> QED
        BY <4>1, <4>2
    <3>4. q.pc \in Holding
      BY <2>4 DEF Holding
    <3> QED
      BY <1>4, <3>2, <3>3, <3>4 DEF Locks
  <2> QED
    BY <1>4, <2>5, <2>6, <2>7, <2>8, WriteKeeps
<1>5. CASE tx' = [tx EXCEPT ![x].at = t] /\ UNCHANGED <<row, draft, lock, deps>>
  <2> DEFINE next == [r EXCEPT !.at = t]
  <2>1. /\ next \in TxRec /\ next.pc = "sweep" /\ next.op = r.op /\ next.id = r.id
        /\ next.to = r.to /\ next.was = r.was /\ next.dep = r.dep /\ next.pair = r.pair
    BY <1>1 DEF TxRec
  <2>2. tx' = [tx EXCEPT ![x] = next]
    BY <1>1, <1>5
  <2>3. PICK q \in TxRec :
          /\ q = next /\ q.pc = "sweep" /\ q.op = r.op /\ q.id = r.id
          /\ q.to = r.to /\ q.was = r.was /\ q.dep = r.dep /\ q.pair = r.pair
    BY <2>1, Zenon
  <2>4. tx' \in [Tx -> Tr] /\ tx'[x] = q /\ \A y \in Tx \ {x} : tx'[y] = tx[y]
    <3> HIDE DEF next
    <3> QED
      BY <2>2, <2>3 DEF IInv, TypeOK, Tr, TxRec
  <2>5. Shape(q) /\ Reads(q) /\ Locks(x, q)
    BY <1>1, <1>2, <2>3 DEF Shape, Reads, Locks, Edited, Holding, Linking, Judging, Editing, Pc
  <2> QED
    BY <1>5, <2>4, <2>5, OnlyTx
<1> QED
  BY <1>3, <1>4, <1>5

\* What a commit does to the tables: the row edited gets its new version, of
\* the others at most the counter moves.
LEMMA CommitRows ==
  ASSUME IInv, NEW x \in Tx, Commit(x)
  PROVE  /\ tx[x] \in TxRec /\ tx[x].pc = "commit" /\ row' \in [Task -> Row]
         /\ tx[x].op \in Editing =>
              lock[tx[x].id] = x /\ Edited(tx[x], row[tx[x].id], row'[tx[x].id])
         /\ \A t \in Task :
              ~(tx[x].op \in Editing /\ t = tx[x].id) => Untouched(row[t], row'[t])
         /\ \A t \in Task : lock[t] # x => row'[t] = row[t]
<1>1. PICK r \in TxRec : r = tx[x] /\ r.pc = "commit"
  BY Fields DEF Commit, IInv
<1>2. Locks(x, r) /\ r.id \in Task
  BY <1>1 DEF IInv, TxInv, TxRec
<1>3. /\ row' \in [Task -> Row]
      /\ \A t \in Task : row'[t] = IF lock[t] = x THEN draft[t] ELSE row[t]
  BY DEF Commit, IInv, TypeOK
<1>4. ASSUME NEW t \in Task, ~(r.op \in Editing /\ t = r.id)
      PROVE  Untouched(row[t], row'[t])
  BY <1>2, <1>3, <1>4 DEF Locks, Untouched
<1>5. r.op \in Editing => lock[r.id] = x /\ Edited(r, row[r.id], row'[r.id])
  BY <1>1, <1>2, <1>3 DEF Locks, Holding
<1> QED
  BY <1>1, <1>3, <1>4, <1>5

\* The transaction's rows become the committed ones, and it holds nothing.
LEMMA CommitInv ==
  ASSUME IInv, NEW x \in Tx, Commit(x)
  PROVE  IInv'
<1> USE NobodyIsNone
<1>1. PICK r \in TxRec : r = tx[x] /\ r.pc = "commit"
  BY Fields DEF Commit, IInv
<1>2. /\ Shape(r) /\ r.id \in Task /\ r.dep \in Task
  BY <1>1 DEF IInv, TxInv, TxRec
<1>3. deps' \subseteq Task \X Task
  <2>1. deps \subseteq Task \X Task /\ <<r.id, r.dep>> \in Task \X Task
    BY <1>2 DEF IInv, TypeOK
  <2>2. CASE r.op = "link"
    <3>1. r.pair = <<r.id, r.dep>>
      BY <1>1, <1>2, <2>2 DEF Shape, Holding, Linking
    <3>2. deps' = deps \cup {<<r.id, r.dep>>}
      BY <1>1, <2>2, <3>1 DEF Commit
    <3> QED
      BY <2>1, <3>2
  <2>3. CASE r.op # "link"
    <3>1. deps' \subseteq deps
      BY <1>1, <2>3 DEF Commit
    <3> QED
      BY <2>1, <3>1
  <2> QED
    BY <2>2, <2>3
<1>4. TypeOK'
  <2>1. /\ draft' = draft /\ tx' \in [Tx -> Tr]
        /\ lock' \in [Task -> Tx \cup {Nobody}]
        /\ \A t \in Task : lock'[t] = Nobody => draft'[t] = row'[t]
    BY DEF Commit, IInv, TypeOK, Tr, NoTx
  <2> QED
    BY <1>3, <2>1, CommitRows DEF IInv, TypeOK
<1>5. RowsGrow
  <2> SUFFICES ASSUME NEW t \in Task
               PROVE  /\ row[t].version <= row'[t].version
                      /\ row'[t].version = row[t].version => row'[t].status = row[t].status
    BY DEF RowsGrow
  <2>1. row[t].version \in Nat
    BY DEF IInv, TypeOK, Row
  <2>2. \/ Untouched(row[t], row'[t])
        \/ row'[t].version = row[t].version + 1
    BY CommitRows DEF Edited
  <2> QED
    BY <2>1, <2>2 DEF Untouched
<1>6. ASSUME NEW y \in Tx
      PROVE  (Shape(tx[y]) /\ Reads(tx[y]) /\ Locks(y, tx[y]))'
  <2>1. CASE y = x
    <3>1. tx'[y] = NoTx /\ \A t \in Task : lock'[t] # y
      BY <2>1 DEF Commit, IInv, TypeOK
    <3> QED
      BY <3>1 DEF Shape, Reads, Locks, NoTx, Holding, Pc
  <2>2. CASE y # x
    <3>1. /\ tx'[y] = tx[y]
          /\ \A t \in Task : lock'[t] = y <=> lock[t] = y
          /\ \A t \in Task : lock[t] = y => row'[t] = row[t] /\ draft'[t] = draft[t]
      BY <2>2 DEF Commit, IInv, TypeOK
    <3> QED
      BY <1>4, <1>5, <2>2, <3>1, OtherKeeps DEF IInv, TxInv
  <2> QED
    BY <2>1, <2>2
<1> QED
  BY <1>4, <1>6 DEF IInv, TxInv

\* No step breaks the invariant.
LEMMA NextInv ==
  ASSUME IInv, [Next]_vars
  PROVE  IInv'
<1>1. CASE UNCHANGED vars
  <2>1. TypeOK'
    BY <1>1 DEF vars, IInv, TypeOK
  <2>2. TxInv'
    BY <1>1 DEF vars, IInv, TxInv, Shape, Reads, Locks
  <2> QED
    BY <2>1, <2>2 DEF IInv
<1>2. ASSUME NEW x \in Tx, Begin(x) \/ Step(x) \/ Cancel(x) \/ BreakDeadlock(x)
      PROVE  IInv'
  <2>1. CASE Begin(x)
    BY <2>1, BeginKeeps
  <2>2. CASE Step(x)
    BY <2>2, SelectKeeps, WriteInv, CheckInv, WriteEdgeInv, AdjustInv, SweepInv, CommitInv
       DEF Step
  <2>3. CASE Cancel(x) \/ BreakDeadlock(x)
    BY <2>3, UndoKeeps DEF Cancel, BreakDeadlock
  <2> QED
    BY <1>2, <2>1, <2>2, <2>3
<1> QED
  BY <1>1, <1>2 DEF Next

------------------------------------------------------------------------------
(* What follows.                                                           *)

\* The invariant holds in every reachable state.
THEOREM Invariant == Spec => []IInv
  BY InitInv, NextInv, PTL DEF Spec

\* Every column keeps its type through all interleavings of statements: no
\* counter goes below zero, and a free row has no draft of its own.
THEOREM RowsTyped == Spec => []TypeOK
<1>1. IInv => TypeOK
  BY DEF IInv
<1> QED
  BY <1>1, Invariant, PTL

\* The status a transaction judged, and writes as `from` into the history, is
\* the committed one when it commits (UpdateTodo, Complete).
THEOREM JudgedStillHolds == Spec => JudgedByCommitted
<1>1. ASSUME IInv, NEW x \in Tx, Commit(x), tx[x].op \in {"update", "complete"}
      PROVE  row[tx[x].id].status = tx[x].was
  BY <1>1 DEF Commit, IInv, TxInv, Reads, Holding, Judging
<1>2. IInv => [\A x \in Tx : Commit(x) /\ tx[x].op \in {"update", "complete"} =>
                 row[tx[x].id].status = tx[x].was]_vars
  BY <1>1
<1> QED
  BY <1>2, Invariant, PTL DEF JudgedByCommitted

------------------------------------------------------------------------------
(* Whole edits, one at a time.                                             *)

\* What VersionedRows sees of the rows.
StatusOf == [t \in Task |-> row[t].status]
VersionOf == [t \in Task |-> row[t].version]
TrashOf == {t \in Task : row[t].trash}

\* The rules are the same ones on both sides.
LEMMA SameRules ==
  /\ Rows!Status = Status /\ Rows!Completed = Completed
  /\ \A from, to, n : Rows!CanTransition(from, to, n) = CanTransition(from, to, n)
  BY DEF Rows!Status, Status, Rows!CanTransition, CanTransition,
         Rows!NotStarted, NotStarted, Rows!InProgress, InProgress,
         Rows!Completed, Completed, Rows!Archived, Archived

\* The rows at the start.
LEMMA InitImplements == Init => Rows!Init
<1> SUFFICES ASSUME Init PROVE Rows!Init
  OBVIOUS
<1>1. PICK s \in [Task -> Asked] :
        row = [t \in Task |->
                 [status |-> s[t], version |-> 1, trash |-> FALSE,
                  unmet |-> Cardinality({d \in Task : /\ <<t, d>> \in FirstDeps
                                                      /\ s[d] # Completed})]]
  BY DEF Init
<1>2. \A t \in Task : row[t].status \in Status /\ row[t].version = 1 /\ ~row[t].trash
  BY <1>1, AskedIsStatus
<1>3. /\ StatusOf \in [Task -> Status]
      /\ VersionOf = [t \in Task |-> 1]
      /\ TrashOf = {}
  BY <1>2 DEF StatusOf, VersionOf, TrashOf
<1> QED
  BY <1>3, SameRules DEF Rows!Init, StatusOf, VersionOf, TrashOf

\* A step that leaves the committed rows as they are to VersionedRows.
LEMMA SameRows ==
  ASSUME \A t \in Task : Untouched(row[t], row'[t])
  PROVE  UNCHANGED <<StatusOf, VersionOf, TrashOf>>
  BY DEF Untouched, StatusOf, VersionOf, TrashOf

\* A commit is one edit of one row as it is, or none.
LEMMA CommitImplements ==
  ASSUME IInv, NEW x \in Tx, Commit(x)
  PROVE  [Rows!Next]_Rows!vars
<1>1. PICK r \in TxRec : r = tx[x] /\ r.pc = "commit"
  BY Fields DEF Commit, IInv
<1>2. Shape(r) /\ Reads(r) /\ r.id \in Task /\ r.op \in Op /\ r.to \in Status
  BY <1>1 DEF IInv, TxInv, TxRec
<1>3. /\ r.op \in Editing => Edited(r, row[r.id], row'[r.id])
      /\ \A t \in Task : ~(r.op \in Editing /\ t = r.id) => Untouched(row[t], row'[t])
  BY <1>1, CommitRows
<1>4. CASE r.op \notin Editing
  <2>1. UNCHANGED <<StatusOf, VersionOf, TrashOf>>
    BY <1>3, <1>4, SameRows
  <2> QED
    BY <2>1 DEF Rows!vars, StatusOf, VersionOf, TrashOf
<1>5. CASE r.op \in Editing
  <2>1. /\ Edited(r, row[r.id], row'[r.id])
        /\ \A t \in Task \ {r.id} : Untouched(row[t], row'[t])
    BY <1>3, <1>5
  <2>2. VersionOf' = [VersionOf EXCEPT ![r.id] = @ + 1]
    BY <1>2, <2>1 DEF VersionOf, Edited, Untouched
  <2>3. CASE r.op = "delete"
    <3>1. r.id \notin TrashOf /\ TrashOf' = TrashOf \cup {r.id}
      BY <1>2, <2>1, <2>3 DEF TrashOf, Edited, Untouched
    <3>2. StatusOf' = StatusOf
      BY <1>2, <2>1, <2>3 DEF StatusOf, Edited, Untouched
    <3>3. Rows!Delete(r.id)
      BY <2>2, <3>1, <3>2 DEF Rows!Delete, Rows!Counted, StatusOf, VersionOf, TrashOf
    <3> QED
      BY <1>2, <3>3 DEF Rows!Next
  <2>4. CASE r.op = "restore"
    <3>1. r.id \in TrashOf /\ TrashOf' = TrashOf \ {r.id}
      BY <1>2, <2>1, <2>4 DEF TrashOf, Edited, Untouched
    <3>2. StatusOf' = StatusOf
      BY <1>2, <2>1, <2>4 DEF StatusOf, Edited, Untouched
    <3>3. Rows!Restore(r.id)
      BY <2>2, <3>1, <3>2 DEF Rows!Restore, Rows!Counted, StatusOf, VersionOf, TrashOf
    <3> QED
      BY <1>2, <3>3 DEF Rows!Next
  <2>5. CASE r.op \in Judging
    <3>1. CanTransition(StatusOf[r.id], r.to, 0) = "ok"
      BY <1>1, <1>2, <2>5 DEF Shape, Reads, Holding, StatusOf
    <3>2. StatusOf' = [StatusOf EXCEPT ![r.id] = r.to]
      BY <1>2, <2>1, <2>5 DEF StatusOf, Edited, Untouched
    <3>3. TrashOf' = TrashOf
      BY <1>2, <2>1, <2>5 DEF TrashOf, Edited, Untouched
    <3>4. CASE r.op = "update"
      <4>1. r.id \notin TrashOf
        BY <2>1, <3>4 DEF TrashOf, Edited
      <4>2. Rows!Edit(r.id, r.to)
        BY <2>2, <3>1, <3>2, <3>3, <4>1, SameRules
           DEF Rows!Edit, Rows!Counted, StatusOf, VersionOf, TrashOf
      <4> QED
        BY <1>2, <4>2, SameRules DEF Rows!Next
    <3>5. CASE r.op = "complete"
      <4>1. r.to = Completed
        BY <1>1, <1>2, <3>5 DEF Shape, Pc
      <4>2. Rows!Finish(r.id)
        BY <2>2, <3>1, <3>2, <3>3, <4>1, SameRules
           DEF Rows!Finish, Rows!Counted, StatusOf, VersionOf, TrashOf
      <4> QED
        BY <1>2, <4>2, SameRules DEF Rows!Next
    <3> QED
      BY <2>5, <3>4, <3>5 DEF Judging
  <2> QED
    BY <1>5, <2>3, <2>4, <2>5 DEF Editing, Judging
<1> QED
  BY <1>4, <1>5

\* Every other step is none of VersionedRows' business.
LEMMA NextImplements ==
  ASSUME IInv, [Next]_vars
  PROVE  [Rows!Next]_Rows!vars
<1>1. CASE UNCHANGED row
  BY <1>1 DEF Rows!vars
<1>2. ASSUME NEW x \in Tx, Begin(x) \/ Step(x) \/ Cancel(x) \/ BreakDeadlock(x),
             ~Commit(x)
      PROVE  UNCHANGED row
  BY <1>2 DEF Begin, BeginUpdate, BeginComplete, BeginDelete, BeginRestore, BeginLink,
              BeginUnlink, Start, Step, Select, Write, Check, WriteEdge, Adjust, Sweep,
              Cancel, BreakDeadlock, Undo
<1> QED
  BY <1>1, <1>2, CommitImplements DEF Next, vars

\* Whatever the interleaving of statements, waits and rollbacks, the rows
\* change by whole edits of the current version and nothing else: the locks
\* and version guards of the store implement VersionedRows.
THEOREM Implements == Spec => OneEditAtATime
  BY InitImplements, NextImplements, Invariant, PTL DEF Spec, OneEditAtATime, Rows!Spec
------------------------------------------------------------------------------
(* The counters: of a graph that does not change, no interleaving of edits *)
(* makes one drift.                                                        *)

\* The request r makes its task one that others no longer wait for, or wait
\* for again.
Finishes(r) == r.op \in Judging /\ r.was # Completed /\ r.to = Completed
Reopens(r) == r.op \in Judging /\ r.was = Completed /\ r.to # Completed

\* The counters r owes, and by how much each of them moves.
Moves(r) == IF Finishes(r) \/ Reopens(r) THEN Dependents(r.id) ELSE {}
By(r) == IF Reopens(r) THEN 1 ELSE -1

\* Those it has already moved.
Swept(r) == IF r.pc \in {"sweep", "commit"} THEN Moves(r) \ r.rows ELSE {}

\* A transaction holds the row it edits and those it has swept, whose counters
\* are one off the committed ones; the rest it is still to visit.
Sweeping(x, r) ==
  /\ r.pc \in Pc => r.op \notin Linking
  /\ (r.pc \in Pc /\ r.pc # "sweep") => r.at = Nobody
  /\ r.pc \in {"select", "write", "commit"} => r.rows = {}
  /\ r.pc \in {"sweep", "commit"} =>
       /\ r.rows \subseteq Moves(r)
       /\ Moves(r) # {} => r.delta = By(r)
       /\ r.at # Nobody => r.at \in r.rows
  /\ r.pc \in Holding =>
       \A t \in Task :
         /\ lock[t] = x <=> t \in {r.id} \cup Swept(r)
         /\ t \in Swept(r) => draft[t].unmet = row[t].unmet + By(r)
         /\ (t = r.id /\ t \notin Swept(r)) => draft[t].unmet = row[t].unmet

CounterInv ==
  /\ deps = FirstDeps
  /\ CounterExact
  /\ \A x \in Tx : Sweeping(x, tx[x])

------------------------------------------------------------------------------
(* Who waits for whom.                                                     *)

\* What one task waits for is finite, and so counted by a natural number.
LEMMA UnfinishedFinite ==
  ASSUME deps = FirstDeps, NEW t \in Task
  PROVE  IsFiniteSet(Unfinished(t)) /\ Cardinality(Unfinished(t)) \in Nat
  BY FirstDepsAreATable, WaitsFinite DEF Unfinished

\* A counter that others wait for is above zero while their task is not done.
LEMMA WaitingIsCounted ==
  ASSUME TypeOK, deps = FirstDeps, CounterExact, NEW d \in Task, NEW t \in Dependents(d),
         row[d].status # Completed
  PROVE  row[t].unmet > 0
<1>1. t \in Task /\ d \in Unfinished(t)
  BY DEF Dependents, Unfinished
<1>2. IsFiniteSet(Unfinished(t)) /\ Cardinality(Unfinished(t)) \in Nat
  BY <1>1, UnfinishedFinite
<1>3. Cardinality(Unfinished(t)) # 0
  BY <1>1, <1>2, FS_EmptySet
<1>4. row[t].unmet = Cardinality(Unfinished(t))
  BY <1>1 DEF CounterExact
<1> QED
  BY <1>2, <1>3, <1>4

\* No task waits for itself, so the row edited is none of those swept.
LEMMA NotItsOwn ==
  ASSUME deps = FirstDeps, NEW t
  PROVE  t \notin Dependents(t)
  BY FirstDepsAreATable DEF Dependents

------------------------------------------------------------------------------
(* What a step leaves of the others.                                       *)

\* A transaction whose record, locks, rows and drafts a step leaves alone.
LEMMA OtherSweeps ==
  ASSUME NEW y \in Tx, Sweeping(y, tx[y]), tx'[y] = tx[y], deps' = deps,
         \A t \in Task : lock'[t] = y <=> lock[t] = y,
         \A t \in Task : lock[t] = y => row'[t] = row[t] /\ draft'[t] = draft[t]
  PROVE  Sweeping(y, tx[y])'
<1>1. PICK r : r = tx[y]
  OBVIOUS
<1>2. Moves(r)' = Moves(r) /\ By(r)' = By(r) /\ Swept(r)' = Swept(r)
  BY DEF Moves, Dependents, By, Swept, Finishes, Reopens
<1>3. Sweeping(y, r)
  BY <1>1
<1>4. Sweeping(y, r)'
  BY <1>2, <1>3 DEF Sweeping
<1> QED
  BY <1>1, <1>4 DEF Sweeping, Moves, By, Swept, Finishes, Reopens

\* The counters stand as they did when neither rows nor graph change.
LEMMA SameCounts ==
  ASSUME CounterExact, UNCHANGED <<row, deps>>
  PROVE  CounterExact'
  BY DEF CounterExact, Unfinished

\* A step that leaves the tables and locks alone.
LEMMA QuietStep ==
  ASSUME CounterInv, NEW x \in Tx, NEW q,
         tx'[x] = q, \A y \in Tx \ {x} : tx'[y] = tx[y],
         UNCHANGED <<row, draft, lock, deps>>, Sweeping(x, q)
  PROVE  CounterInv'
<1>1. deps' = FirstDeps /\ CounterExact'
  BY SameCounts DEF CounterInv
<1>2. ASSUME NEW y \in Tx
      PROVE  Sweeping(y, tx[y])'
  <2>1. CASE y = x
    <3>1. Sweeping(x, q)'
      BY DEF Sweeping, Moves, By, Swept, Finishes, Reopens, Dependents
    <3> QED
      BY <2>1, <3>1 DEF Sweeping, Moves, By, Swept, Finishes, Reopens
  <2>2. CASE y # x
    BY <2>2, OtherSweeps DEF CounterInv
  <2> QED
    BY <2>1, <2>2
<1> QED
  BY <1>1, <1>2 DEF CounterInv

\* A row written under its lock.
LEMMA WriteCounts ==
  ASSUME IInv, CounterInv, NEW x \in Tx, NEW q, NEW t \in Task, NEW new,
         tx'[x] = q, \A y \in Tx \ {x} : tx'[y] = tx[y],
         Free(x, t), WriteRow(x, t, new), UNCHANGED <<row, deps>>, Sweeping(x, q)'
  PROVE  CounterInv'
<1> USE NobodyIsNone
<1>1. deps' = FirstDeps /\ CounterExact'
  BY SameCounts DEF CounterInv
<1>2. ASSUME NEW y \in Tx
      PROVE  Sweeping(y, tx[y])'
  <2>1. CASE y = x
    BY <2>1 DEF Sweeping, Moves, By, Swept, Finishes, Reopens
  <2>2. CASE y # x
    <3>1. /\ \A u \in Task : lock'[u] = y <=> lock[u] = y
          /\ \A u \in Task : lock[u] = y => row'[u] = row[u] /\ draft'[u] = draft[u]
      BY <2>2 DEF WriteRow, Free, IInv, TypeOK
    <3> QED
      BY <2>2, <3>1, OtherSweeps DEF CounterInv
  <2> QED
    BY <2>1, <2>2
<1> QED
  BY <1>1, <1>2 DEF CounterInv

\* Nothing is known of a connection that does nothing.
LEMMA IdleSweeps ==
  ASSUME NEW x \in Tx
  PROVE  Sweeping(x, NoTx) /\ Sweeping(x, NoTx)'
  BY DEF Sweeping, NoTx, Pc, Holding

\* A transaction that ends without effect.
LEMMA UndoCounts ==
  ASSUME IInv, CounterInv, NEW x \in Tx, Undo(x)
  PROVE  CounterInv'
<1> USE NobodyIsNone
<1>1. deps' = FirstDeps /\ CounterExact'
  BY SameCounts DEF CounterInv, Undo
<1>2. ASSUME NEW y \in Tx
      PROVE  Sweeping(y, tx[y])'
  <2>1. CASE y = x
    <3>1. tx'[y] = NoTx
      BY <2>1 DEF Undo, IInv, TypeOK
    <3> QED
      BY <2>1, <3>1, IdleSweeps DEF Sweeping, Moves, By, Swept, Finishes, Reopens
  <2>2. CASE y # x
    <3>1. /\ tx'[y] = tx[y] /\ deps' = deps
          /\ \A t \in Task : lock'[t] = y <=> lock[t] = y
          /\ \A t \in Task : lock[t] = y => row'[t] = row[t] /\ draft'[t] = draft[t]
      BY <2>2 DEF Undo, IInv, TypeOK
    <3> QED
      BY <3>1, OtherSweeps DEF CounterInv
  <2> QED
    BY <2>1, <2>2
<1> QED
  BY <1>1, <1>2 DEF CounterInv

------------------------------------------------------------------------------
(* One lemma for each action that moves no counter.                        *)

\* A request begins.
LEMMA StartCounts ==
  ASSUME IInv, CounterInv, NEW x \in Tx, NEW op \in Op \ Linking, NEW t \in Task,
         NEW v \in Nat, NEW to \in Status, NEW d \in Task, Start(x, op, t, v, to, d)
  PROVE  CounterInv'
<1> DEFINE pc == CASE op \in {"update", "complete"} -> "select"
                   [] op = "link" -> "check"
                   [] op = "unlink" -> "edge"
                   [] OTHER -> "write"
           q == [pc |-> pc, op |-> op, id |-> t, ver |-> v, to |-> to, dep |-> d,
                 was |-> NotStarted, rows |-> {}, delta |-> 1, at |-> Nobody,
                 pair |-> NoPair]
<1>1. pc \in {"select", "write"}
  BY DEF Op, Linking
<1>2. q.pc = pc /\ q.op = op /\ q.at = Nobody /\ q.rows = {}
  OBVIOUS
<1>3. tx' = [tx EXCEPT ![x] = q] /\ UNCHANGED <<row, draft, lock, deps>>
  BY DEF Start
<1> HIDE DEF q
<1>4. tx'[x] = q /\ \A y \in Tx \ {x} : tx'[y] = tx[y]
  BY <1>3 DEF IInv, TypeOK
<1>5. Sweeping(x, q)
  BY <1>1, <1>2 DEF Sweeping, Holding
<1> QED
  BY <1>3, <1>4, <1>5, QuietStep

\* Each operation begins that way, and none is a link or an unlink.
LEMMA BeginCounts ==
  ASSUME Linkable = {}, IInv, CounterInv, NEW x \in Tx, Begin(x)
  PROVE  CounterInv'
<1>0. /\ Completed \in Status /\ NotStarted \in Status /\ 0 \in Nat
      /\ \A t \in Task : \A v \in Readable(t) : v \in Nat
  BY DEF Status, IInv, TypeOK, Row, Readable
<1>1. {"update", "complete", "delete", "restore"} \subseteq Op \ Linking
  BY DEF Op, Linking
<1>2. ASSUME NEW t \in Task, NEW v \in Readable(t), NEW to \in Asked, BeginUpdate(x, t, v, to)
      PROVE  CounterInv'
  BY <1>0, <1>1, <1>2, StartCounts, AskedIsStatus DEF BeginUpdate
<1>3. ASSUME NEW t \in Task, NEW v \in Readable(t),
             BeginComplete(x, t, v) \/ BeginDelete(x, t, v)
      PROVE  CounterInv'
  BY <1>0, <1>1, <1>3, StartCounts DEF BeginComplete, BeginDelete
<1>4. ASSUME NEW t \in Task, BeginRestore(x, t)
      PROVE  CounterInv'
  BY <1>0, <1>1, <1>4, StartCounts DEF BeginRestore
<1> QED
  BY <1>2, <1>3, <1>4 DEF Begin

\* The reading.
LEMMA SelectCounts ==
  ASSUME IInv, CounterInv, NEW x \in Tx, Select(x)
  PROVE  CounterInv'
<1>1. PICK r \in TxRec : r = tx[x] /\ r.pc = "select"
  BY Fields DEF Select, IInv
<1>2. r.op \notin Linking /\ r.at = Nobody /\ r.rows = {}
  BY <1>1 DEF CounterInv, Sweeping, Pc
<1>3. CASE Undo(x)
  BY <1>3, UndoCounts
<1>4. CASE /\ tx' = [tx EXCEPT ![x].pc = "write", ![x].was = View(x, r.id).status]
           /\ UNCHANGED <<row, draft, lock, deps>>
  <2> DEFINE next == [r EXCEPT !.pc = "write", !.was = View(x, r.id).status]
  <2>1. next.pc = "write" /\ next.op = r.op /\ next.at = r.at /\ next.rows = r.rows
    BY DEF TxRec
  <2>2. tx' = [tx EXCEPT ![x] = next]
    BY <1>1, <1>4
  <2> HIDE DEF next
  <2>3. tx'[x] = next /\ \A y \in Tx \ {x} : tx'[y] = tx[y]
    BY <2>2 DEF IInv, TypeOK
  <2>4. Sweeping(x, next)
    BY <1>2, <2>1 DEF Sweeping, Holding
  <2> QED
    BY <1>4, <2>3, <2>4, QuietStep
<1> QED
  BY <1>1, <1>3, <1>4 DEF Select

\* The request's own row is written, its counter with the value it had.
LEMMA OwnRowCounts ==
  ASSUME IInv, CounterInv, NEW x \in Tx, Write(x)
  PROVE  CounterInv'
<1>1. PICK r \in TxRec : r = tx[x] /\ r.pc = "write"
  BY Fields DEF Write, IInv
<1>2. /\ r.op \in Editing /\ r.op \notin Linking /\ r.at = Nobody /\ r.id \in Task
      /\ r.op = "complete" => r.to = Completed
      /\ \A t \in Task : lock[t] # x
  BY <1>1 DEF IInv, TxInv, Shape, Locks, Holding, CounterInv, Sweeping, Pc, TxRec
<1>3. CASE Undo(x)
  BY <1>3, UndoCounts
<1>4. CASE /\ Matched(r) /\ Free(x, r.id)
           /\ WriteRow(x, r.id, Written(r))
           /\ Goto(x, IF r.op \in {"update", "complete"} THEN "adjust" ELSE "commit")
           /\ UNCHANGED <<row, deps>>
  <2>1. PICK pc \in {"adjust", "commit"} :
          pc = IF r.op \in {"update", "complete"} THEN "adjust" ELSE "commit"
    OBVIOUS
  <2>2. PICK q \in TxRec :
          /\ tx'[x] = q /\ \A y \in Tx \ {x} : tx'[y] = tx[y]
          /\ q.pc = pc /\ q.op = r.op /\ q.id = r.id /\ q.rows = r.rows /\ q.at = r.at
    BY <1>1, <1>4, <2>1, GotoRec DEF IInv, Pc
  <2>3. PICK new : new = Written(r) /\ new.unmet = row[r.id].unmet
    BY <1>2, <1>4, WrittenRow DEF IInv
  <2>4. Sweeping(x, q)'
    <3>1. r.rows = {}
      BY <1>1, <1>2 DEF CounterInv, Sweeping
    <3>2. /\ lock'[r.id] = x /\ draft'[r.id] = new
          /\ \A t \in Task \ {r.id} : lock'[t] = lock[t]
      BY <1>2, <1>4, <2>3 DEF WriteRow, IInv, TypeOK
    <3>3. Swept(q)' = {} /\ (pc = "commit" => Moves(q)' = {})
      BY <2>1, <2>2 DEF Swept, Moves, Finishes, Reopens, Judging
    <3> QED
      BY <1>2, <1>4, <2>1, <2>2, <2>3, <3>1, <3>2, <3>3 DEF Sweeping
  <2> QED
    BY <1>2, <1>4, <2>2, <2>3, <2>4, WriteCounts
<1> QED
  BY <1>1, <1>3, <1>4 DEF Write

------------------------------------------------------------------------------
(* One lemma for each action that does.                                    *)

\* The statement finds every counter the request owes: those it takes down are
\* above zero, as their tasks wait for this one.
LEMMA AdjustCounts ==
  ASSUME IInv, CounterInv, NEW x \in Tx, Adjust(x)
  PROVE  CounterInv'
<1> USE NobodyIsNone
<1>1. PICK r \in TxRec : r = tx[x] /\ r.pc = "adjust"
  BY Fields DEF Adjust, IInv
<1>2. /\ Sweeping(x, r) /\ r.op \in Judging /\ r.op \notin Linking
      /\ r.at = Nobody /\ r.was = row[r.id].status /\ r.id \in Task
  BY <1>1 DEF IInv, TxInv, Shape, Reads, Holding, CounterInv, Sweeping, Pc, TxRec
<1>3. \A t \in Task : lock[t] = x <=> t = r.id
  BY <1>1, <1>2 DEF Sweeping, Swept, Holding
<1>4. Finishes(r) => Counted(x, Dependents(r.id)) = Dependents(r.id)
  <2> SUFFICES ASSUME Finishes(r), NEW t \in Dependents(r.id)
               PROVE  View(x, t).unmet > 0
    BY DEF Counted
  <2>1. t \in Task /\ t # r.id /\ deps = FirstDeps
    BY NotItsOwn DEF Dependents, CounterInv
  <2>2. View(x, t) = row[t]
    BY <1>3, <2>1 DEF View
  <2>3. row[t].unmet > 0
    BY <1>2, <2>1, WaitingIsCounted DEF Finishes, CounterInv, IInv
  <2> QED
    BY <2>2, <2>3
<1>5. /\ tx' = [tx EXCEPT ![x].pc = IF Moves(r) = {} THEN "commit" ELSE "sweep",
                          ![x].rows = Moves(r), ![x].delta = By(r)]
      /\ UNCHANGED <<row, draft, lock, deps>>
  <2>1. CASE Finishes(r)
    BY <1>1, <1>2, <1>4, <2>1 DEF Adjust, Finishes, Reopens, Moves, By, Judging
  <2>2. CASE Reopens(r)
    BY <1>1, <1>2, <2>2 DEF Adjust, Finishes, Reopens, Moves, By, Judging
  <2>3. CASE ~Finishes(r) /\ ~Reopens(r)
    BY <1>1, <1>2, <2>3 DEF Adjust, Finishes, Reopens, Moves, By, Judging
  <2> QED
    BY <2>1, <2>2, <2>3
<1>6. PICK pc \in {"commit", "sweep"} : pc = IF Moves(r) = {} THEN "commit" ELSE "sweep"
  OBVIOUS
<1> DEFINE next == [r EXCEPT !.pc = pc, !.rows = Moves(r), !.delta = By(r)]
<1>7. /\ next.pc = pc /\ next.op = r.op /\ next.id = r.id /\ next.to = r.to
      /\ next.was = r.was /\ next.rows = Moves(r) /\ next.delta = By(r)
      /\ next.at = r.at
  BY DEF TxRec
<1>8. tx' = [tx EXCEPT ![x] = next]
  BY <1>1, <1>5, <1>6
<1> HIDE DEF next
<1>9. tx'[x] = next /\ \A y \in Tx \ {x} : tx'[y] = tx[y]
  BY <1>8 DEF IInv, TypeOK
<1>10. Sweeping(x, next)
  <2>1. Moves(next) = Moves(r) /\ By(next) = By(r) /\ Swept(next) = {} /\ Swept(r) = {}
    BY <1>1, <1>7 DEF Moves, By, Finishes, Reopens, Swept
  <2>2. pc = "commit" => Moves(r) = {}
    BY <1>6
  <2> QED
    BY <1>1, <1>2, <1>7, <2>1, <2>2 DEF Sweeping, Holding
<1> QED
  BY <1>5, <1>9, <1>10, QuietStep

\* A visit moves one counter it owes, for the first time, from the committed
\* value; a wait moves none.
LEMMA SweepCounts ==
  ASSUME IInv, CounterInv, NEW x \in Tx, Sweep(x)
  PROVE  CounterInv'
<1> USE NobodyIsNone
<1>1. PICK r \in TxRec : r = tx[x] /\ r.pc = "sweep"
  BY Fields DEF Sweep, IInv
<1>2. /\ Sweeping(x, r) /\ r.op \in Judging /\ r.op \notin Linking
      /\ r.was = row[r.id].status /\ r.id \in Task /\ r.rows \subseteq Task
      /\ r.rows \subseteq Moves(r) /\ (Moves(r) # {} => r.delta = By(r))
      /\ r.at # Nobody => r.at \in r.rows
  BY <1>1 DEF IInv, TxInv, Shape, Reads, Holding, CounterInv, Sweeping, Pc, TxRec
<1>3. PICK t \in r.rows :
         \/ /\ Free(x, t)
            /\ WriteRow(x, t, Moved(x, t))
            /\ tx' = [tx EXCEPT ![x].rows = @ \ {t}, ![x].at = Nobody,
                                ![x].pc = IF r.rows = {t} THEN "commit" ELSE @]
            /\ UNCHANGED <<row, deps>>
         \/ /\ tx' = [tx EXCEPT ![x].at = t]
            /\ UNCHANGED <<row, draft, lock, deps>>
  BY <1>1, <1>2 DEF Sweep
<1>4. CASE /\ Free(x, t)
           /\ WriteRow(x, t, Moved(x, t))
           /\ tx' = [tx EXCEPT ![x].rows = @ \ {t}, ![x].at = Nobody,
                               ![x].pc = IF r.rows = {t} THEN "commit" ELSE @]
           /\ UNCHANGED <<row, deps>>
  <2>1. PICK pc \in {"commit", "sweep"} : pc = IF r.rows = {t} THEN "commit" ELSE "sweep"
    OBVIOUS
  <2> DEFINE next == [r EXCEPT !.rows = @ \ {t}, !.at = Nobody, !.pc = pc]
  <2>2. /\ next.pc = pc /\ next.op = r.op /\ next.id = r.id /\ next.to = r.to
        /\ next.was = r.was /\ next.rows = r.rows \ {t} /\ next.delta = r.delta
        /\ next.at = Nobody
    BY DEF TxRec
  <2>3. tx' = [tx EXCEPT ![x] = next]
    BY <1>1, <1>4, <2>1
  <2> HIDE DEF next
  <2>4. tx'[x] = next /\ \A y \in Tx \ {x} : tx'[y] = tx[y]
    BY <2>3 DEF IInv, TypeOK
  <2>5. /\ t \in Task /\ t \in Dependents(r.id) /\ t # r.id /\ t \in Moves(r)
        /\ deps = FirstDeps /\ r.delta = By(r) /\ Moves(r) \subseteq Task
    BY <1>2, NotItsOwn DEF Moves, CounterInv, Dependents
  <2>6. lock[t] # x
    BY <1>1, <1>2, <2>5 DEF Sweeping, Swept, Holding
  <2>7. PICK new : new = Moved(x, t) /\ new.unmet = row[t].unmet + By(r)
    <3>1. View(x, t) = row[t] /\ r.delta \in {-1, 1} /\ row[t].unmet \in Nat
      BY <2>5, <2>6 DEF View, TxRec, IInv, TypeOK, Row
    <3>2. CASE By(r) = 1
      BY <1>1, <2>5, <3>1, <3>2, MovedRow DEF IInv
    <3>3. CASE By(r) = -1
      <4>1. Finishes(r)
        BY <2>5, <3>3 DEF By, Moves
      <4>2. row[t].unmet > 0
        BY <1>2, <2>5, <4>1, WaitingIsCounted DEF Finishes, CounterInv, IInv
      <4> QED
        BY <1>1, <2>5, <3>1, <3>3, <4>2, MovedRow DEF IInv
    <3> QED
      BY <3>2, <3>3 DEF By
  <2>8. Sweeping(x, next)'
    <3>1. /\ lock'[t] = x /\ draft'[t] = new /\ row' = row
          /\ \A u \in Task \ {t} : lock'[u] = lock[u] /\ draft'[u] = draft[u]
      BY <1>4, <2>5, <2>7 DEF WriteRow, IInv, TypeOK
    <3>2. Moves(next)' = Moves(r) /\ By(next)' = By(r)
      BY <1>4, <2>2 DEF Moves, By, Finishes, Reopens, Dependents
    <3>3. Swept(next)' = Swept(r) \cup {t}
      BY <1>1, <2>2, <2>5, <3>2 DEF Swept
    <3>4. pc = "commit" => r.rows \ {t} = {}
      BY <2>1
    <3>5. ASSUME NEW u \in Task
          PROVE  /\ lock'[u] = x <=> u \in {r.id} \cup Swept(r) \cup {t}
                 /\ u \in Swept(r) \cup {t} => draft'[u].unmet = row'[u].unmet + By(r)
                 /\ (u = r.id /\ u \notin Swept(r) \cup {t}) => draft'[u].unmet = row'[u].unmet
      <4>1. CASE u = t
        BY <2>5, <2>7, <3>1, <4>1
      <4>2. CASE u # t
        BY <1>1, <1>2, <3>1, <4>2 DEF Sweeping, Holding
      <4> QED
        BY <4>1, <4>2
    <3> QED
      BY <1>2, <2>2, <2>5, <3>2, <3>3, <3>4, <3>5 DEF Sweeping
  <2> QED
    BY <1>4, <2>4, <2>5, <2>7, <2>8, WriteCounts
<1>5. CASE tx' = [tx EXCEPT ![x].at = t] /\ UNCHANGED <<row, draft, lock, deps>>
  <2> DEFINE next == [r EXCEPT !.at = t]
  <2>1. /\ next.pc = r.pc /\ next.op = r.op /\ next.id = r.id /\ next.to = r.to
        /\ next.was = r.was /\ next.rows = r.rows /\ next.delta = r.delta /\ next.at = t
    BY DEF TxRec
  <2>2. tx' = [tx EXCEPT ![x] = next]
    BY <1>1, <1>5
  <2> HIDE DEF next
  <2>3. tx'[x] = next /\ \A y \in Tx \ {x} : tx'[y] = tx[y]
    BY <2>2 DEF IInv, TypeOK
  <2>4. Sweeping(x, next)
    BY <1>1, <1>2, <2>1 DEF Sweeping, Holding, Moves, By, Swept, Finishes, Reopens
  <2> QED
    BY <1>5, <2>3, <2>4, QuietStep
<1> QED
  BY <1>3, <1>4, <1>5

\* The commit brings the counters to what the new status makes of them: each
\* task that waits for this one has it added or taken off, and no other moves.
LEMMA CommitCounts ==
  ASSUME IInv, CounterInv, NEW x \in Tx, Commit(x)
  PROVE  CounterInv'
<1> USE NobodyIsNone
<1>1. PICK r \in TxRec : r = tx[x] /\ r.pc = "commit"
  BY Fields DEF Commit, IInv
<1>2. /\ Sweeping(x, r) /\ r.op \in Editing /\ r.op \notin Linking /\ r.rows = {}
      /\ r.op \in Judging => r.was = row[r.id].status
      /\ r.id \in Task
  BY <1>1 DEF IInv, TxInv, Reads, Holding, CounterInv, Sweeping, Pc, TxRec, Op, Editing, Linking
<1>3. deps' = deps /\ deps = FirstDeps
  BY <1>1, <1>2 DEF Commit, CounterInv, Linking
<1>4. /\ Edited(r, row[r.id], row'[r.id])
      /\ \A t \in Task \ {r.id} : row'[t].status = row[t].status
  BY <1>1, <1>2, CommitRows DEF Untouched
<1>5. ASSUME NEW t \in Task
      PROVE  row'[t].unmet = row[t].unmet + (IF t \in Moves(r) THEN By(r) ELSE 0)
  <2>1. /\ row'[t] = IF lock[t] = x THEN draft[t] ELSE row[t]
        /\ Swept(r) = Moves(r) /\ row[t].unmet \in Nat
    BY <1>1, <1>2 DEF Commit, Swept, IInv, TypeOK, Row
  <2>2. /\ lock[t] = x <=> t \in {r.id} \cup Moves(r)
        /\ t \in Moves(r) => draft[t].unmet = row[t].unmet + By(r)
        /\ (t = r.id /\ t \notin Moves(r)) => draft[t].unmet = row[t].unmet
    BY <1>1, <1>2, <2>1 DEF Sweeping, Holding
  <2> QED
    BY <2>1, <2>2
<1>6. CounterExact'
  <2> SUFFICES ASSUME NEW t \in Task
               PROVE  row'[t].unmet = Cardinality(Unfinished(t)')
    BY DEF CounterExact
  <2>1. /\ row[t].unmet = Cardinality(Unfinished(t))
        /\ IsFiniteSet(Unfinished(t)) /\ Cardinality(Unfinished(t)) \in Nat
    BY <1>3, UnfinishedFinite DEF CounterInv, CounterExact
  <2>2. CASE Finishes(r)
    <3>1. row[r.id].status # Completed /\ row'[r.id].status = Completed
      BY <1>2, <1>4, <2>2 DEF Finishes, Edited
    <3>2. Unfinished(t)' = Unfinished(t) \ {r.id}
      BY <1>2, <1>3, <1>4, <3>1 DEF Unfinished
    <3>3. By(r) = -1 /\ Moves(r) = Dependents(r.id)
      BY <2>2 DEF By, Moves, Finishes, Reopens
    <3>4. t \in Moves(r) <=> r.id \in Unfinished(t)
      BY <1>2, <3>1, <3>3 DEF Dependents, Unfinished
    <3>5. row'[t].unmet = row[t].unmet + (IF t \in Moves(r) THEN -1 ELSE 0)
      BY <1>5, <3>3
    <3>6. CASE r.id \in Unfinished(t)
      <4>1. Cardinality(Unfinished(t) \ {r.id}) = Cardinality(Unfinished(t)) - 1
        BY <2>1, <3>6, FS_RemoveElement
      <4> QED
        BY <2>1, <3>2, <3>4, <3>5, <3>6, <4>1
    <3>7. CASE r.id \notin Unfinished(t)
      <4>1. Unfinished(t)' = Unfinished(t)
        BY <3>2, <3>7
      <4> QED
        BY <2>1, <3>4, <3>5, <3>7, <4>1
    <3> QED
      BY <3>6, <3>7
  <2>3. CASE Reopens(r)
    <3>1. row[r.id].status = Completed /\ row'[r.id].status # Completed
      BY <1>2, <1>4, <2>3 DEF Reopens, Edited
    <3>2. By(r) = 1 /\ Moves(r) = Dependents(r.id)
      BY <2>3 DEF By, Moves
    <3>3. Unfinished(t)' = IF t \in Moves(r) THEN Unfinished(t) \cup {r.id} ELSE Unfinished(t)
      BY <1>2, <1>3, <1>4, <3>1, <3>2 DEF Unfinished, Dependents
    <3>4. r.id \notin Unfinished(t)
      BY <3>1 DEF Unfinished
    <3>5. Cardinality(Unfinished(t) \cup {r.id}) = Cardinality(Unfinished(t)) + 1
      BY <2>1, <3>4, FS_AddElement
    <3>6. row'[t].unmet = row[t].unmet + (IF t \in Moves(r) THEN 1 ELSE 0)
      BY <1>5, <3>2
    <3> QED
      BY <2>1, <3>3, <3>5, <3>6
  <2>4. CASE ~Finishes(r) /\ ~Reopens(r)
    <3>1. row'[r.id].status = Completed <=> row[r.id].status = Completed
      BY <1>2, <1>4, <2>4 DEF Finishes, Reopens, Edited, Editing, Judging
    <3>2. Unfinished(t)' = Unfinished(t)
      BY <1>2, <1>3, <1>4, <3>1 DEF Unfinished
    <3>3. Moves(r) = {}
      BY <2>4 DEF Moves
    <3> QED
      BY <1>5, <2>1, <3>2, <3>3
  <2> QED
    BY <2>2, <2>3, <2>4
<1>7. ASSUME NEW y \in Tx
      PROVE  Sweeping(y, tx[y])'
  <2>1. CASE y = x
    <3>1. tx'[y] = NoTx
      BY <2>1 DEF Commit, IInv, TypeOK
    <3> QED
      BY <2>1, <3>1, IdleSweeps DEF Sweeping, Moves, By, Swept, Finishes, Reopens
  <2>2. CASE y # x
    <3>1. /\ tx'[y] = tx[y]
          /\ \A t \in Task : lock'[t] = y <=> lock[t] = y
          /\ \A t \in Task : lock[t] = y => row'[t] = row[t] /\ draft'[t] = draft[t]
      BY <2>2 DEF Commit, IInv, TypeOK
    <3> QED
      BY <1>3, <3>1, OtherSweeps DEF CounterInv
  <2> QED
    BY <2>1, <2>2
<1> QED
  BY <1>3, <1>6, <1>7 DEF CounterInv

------------------------------------------------------------------------------
(* No counter drifts.                                                      *)

\* At the start the counters are what the statuses make them.
LEMMA InitCounts == Init => CounterInv
<1> SUFFICES ASSUME Init PROVE CounterInv
  OBVIOUS
<1>1. PICK s \in [Task -> Asked] :
        row = [t \in Task |->
                 [status |-> s[t], version |-> 1, trash |-> FALSE,
                  unmet |-> Cardinality({d \in Task : /\ <<t, d>> \in FirstDeps
                                                      /\ s[d] # Completed})]]
  BY DEF Init
<1>2. ASSUME NEW t \in Task
      PROVE  row[t].unmet = Cardinality(Unfinished(t))
  <2>1. \A d \in Task : row[d].status = s[d]
    BY <1>1
  <2>2. Unfinished(t) = {d \in Task : <<t, d>> \in FirstDeps /\ s[d] # Completed}
    BY <2>1 DEF Unfinished, Init
  <2> QED
    BY <1>1, <2>2
<1>3. \A x \in Tx : Sweeping(x, tx[x])
  BY IdleSweeps DEF Init
<1> QED
  BY <1>2, <1>3 DEF CounterInv, CounterExact, Init

\* No step makes one drift.
LEMMA NextCounts ==
  ASSUME Linkable = {}, IInv, CounterInv, [Next]_vars
  PROVE  CounterInv'
<1>1. CASE UNCHANGED vars
  <2>1. \A y \in Tx : Sweeping(y, tx[y])'
    BY <1>1, OtherSweeps DEF vars, CounterInv
  <2> QED
    BY <1>1, <2>1, SameCounts DEF vars, CounterInv
<1>2. ASSUME NEW x \in Tx, Begin(x) \/ Step(x) \/ Cancel(x) \/ BreakDeadlock(x)
      PROVE  CounterInv'
  <2>1. CASE Begin(x)
    BY <2>1, BeginCounts
  <2>2. CASE Step(x)
    <3>1. ~Check(x) /\ ~WriteEdge(x)
      BY DEF IInv, TxInv, Shape, CounterInv, Sweeping, Check, WriteEdge, Pc, Linking
    <3> QED
      BY <2>2, <3>1, SelectCounts, OwnRowCounts, AdjustCounts, SweepCounts, CommitCounts
         DEF Step
  <2>3. CASE Cancel(x) \/ BreakDeadlock(x)
    BY <2>3, UndoCounts DEF Cancel, BreakDeadlock
  <2> QED
    BY <1>2, <2>1, <2>2, <2>3
<1> QED
  BY <1>1, <1>2 DEF Next

\* Of a graph that does not change, each counter is in every committed state
\* the number of unfinished tasks its own waits for, however many transactions
\* complete, reopen, delete, restore or give up on overlapping chains
\* (store/todos.go:96-98).
THEOREM CountersNeverDrift == Linkable = {} => (Spec => []CounterExact)
<1> SUFFICES ASSUME Linkable = {} PROVE Spec => []CounterExact
  OBVIOUS
<1>1. CounterInv /\ IInv /\ [Next]_vars => CounterInv'
  BY NextCounts
<1>2. CounterInv => CounterExact
  BY DEF CounterInv
<1> QED
  BY <1>1, <1>2, InitCounts, Invariant, PTL DEF Spec
=============================================================================
