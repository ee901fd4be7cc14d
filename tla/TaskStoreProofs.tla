-------------------------- MODULE TaskStoreProofs ---------------------------
(***************************************************************************)
(* What holds of TaskStore for every set of tasks, every number of callers *)
(* and every bound.                                                        *)
(***************************************************************************)
EXTENDS TaskStore, FiniteSetTheorems, TLAPS

------------------------------------------------------------------------------
(* Types.                                                                  *)

\* Settling the dependents' counters yields counters.
LEMMA AdjustType ==
  ASSUME TypeOK, NEW t \in Task, NEW was \in Status, NEW now \in Status
  PROVE  AdjustDependents(t, was, now) \in [Task -> Nat]
<1>1. \A x \in Task : unmet[x] \in Nat
  BY DEF TypeOK
<1>2. \A x \in Task : unmet[x] > 0 => unmet[x] - 1 \in Nat
  BY <1>1
<1>3. unmet \in [Task -> Nat]
  BY DEF TypeOK
<1> QED
  BY <1>1, <1>2, <1>3 DEF AdjustDependents, DropForCompleted, BumpForReopened

\* A refused or finished request leaves a caller in a known phase.
LEMMA CallTypes ==
  ASSUME TypeOK, NEW c \in Caller, NEW t \in Task, NEW v \in Nat
  PROVE  /\ [call EXCEPT ![c] = Idle] \in [Caller -> Call]
         /\ [call EXCEPT ![c] = [phase |-> "stale", id |-> t, ver |-> v]]
              \in [Caller -> Call]
  BY DEF TypeOK, Call

\* The fields of a request in hand, by phase.
LEMMA CallFields ==
  ASSUME TypeOK, NEW c \in Caller
  PROVE  /\ call[c].phase = "reading" => 
              /\ call[c] \in [phase : {"reading"}, id : Task, ver : Nat, recur : BOOLEAN]
         /\ call[c].phase = "decided" =>
              /\ call[c] \in [phase : {"decided"}, op : {"update", "archive"}, id : Task, ver : Nat,
                               to : Status, recur : BOOLEAN, series : Nat]
         /\ call[c].phase = "stale" =>
              /\ call[c] \in [phase : {"stale"}, id : Task, ver : Nat]
         /\ call[c].phase = "conflict" =>
              /\ call[c] \in [phase : {"conflict"}, id : Task, ver : Nat, seen : Nat]
<1>1. call[c] \in Call
  BY DEF TypeOK
<1> QED
  BY <1>1 DEF Call, Idle

\* One more event of a task keeps its history well formed.
LEMMA HistoryTypes ==
  ASSUME TypeOK, NEW t \in Task
  PROVE  /\ \A s \in Status : [history EXCEPT ![t].told = s] \in [Task -> History]
         /\ \A b \in BOOLEAN : [history EXCEPT ![t].deleted = b] \in [Task -> History]
         /\ \A d \in Task :
              /\ [history EXCEPT ![t].waitsFor = @ \cup {d}] \in [Task -> History]
              /\ [history EXCEPT ![t].waitsFor = @ \ {d}] \in [Task -> History]
<1>1. history \in [Task -> History] /\ history[t] \in History
  BY DEF TypeOK, History
<1>2. \A s \in Status : [history[t] EXCEPT !.told = s] \in History
  BY <1>1 DEF History
<1>3. \A b \in BOOLEAN : [history[t] EXCEPT !.deleted = b] \in History
  BY <1>1 DEF History
<1>4. \A d \in Task : /\ [history[t] EXCEPT !.waitsFor = @ \cup {d}] \in History
                      /\ [history[t] EXCEPT !.waitsFor = @ \ {d}] \in History
  BY <1>1 DEF History
<1> QED
  BY <1>1, <1>2, <1>3, <1>4

\* What a guarded write that matched no row leaves behind.
LEMMA StaleType ==
  ASSUME TypeOK, NEW c \in Caller, NEW t \in Task, NEW v \in Nat, GoStale(c, t, v)
  PROVE  TypeOK'
<1>1. call' \in [Caller -> Call]
  BY CallTypes DEF GoStale
<1> QED
  BY <1>1 DEF TypeOK, GoStale

\* Inserting a row touches only columns of that row.
LEMMA CreateType ==
  ASSUME TypeOK, NEW c \in Caller, NEW t \in Task, NEW s \in Status,
         NEW recur \in BOOLEAN, Create(c, t, s, recur)
  PROVE  TypeOK'
<1>1. started' \in Nat /\ series' \in [Task -> Nat]
  BY DEF TypeOK, Create
<1>2. rows' \subseteq Task /\ trash' \subseteq rows' /\ deps' \subseteq rows' \X rows'
  BY DEF TypeOK, Create
<1>4. IsFiniteSet(rows')
  BY FS_AddElement DEF TypeOK, Create
<1>3. status' \in [Task -> Status] /\ version' \in [Task -> Nat]
  BY DEF TypeOK, Create
<1> QED
  BY <1>1, <1>2, <1>3, <1>4 DEF TypeOK, Create

\* The read of an update leaves the tables alone.
LEMMA ReadType ==
  ASSUME TypeOK, NEW c \in Caller, NEW op \in {"update", "archive"}, NEW t \in Task,
         NEW v \in Nat, NEW s \in Status, NEW recur \in BOOLEAN,
         ReadForUpdate(c, op, t, v, s, recur)
  PROVE  TypeOK'
<1> DEFINE sets == recur /\ series[t] = 0
           keep == ScheduleFor(t, recur)
           r == [phase |-> "decided", op |-> op, id |-> t, ver |-> v,
                 to |-> s, recur |-> recur, series |-> keep]
<1>1. started' \in Nat /\ keep \in Nat
  BY DEF TypeOK, ReadForUpdate, ScheduleFor
<1>2. r \in Call
  BY <1>1 DEF Call
<1>3. call' = [call EXCEPT ![c] = r]
  BY DEF ReadForUpdate
<1> HIDE DEF r
<1>4. call' \in [Caller -> Call]
  BY <1>2, <1>3 DEF TypeOK
<1>5. UNCHANGED table
  BY DEF ReadForUpdate
<1> QED
  BY <1>1, <1>4, <1>5 DEF TypeOK, table

\* So does the first read of a bulk archive ...
LEMMA BeginArchiveType ==
  ASSUME TypeOK, NEW c \in Caller, NEW t \in Task, NEW v \in Nat,
         BeginArchive(c, t, v)
  PROVE  TypeOK'
<1>1. [phase |-> "reading", id |-> t, ver |-> v, recur |-> series[t] # 0] \in Call
  BY DEF Call
<1>2. call' \in [Caller -> Call]
  BY <1>1 DEF TypeOK, BeginArchive
<1> QED
  BY <1>2 DEF TypeOK, BeginArchive, table

\* ... and the second.
LEMMA ContinueArchiveType ==
  ASSUME TypeOK, NEW c \in Caller, ContinueArchive(c)
  PROVE  TypeOK'
<1>1. call[c] \in [phase : {"reading"}, id : Task, ver : Nat, recur : BOOLEAN]
  BY CallFields DEF ContinueArchive
<1>2. CASE ReadForUpdate(c, "archive", call[c].id, call[c].ver, Archived, call[c].recur)
  BY <1>1, <1>2, ReadType DEF Status
<1>3. CASE Answer(c) /\ UNCHANGED <<table, started>>
  <2>1. call' \in [Caller -> Call]
    BY <1>1, <1>3, CallTypes DEF Answer
  <2> QED
    BY <2>1, <1>3 DEF TypeOK, table
<1> QED
  BY <1>2, <1>3 DEF ContinueArchive

\* The transaction of an update.
LEMMA ApplyUpdateType ==
  ASSUME TypeOK, NEW t \in Task, NEW to \in Status, NEW schedule \in Nat,
         ApplyUpdate(t, to, schedule), call' \in [Caller -> Call]
  PROVE  TypeOK'
<1>1. unmet' \in [Task -> Nat]
  <2>1. status[t] \in Status
    BY DEF TypeOK
  <2> QED
    BY <2>1, AdjustType DEF ApplyUpdate
<1>2. history' \in [Task -> History]
  BY HistoryTypes DEF TypeOK, ApplyUpdate, RecordStatus
<1>3. /\ status' \in [Task -> Status]
      /\ version' \in [Task -> Nat]
      /\ series' \in [Task -> Nat]
  BY DEF TypeOK, ApplyUpdate, BumpVersion
<1> QED
  BY <1>1, <1>2, <1>3 DEF TypeOK, ApplyUpdate

LEMMA CommitUpdateType ==
  ASSUME TypeOK, NEW c \in Caller, CommitUpdate(c)
  PROVE  TypeOK'
<1> DEFINE r == call[c]
<1>1. r \in [phase : {"decided"}, op : {"update", "archive"}, id : Task, ver : Nat,
             to : Status, recur : BOOLEAN, series : Nat]
  BY CallFields DEF CommitUpdate
<1>2. /\ r.id \in Task
      /\ r.ver \in Nat
      /\ r.to \in Status
      /\ r.series \in Nat
  BY <1>1
<1>3. Answer(c) => call' \in [Caller -> Call]
  BY <1>2, CallTypes DEF Answer
<1>4. CASE Answer(c) /\ UNCHANGED <<table, started>>
  BY <1>3, <1>4 DEF TypeOK, table
<1>5. CASE GoStale(c, r.id, r.ver)
  BY <1>2, <1>5, StaleType
<1>6. CASE ApplyUpdate(r.id, r.to, r.series) /\ Answer(c)
  BY <1>2, <1>3, <1>6, ApplyUpdateType
<1> QED
  BY <1>4, <1>5, <1>6 DEF CommitUpdate

\* The transaction of a completion, with and without a next occurrence.
LEMMA CompletePlainType ==
  ASSUME TypeOK, NEW t \in Task, NEW v \in Nat, CompletePlain(t, v)
  PROVE  TypeOK'
<1>1. unmet' \in [Task -> Nat]
  <2>1. status[t] \in Status /\ Completed \in Status
    BY DEF TypeOK, Status
  <2> QED
    BY <2>1, AdjustType DEF CompletePlain
<1>2. history' \in [Task -> History]
  BY HistoryTypes DEF CompletePlain, RecordStatus, Status
<1>3. /\ status' \in [Task -> Status]
      /\ version' \in [Task -> Nat]
  BY DEF TypeOK, CompletePlain, BumpVersion, Status
<1> QED
  BY <1>1, <1>2, <1>3 DEF TypeOK, CompletePlain

LEMMA CompleteAndSpawnType ==
  ASSUME TypeOK, NEW t \in Task, NEW v \in Nat, NEW n \in Task,
         CompleteAndSpawn(t, v, n)
  PROVE  TypeOK'
<1>1. unmet' \in [Task -> Nat]
  <2>1. status[t] \in Status /\ Completed \in Status
    BY DEF TypeOK, Status
  <2> QED
    BY <2>1, AdjustType DEF CompleteAndSpawn
<1>2. history' \in [Task -> History]
  BY HistoryTypes DEF CompleteAndSpawn, RecordStatus, Status
<1>3. /\ status' \in [Task -> Status]
      /\ version' \in [Task -> Nat]
      /\ series' \in [Task -> Nat]
  BY DEF TypeOK, CompleteAndSpawn, HandOver, Status
<1>4. rows' \subseteq Task /\ trash' \subseteq rows' /\ deps' \subseteq rows' \X rows'
  BY DEF TypeOK, CompleteAndSpawn
<1>5. IsFiniteSet(rows')
  BY FS_AddElement DEF TypeOK, CompleteAndSpawn
<1> QED
  BY <1>1, <1>2, <1>3, <1>4, <1>5 DEF TypeOK, CompleteAndSpawn

LEMMA CompleteType ==
  ASSUME TypeOK, NEW c \in Caller, NEW t \in Task, NEW v \in Nat, Complete(c, t, v)
  PROVE  TypeOK'
  BY CompletePlainType, CompleteAndSpawnType, StaleType DEF Complete

\* The trash.
LEMMA DeleteType ==
  ASSUME TypeOK, NEW c \in Caller, NEW t \in Task, NEW v \in Nat, Delete(c, t, v)
  PROVE  TypeOK'
<1>1. CASE GoStale(c, t, v)
  BY <1>1, StaleType
<1>2. CASE ~GoStale(c, t, v)
  <2>1. history' \in [Task -> History]
    BY <1>2, HistoryTypes DEF Delete
  <2>2. version' \in [Task -> Nat] /\ trash' \subseteq rows'
    BY <1>2 DEF TypeOK, Delete, BumpVersion
  <2> QED
    BY <1>2, <2>1, <2>2 DEF TypeOK, Delete
<1> QED
  BY <1>1, <1>2

LEMMA RestoreType ==
  ASSUME TypeOK, NEW c \in Caller, NEW t \in Task, Restore(c, t)
  PROVE  TypeOK'
<1>1. history' \in [Task -> History]
  BY HistoryTypes DEF Restore
<1>2. version' \in [Task -> Nat] /\ trash' \subseteq rows'
  BY DEF TypeOK, Restore, BumpVersion
<1> QED
  BY <1>1, <1>2 DEF TypeOK, Restore

\* The edges.
LEMMA AddDependencyType ==
  ASSUME TypeOK, NEW c \in Caller, NEW t \in Task, NEW d \in Task,
         AddDependency(c, t, d)
  PROVE  TypeOK'
<1>1. history' \in [Task -> History]
  BY HistoryTypes DEF AddDependency
<1>2. unmet' \in [Task -> Nat]
  BY DEF TypeOK, AddDependency, BumpForNewEdge
<1>3. deps' \subseteq rows' \X rows'
  BY DEF TypeOK, AddDependency, BumpForNewEdge
<1> QED
  BY <1>1, <1>2, <1>3 DEF TypeOK, AddDependency

LEMMA RemoveDependencyType ==
  ASSUME TypeOK, NEW c \in Caller, NEW t \in Task, NEW d \in Task,
         RemoveDependency(c, t, d)
  PROVE  TypeOK'
<1>1. history' \in [Task -> History]
  BY HistoryTypes DEF RemoveDependency
<1>2. unmet' \in [Task -> Nat]
  BY DEF TypeOK, RemoveDependency, DropForRemovedEdge
<1>3. deps' \subseteq rows' \X rows'
  BY DEF TypeOK, RemoveDependency, DropForRemovedEdge
<1> QED
  BY <1>1, <1>2, <1>3 DEF TypeOK, RemoveDependency

\* The answer to a write that matched no row.
LEMMA RereadType ==
  ASSUME TypeOK, NEW c \in Caller, Reread(c)
  PROVE  TypeOK'
<1> DEFINE r == call[c]
<1>1. r.id \in Task /\ r.ver \in Nat
  BY CallFields DEF Reread
<1>2. version[r.id] \in Nat
  BY <1>1 DEF TypeOK
<1>3. [phase |-> "conflict", id |-> r.id, ver |-> r.ver, seen |-> version[r.id]] \in Call
  BY <1>1, <1>2 DEF Call
<1>4. call' \in [Caller -> Call]
  BY <1>1, <1>3, CallTypes DEF Reread, TypeOK, Call
<1> QED
  BY <1>4 DEF TypeOK, Reread, table

LEMMA AnswerConflictType ==
  ASSUME TypeOK, NEW c \in Caller, AnswerConflict(c)
  PROVE  TypeOK'
<1>1. call[c].id \in Task /\ call[c].ver \in Nat
  BY CallFields DEF AnswerConflict
<1>2. call' \in [Caller -> Call]
  BY <1>1, CallTypes DEF AnswerConflict, Answer
<1> QED
  BY <1>2 DEF TypeOK, AnswerConflict, table

\* Every variable keeps its type: the tables are well formed, the counters are
\* naturals (migration 0003's CHECK), the edges join existing rows and are
\* finitely many, and every caller is in a known phase.
THEOREM TypeCorrect == Spec => []TypeOK
<1>1. Init => TypeOK
  BY FS_EmptySet DEF Init, TypeOK, Status, History, NoHistory, Call
<1>2. TypeOK /\ [Next]_vars => TypeOK'
  <2> SUFFICES ASSUME TypeOK, [Next]_vars
               PROVE  TypeOK'
    OBVIOUS
  <2>1. \A t \in Task : Readable(t) \subseteq Nat
    BY DEF Readable, TypeOK
  <2>2. CASE UNCHANGED vars
    BY <2>2 DEF vars, TypeOK
  <2>3. ASSUME NEW c \in Caller, Request(c)
        PROVE  TypeOK'
    <3>1. ASSUME NEW t \in Task, NEW s \in Status, NEW recur \in BOOLEAN,
                 Create(c, t, s, recur)
          PROVE  TypeOK'
      BY <3>1, CreateType
    <3>2. ASSUME NEW t \in Task, NEW s \in Status, NEW recur \in BOOLEAN,
                 NEW v \in Readable(t), BeginUpdate(c, t, v, s, recur)
          PROVE  TypeOK'
      BY <2>1, <3>2, ReadType DEF BeginUpdate
    <3>3. ASSUME NEW t \in Task, NEW v \in Readable(t),
                 BeginArchive(c, t, v) \/ Complete(c, t, v) \/ Delete(c, t, v)
          PROVE  TypeOK'
      BY <2>1, <3>3, BeginArchiveType, CompleteType, DeleteType
    <3>4. ASSUME NEW t \in Task, Restore(c, t)
          PROVE  TypeOK'
      BY <3>4, RestoreType
    <3>5. ASSUME NEW e \in Linkable,
                 AddDependency(c, e[1], e[2]) \/ RemoveDependency(c, e[1], e[2])
          PROVE  TypeOK'
      <4>1. e[1] \in Task /\ e[2] \in Task
        BY LinkableArePairs
      <4> QED
        BY <3>5, <4>1, AddDependencyType, RemoveDependencyType
    <3> QED
      BY <2>3, <3>1, <3>2, <3>3, <3>4, <3>5 DEF Request
  <2>4. ASSUME NEW c \in Caller, Continue(c)
        PROVE  TypeOK'
    BY <2>4, ContinueArchiveType, CommitUpdateType, RereadType, AnswerConflictType
       DEF Continue
  <2> QED
    BY <2>2, <2>3, <2>4 DEF Next
<1> QED
  BY <1>1, <1>2, PTL DEF Spec

------------------------------------------------------------------------------
(* The counter.                                                            *)

\* Only finitely many tasks hold another up.
LEMMA UnfinishedFinite ==
  ASSUME TypeOK, NEW x \in Task
  PROVE  /\ IsFiniteSet(Unfinished(x))
         /\ Cardinality(Unfinished(x)) \in Nat
         /\ Unfinished(x) \subseteq rows
<1>1. Unfinished(x) \subseteq rows
  BY DEF TypeOK, Unfinished
<1>2. IsFiniteSet(Unfinished(x))
  BY <1>1, FS_Subset DEF TypeOK
<1> QED
  BY <1>1, <1>2, FS_CardinalityType

\* A step that moves no edge, no counter and no status of an existing row
\* keeps the counters exact: no edge mentions a row that is not there yet.
LEMMA CounterUntouched ==
  ASSUME TypeOK, CounterExact, deps' = deps, unmet' = unmet,
         \A x \in rows : status'[x] = status[x]
  PROVE  CounterExact'
<1>1. ASSUME NEW x \in Task
      PROVE  Unfinished(x)' = Unfinished(x)
  BY DEF TypeOK, Unfinished
<1> QED
  BY <1>1 DEF CounterExact

\* adjustDependents settles every counter that the move of t concerns.
LEMMA CounterSettled ==
  ASSUME TypeOK, CounterExact, NEW t \in Task, NEW now \in Status,
         deps' = deps,
         unmet' = AdjustDependents(t, status[t], now),
         status'[t] = now,
         \A x \in rows : x # t => status'[x] = status[x]
  PROVE  CounterExact'
<1> SUFFICES ASSUME NEW x \in Task
             PROVE  unmet'[x] = Cardinality(Unfinished(x)')
  BY DEF CounterExact
<1>1. unmet[x] = Cardinality(Unfinished(x))
  BY DEF CounterExact
<1>2. IsFiniteSet(Unfinished(x)) /\ Cardinality(Unfinished(x)) \in Nat
  BY UnfinishedFinite
<1>3. CASE x \in WaitingOn(t) /\ status[t] # Completed /\ now = Completed
  <2>1. t \in Unfinished(x) /\ Unfinished(x)' = Unfinished(x) \ {t}
    BY <1>3 DEF Unfinished, WaitingOn, TypeOK
  <2>2. /\ Cardinality(Unfinished(x) \ {t}) = Cardinality(Unfinished(x)) - 1
        /\ IsFiniteSet(Unfinished(x) \ {t})
    BY <1>2, <2>1, FS_RemoveElement
  <2>3. Cardinality(Unfinished(x) \ {t}) \in Nat
    BY <2>2, FS_CardinalityType
  <2>4. unmet'[x] = IF unmet[x] > 0 THEN unmet[x] - 1 ELSE unmet[x]
    BY <1>3 DEF AdjustDependents, DropForCompleted, BumpForReopened
  <2> QED
    BY <1>1, <1>2, <2>1, <2>2, <2>3, <2>4
<1>4. CASE x \in WaitingOn(t) /\ status[t] = Completed /\ now # Completed
  <2>1. t \notin Unfinished(x) /\ Unfinished(x)' = Unfinished(x) \cup {t}
    BY <1>4 DEF Unfinished, WaitingOn, TypeOK
  <2>2. Cardinality(Unfinished(x) \cup {t}) = Cardinality(Unfinished(x)) + 1
    BY <1>2, <2>1, FS_AddElement
  <2>3. unmet'[x] = unmet[x] + 1
    BY <1>4 DEF AdjustDependents, BumpForReopened
  <2> QED
    BY <1>1, <2>1, <2>2, <2>3
<1>5. CASE \/ x \notin WaitingOn(t)
           \/ status[t] # Completed /\ now # Completed
           \/ status[t] = Completed /\ now = Completed
  <2>1. Unfinished(x)' = Unfinished(x)
    BY <1>5 DEF Unfinished, WaitingOn, TypeOK
  <2>2. unmet'[x] = unmet[x]
    BY <1>5 DEF AdjustDependents, DropForCompleted, BumpForReopened, TypeOK
  <2> QED
    BY <1>1, <2>1, <2>2
<1> QED
  BY <1>3, <1>4, <1>5

\* Linking counts the new dependency if it is unfinished.
LEMMA CounterLinked ==
  ASSUME TypeOK, CounterExact, NEW c \in Caller, NEW t \in Task, NEW d \in Task,
         AddDependency(c, t, d)
  PROVE  CounterExact'
<1> SUFFICES ASSUME NEW x \in Task
             PROVE  unmet'[x] = Cardinality(Unfinished(x)')
  BY DEF CounterExact
<1>1. unmet[x] = Cardinality(Unfinished(x)) /\ IsFiniteSet(Unfinished(x))
  BY UnfinishedFinite DEF CounterExact
<1>2. CASE x = t /\ status[d] # Completed
  <2>1. d \notin Unfinished(x) /\ Unfinished(x)' = Unfinished(x) \cup {d}
    BY <1>2 DEF Unfinished, AddDependency
  <2>2. Cardinality(Unfinished(x) \cup {d}) = Cardinality(Unfinished(x)) + 1
    BY <1>1, <2>1, FS_AddElement
  <2>3. unmet'[x] = unmet[x] + 1
    BY <1>2 DEF AddDependency, BumpForNewEdge, TypeOK
  <2> QED
    BY <1>1, <2>1, <2>2, <2>3
<1>3. CASE ~(x = t /\ status[d] # Completed)
  <2>1. Unfinished(x)' = Unfinished(x)
    BY <1>3 DEF Unfinished, AddDependency
  <2>2. unmet'[x] = unmet[x]
    BY <1>3 DEF AddDependency, BumpForNewEdge, TypeOK
  <2> QED
    BY <1>1, <2>1, <2>2
<1> QED
  BY <1>2, <1>3

\* Unlinking takes it off again.
LEMMA CounterUnlinked ==
  ASSUME TypeOK, CounterExact, NEW c \in Caller, NEW t \in Task, NEW d \in Task,
         RemoveDependency(c, t, d)
  PROVE  CounterExact'
<1> SUFFICES ASSUME NEW x \in Task
             PROVE  unmet'[x] = Cardinality(Unfinished(x)')
  BY DEF CounterExact
<1>1. /\ unmet[x] = Cardinality(Unfinished(x))
      /\ IsFiniteSet(Unfinished(x))
      /\ Cardinality(Unfinished(x)) \in Nat
  BY UnfinishedFinite DEF CounterExact
<1>2. CASE x = t /\ status[d] # Completed
  <2>1. d \in Unfinished(x) /\ Unfinished(x)' = Unfinished(x) \ {d}
    BY <1>2 DEF Unfinished, RemoveDependency
  <2>2. /\ Cardinality(Unfinished(x) \ {d}) = Cardinality(Unfinished(x)) - 1
        /\ IsFiniteSet(Unfinished(x) \ {d})
    BY <1>1, <2>1, FS_RemoveElement
  <2>3. Cardinality(Unfinished(x) \ {d}) \in Nat
    BY <2>2, FS_CardinalityType
  <2>4. unmet[x] > 0
    BY <1>1, <2>2, <2>3
  <2>5. unmet'[x] = unmet[x] - 1
    BY <1>2, <2>4 DEF RemoveDependency, DropForRemovedEdge, TypeOK
  <2> QED
    BY <1>1, <2>1, <2>2, <2>5
<1>3. CASE ~(x = t /\ status[d] # Completed)
  <2>1. Unfinished(x)' = Unfinished(x)
    BY <1>3 DEF Unfinished, RemoveDependency
  <2>2. unmet'[x] = unmet[x]
    BY <1>3 DEF RemoveDependency, DropForRemovedEdge, TypeOK
  <2> QED
    BY <1>1, <2>1, <2>2
<1> QED
  BY <1>2, <1>3

------------------------------------------------------------------------------
(* What a step does to the tables.                                         *)

\* An update whose transaction applies.
Applies(c) ==
  LET r == call[c] IN
    /\ r.id \in Task /\ r.ver \in Nat /\ r.to \in Status /\ r.series \in Nat
    /\ CanTransition(status[r.id], r.to, unmet[r.id]) = "ok"
    /\ Matches(r.id, r.ver)
    /\ ApplyUpdate(r.id, r.to, r.series)

\* A completion that applies, of a row that is there.
Finishes(t) ==
  /\ CanTransition(status[t], Completed, unmet[t]) = "ok"
  /\ t \in rows
  /\ \E v \in Nat : CompletePlain(t, v) \/ \E n \in Task : CompleteAndSpawn(t, v, n)

\* A move into or out of the trash.
Trashes ==
  /\ UNCHANGED <<rows, status, unmet, series, started, deps, call>>
  /\ \E t \in rows, gone \in BOOLEAN :
       /\ BumpVersion(t)
       /\ trash' = IF gone THEN trash \cup {t} ELSE trash \ {t}
       /\ history' = [history EXCEPT ![t].deleted = gone]

\* Every step leaves the tables alone or is one of seven writes.
LEMMA StepCases ==
  ASSUME TypeOK, [Next]_vars
  PROVE  \/ UNCHANGED table
         \/ \E c \in Caller, t \in Task, s \in Status, recur \in BOOLEAN :
              Create(c, t, s, recur)
         \/ \E c \in Caller : call[c].phase = "decided" /\ Applies(c)
         \/ \E t \in Task : Finishes(t)
         \/ Trashes
         \/ \E c \in Caller, t, d \in Task : AddDependency(c, t, d)
         \/ \E c \in Caller, t, d \in Task : RemoveDependency(c, t, d)
<1>1. \A t \in Task : Readable(t) \subseteq Nat
  BY DEF Readable, TypeOK
<1>2. CASE UNCHANGED vars
  BY <1>2 DEF vars, table
<1>3. ASSUME NEW c \in Caller, NEW t \in Task, NEW v \in Nat, GoStale(c, t, v)
      PROVE  UNCHANGED table
  BY <1>3 DEF GoStale, table
<1>4. ASSUME NEW c \in Caller, NEW t \in Task, NEW v \in Readable(t),
             Complete(c, t, v)
      PROVE  UNCHANGED table \/ Finishes(t)
  BY <1>1, <1>3, <1>4 DEF Complete, Finishes
<1>5. ASSUME NEW c \in Caller, NEW t \in Task, NEW v \in Readable(t),
             Delete(c, t, v)
      PROVE  UNCHANGED table \/ Trashes
  BY <1>1, <1>3, <1>5 DEF Delete, Trashes
<1>6. ASSUME NEW c \in Caller, NEW t \in Task, Restore(c, t)
      PROVE  Trashes
  BY <1>6 DEF Restore, Trashes, TypeOK
<1>7. ASSUME NEW c \in Caller, CommitUpdate(c)
      PROVE  UNCHANGED table \/ (call[c].phase = "decided" /\ Applies(c))
  <2>1. call[c] \in [phase : {"decided"}, op : {"update", "archive"}, id : Task,
                     ver : Nat, to : Status, recur : BOOLEAN, series : Nat]
    BY <1>7, CallFields DEF CommitUpdate
  <2> QED
    BY <1>7, <1>3, <2>1 DEF CommitUpdate, Applies
<1>8. ASSUME NEW c \in Caller, Continue(c)
      PROVE  UNCHANGED table \/ (call[c].phase = "decided" /\ Applies(c))
  BY <1>7, <1>8 DEF Continue, ContinueArchive, ReadForUpdate, Reread, AnswerConflict
<1>9. ASSUME NEW c \in Caller, NEW t \in Task, NEW v \in Readable(t),
             BeginArchive(c, t, v) 
      PROVE  UNCHANGED table
  BY <1>9 DEF BeginArchive
<1>10. ASSUME NEW c \in Caller, NEW t \in Task, NEW s \in Status,
              NEW recur \in BOOLEAN, NEW v \in Readable(t),
              BeginUpdate(c, t, v, s, recur)
       PROVE  UNCHANGED table
  BY <1>10 DEF BeginUpdate, ReadForUpdate
<1>11. \A e \in Linkable : e[1] \in Task /\ e[2] \in Task
  BY LinkableArePairs
<1> QED
  BY <1>2, <1>4, <1>5, <1>6, <1>8, <1>9, <1>10, <1>11 DEF Next, Request

\* No interleaving of requests takes the counters off the truth.
LEMMA CounterStep ==
  ASSUME TypeOK, CounterExact, [Next]_vars
  PROVE  CounterExact'
<1>1. CASE UNCHANGED table
  BY <1>1, CounterUntouched DEF table
<1>2. ASSUME NEW c \in Caller, NEW t \in Task, NEW s \in Status,
             NEW recur \in BOOLEAN, Create(c, t, s, recur)
      PROVE  CounterExact'
  BY <1>2, CounterUntouched DEF Create, TypeOK
<1>3. ASSUME NEW c \in Caller, Applies(c)
      PROVE  CounterExact'
  <2> DEFINE t == call[c].id
             to == call[c].to
  <2>1. /\ t \in Task /\ to \in Status
        /\ deps' = deps
        /\ unmet' = AdjustDependents(t, status[t], to)
        /\ status' = [status EXCEPT ![t] = to]
    BY <1>3 DEF Applies, ApplyUpdate
  <2>2. status'[t] = to /\ \A x \in rows : x # t => status'[x] = status[x]
    BY <2>1 DEF TypeOK
  <2> HIDE DEF t, to
  <2> QED
    BY <2>1, <2>2, CounterSettled
<1>4. ASSUME NEW t \in Task, Finishes(t)
      PROVE  CounterExact'
  <2>1. /\ deps' = deps
        /\ unmet' = AdjustDependents(t, status[t], Completed)
        /\ status'[t] = Completed
        /\ \A x \in rows : x # t => status'[x] = status[x]
    BY <1>4 DEF Finishes, CompletePlain, CompleteAndSpawn, TypeOK
  <2> QED
    BY <2>1, CounterSettled DEF Status
<1>5. CASE Trashes
  BY <1>5, CounterUntouched DEF Trashes
<1> QED
  BY <1>1, <1>2, <1>3, <1>4, <1>5, StepCases, CounterLinked, CounterUnlinked

\* unmet_deps_count is always the number of dependencies that are not
\* completed: the four places that maintain it are enough.
THEOREM CounterCorrect == Spec => []CounterExact
<1>1. Init => CounterExact
  <2>1. ASSUME Init, NEW x \in Task
        PROVE  unmet[x] = Cardinality(Unfinished(x))
    <3>1. Unfinished(x) = {}
      BY <2>1 DEF Init, Unfinished
    <3> QED
      BY <2>1, <3>1, FS_EmptySet DEF Init
  <2> QED
    BY <2>1 DEF CounterExact
<1>2. TypeOK /\ CounterExact /\ [Next]_vars => CounterExact'
  BY CounterStep
<1> QED
  BY <1>1, <1>2, TypeCorrect, PTL DEF Spec

\* A task never enters In progress or Completed while anything it waits on is
\* unfinished, although only the counter is consulted.
THEOREM BlockedNeverStarts == Spec => StartsOnlyUnblocked
<1> DEFINE Starts == \A t \in rows :
             status'[t] # status[t] /\ status'[t] \in {InProgress, Completed}
               => Unfinished(t) = {}
<1>1. TypeOK /\ CounterExact /\ [Next]_vars => Starts
  <2> SUFFICES ASSUME TypeOK, CounterExact, [Next]_vars, NEW t \in rows,
                      status'[t] # status[t],
                      status'[t] \in {InProgress, Completed}
               PROVE  Unfinished(t) = {}
    OBVIOUS
  <2>1. t \in Task
    BY DEF TypeOK
  <2>2. ASSUME NEW to \in {InProgress, Completed}, to # status[t],
               CanTransition(status[t], to, unmet[t]) = "ok"
        PROVE  Unfinished(t) = {}
    <3>1. unmet[t] \in Nat /\ ~(unmet[t] > 0)
      BY <2>1, <2>2 DEF CanTransition, TypeOK, InProgress, Completed, Archived
    <3>2. Cardinality(Unfinished(t)) = 0
      BY <2>1, <3>1 DEF CounterExact
    <3> QED
      BY <2>1, <3>2, UnfinishedFinite, FS_EmptySet
  <2>3. ASSUME NEW c \in Caller, Applies(c)
        PROVE  Unfinished(t) = {}
    <3>1. t = call[c].id /\ status'[t] = call[c].to
      BY <2>1, <2>3 DEF Applies, ApplyUpdate, TypeOK
    <3> QED
      BY <2>2, <2>3, <3>1 DEF Applies
  <2>4. ASSUME NEW u \in Task, Finishes(u)
        PROVE  Unfinished(t) = {}
    <3>1. t = u /\ status'[t] = Completed
      BY <2>1, <2>4 DEF Finishes, CompletePlain, CompleteAndSpawn, TypeOK
    <3> QED
      BY <2>2, <2>4, <3>1 DEF Finishes
  <2>5. CASE \/ UNCHANGED table
             \/ \E c \in Caller, u \in Task, s \in Status, recur \in BOOLEAN :
                  Create(c, u, s, recur)
             \/ Trashes
             \/ \E c \in Caller, u, d \in Task : AddDependency(c, u, d)
             \/ \E c \in Caller, u, d \in Task : RemoveDependency(c, u, d)
    <3>1. status'[t] = status[t]
      BY <2>1, <2>5 DEF table, Create, Trashes, AddDependency, RemoveDependency, TypeOK
    <3> QED
      BY <3>1
  <2> QED
    BY <2>3, <2>4, <2>5, StepCases
<1> QED
  BY <1>1, TypeCorrect, CounterCorrect, PTL DEF Spec, StartsOnlyUnblocked

------------------------------------------------------------------------------
(* The dependency graph.                                                   *)

Closed(S) == \A e \in deps : e[1] \in S => e[2] \in S

\* What is not reached from a lies outside a set closed under deps around a.
LEMMA Separated ==
  ASSUME NEW a \in Task, NEW b \in Task, ~Reaches(a, b)
  PROVE  \E S \in SUBSET Task : a \in S /\ Closed(S) /\ b \notin S
  BY DEF Reaches, Closed

\* Fewer edges reach less.
LEMMA UnlinkingReachesLess ==
  ASSUME deps' \subseteq deps, NEW a \in Task, NEW b \in Task, ~Reaches(a, b)
  PROVE  ~Reaches(a, b)'
<1>1. PICK S \in SUBSET Task : a \in S /\ Closed(S) /\ b \notin S
  BY Separated
<1>2. \A e \in deps' : e[1] \in S => e[2] \in S
  BY <1>1 DEF Closed
<1> QED
  BY <1>1, <1>2 DEF Reaches

\* An edge from t to d closes no loop when d does not reach t: around the end
\* of every old edge there is a set that the new edge does not leave.
LEMMA LinkingKeepsAcyclic ==
  ASSUME TypeOK, Acyclic, NEW t \in Task, NEW d \in Task,
         ~Reaches(d, t), deps' = deps \cup {<<t, d>>}
  PROVE  Acyclic'
<1>1. PICK D \in SUBSET Task : d \in D /\ Closed(D) /\ t \notin D
  BY Separated
<1> SUFFICES ASSUME NEW e \in deps'
             PROVE  ~Reaches(e[2], e[1])'
  BY DEF Acyclic
<1>2. CASE e = <<t, d>>
  <2>1. \A f \in deps' : f[1] \in D => f[2] \in D
    BY <1>1 DEF Closed
  <2> QED
    BY <1>1, <1>2, <2>1 DEF Reaches
<1>3. CASE e \in deps
  <2>1. e[1] \in Task /\ e[2] \in Task
    BY <1>3 DEF TypeOK
  <2>2. PICK S \in SUBSET Task : e[2] \in S /\ Closed(S) /\ e[1] \notin S
    BY <1>3, <2>1, Separated DEF Acyclic
  <2>3. CASE e[1] \in D
    <3>1. e[2] \in S \cap D /\ e[1] \notin S \cap D
      BY <1>1, <1>3, <2>2, <2>3 DEF Closed
    <3>2. \A f \in deps' : f[1] \in S \cap D => f[2] \in S \cap D
      BY <1>1, <2>2 DEF Closed
    <3> QED
      BY <3>1, <3>2 DEF Reaches
  <2>4. CASE e[1] \notin D
    <3>1. e[2] \in S \cup D /\ e[1] \notin S \cup D
      BY <2>2, <2>4
    <3>2. \A f \in deps' : f[1] \in S \cup D => f[2] \in S \cup D
      BY <1>1, <2>2 DEF Closed
    <3> QED
      BY <3>1, <3>2 DEF Reaches
  <2> QED
    BY <2>3, <2>4
<1> QED
  BY <1>2, <1>3

\* The dependency graph never has a loop, of any length and over any number of
\* tasks: asking whether the dependency reaches the dependent is enough.
THEOREM AlwaysAcyclic == Spec => []Acyclic
<1>1. Init => Acyclic
  BY DEF Init, Acyclic
<1>2. TypeOK /\ Acyclic /\ [Next]_vars => Acyclic'
  <2> SUFFICES ASSUME TypeOK, Acyclic, [Next]_vars
               PROVE  Acyclic'
    OBVIOUS
  <2>1. CASE deps' \subseteq deps
    BY <2>1, UnlinkingReachesLess DEF Acyclic, TypeOK
  <2>2. ASSUME NEW c \in Caller, NEW t \in Task, NEW d \in Task,
               AddDependency(c, t, d)
        PROVE  Acyclic'
    BY <2>2, LinkingKeepsAcyclic DEF AddDependency, FindCycle
  <2>3. CASE ~ \E c \in Caller, t, d \in Task : AddDependency(c, t, d)
    <3>1. deps' \subseteq deps
      BY <2>3, StepCases DEF table, Create, Applies, ApplyUpdate, Finishes,
         CompletePlain, CompleteAndSpawn, Trashes, RemoveDependency
    <3> QED
      BY <2>1, <3>1
  <2> QED
    BY <2>2, <2>3
<1> QED
  BY <1>1, <1>2, TypeCorrect, PTL DEF Spec

------------------------------------------------------------------------------
(* Versions.                                                               *)

Unedited(t) == version'[t] = version[t] /\ Fields(t)' = Fields(t)

EditsOne ==
  \A t \in rows : \/ Unedited(t)
                  \/ /\ version'[t] = version[t] + 1
                     /\ \A u \in rows \ {t} : Unedited(u)

\* A step edits at most one row and raises its version by one.
LEMMA VersionStep ==
  ASSUME TypeOK, [Next]_vars
  PROVE  EditsOne
<1>0. rows \subseteq Task
  BY DEF TypeOK
<1>1. ASSUME NEW t \in rows, version'[t] = version[t] + 1,
             \A u \in rows \ {t} : Unedited(u)
      PROVE  EditsOne
  BY <1>1 DEF EditsOne
<1>2. ASSUME \A t \in rows : Unedited(t)
      PROVE  EditsOne
  BY <1>2 DEF EditsOne
<1>3. CASE \/ UNCHANGED table
           \/ \E c \in Caller, t, d \in Task : AddDependency(c, t, d)
           \/ \E c \in Caller, t, d \in Task : RemoveDependency(c, t, d)
  BY <1>2, <1>3 DEF table, AddDependency, RemoveDependency, Unedited, Fields
<1>4. ASSUME NEW c \in Caller, NEW t \in Task, NEW s \in Status,
             NEW recur \in BOOLEAN, Create(c, t, s, recur)
      PROVE  EditsOne
  <2>1. \A u \in rows : u # t
    BY <1>4 DEF Create
  <2>2. \A u \in rows : Unedited(u)
    BY <1>0, <1>4, <2>1 DEF Create, TypeOK, Unedited, Fields
  <2> QED
    BY <1>2, <2>2
<1>5. ASSUME NEW c \in Caller, Applies(c)
      PROVE  EditsOne
  <2> DEFINE t == call[c].id
  <2>1. t \in Task /\ version' = [version EXCEPT ![t] = @ + 1]
    BY <1>5 DEF Applies, ApplyUpdate, BumpVersion
  <2>2. \A u \in rows \ {t} : Unedited(u)
    BY <1>0, <1>5, <2>1 DEF Applies, ApplyUpdate, TypeOK, Unedited, Fields
  <2>3. version'[t] = version[t] + 1
    BY <2>1 DEF TypeOK
  <2>4. CASE t \in rows
    BY <1>1, <2>2, <2>3, <2>4
  <2>5. CASE t \notin rows
    BY <1>2, <2>2, <2>5
  <2> QED
    BY <2>4, <2>5
<1>6. ASSUME NEW t \in Task, Finishes(t)
      PROVE  EditsOne
  <2>1. t \in rows
    BY <1>6 DEF Finishes
  <2>2. version'[t] = version[t] + 1
    BY <1>6, <2>1 DEF Finishes, CompletePlain, CompleteAndSpawn, BumpVersion, TypeOK
  <2>3. ASSUME NEW u \in rows \ {t}, NEW v \in Nat, CompletePlain(t, v)
        PROVE  Unedited(u)
    BY <1>0, <2>3 DEF CompletePlain, BumpVersion, TypeOK, Unedited, Fields
  <2>4. ASSUME NEW u \in rows \ {t}, NEW v \in Nat, NEW n \in Task,
               CompleteAndSpawn(t, v, n)
        PROVE  Unedited(u)
    <3>1. u # t /\ u # n
      BY <2>4 DEF CompleteAndSpawn, HandOver
    <3> QED
      BY <1>0, <2>4, <3>1 DEF CompleteAndSpawn, HandOver, TypeOK, Unedited, Fields
  <2>5. \A u \in rows \ {t} : Unedited(u)
    BY <1>6, <2>3, <2>4 DEF Finishes
  <2> QED
    BY <1>1, <2>1, <2>2, <2>5
<1>7. CASE Trashes
  <2>1. PICK t \in rows : /\ BumpVersion(t)
                          /\ \A u \in rows \ {t} : u \in trash' <=> u \in trash
    BY <1>7 DEF Trashes
  <2>2. version'[t] = version[t] + 1
    BY <2>1, <1>0 DEF BumpVersion, TypeOK
  <2>3. ASSUME NEW u \in rows \ {t}
        PROVE  Unedited(u)
    <3>1. version'[u] = version[u]
      BY <1>0, <2>1 DEF BumpVersion, TypeOK
    <3>2. (u \in trash)' = (u \in trash)
      BY <2>1
    <3>3. status'[u] = status[u] /\ series'[u] = series[u]
      BY <1>7 DEF Trashes
    <3> QED
      BY <3>1, <3>2, <3>3 DEF Unedited, Fields
  <2> QED
    BY <1>1, <2>1, <2>2, <2>3
<1> QED
  BY <1>3, <1>4, <1>5, <1>6, <1>7, StepCases

\* Whatever changes in a row raises its version, and nothing raises the
\* version of another: a version a client holds identifies what it read.
THEOREM VersionsTell == Spec => EditsRaiseVersion
<1>1. TypeOK /\ [Next]_vars =>
        \A t \in rows :
          \/ version'[t] = version[t] /\ Fields(t)' = Fields(t)
          \/ /\ version'[t] = version[t] + 1
             /\ \A u \in rows \ {t} :
                  version'[u] = version[u] /\ Fields(u)' = Fields(u)
  BY VersionStep DEF EditsOne, Unedited
<1> QED
  BY <1>1, TypeCorrect, PTL DEF Spec, EditsRaiseVersion

------------------------------------------------------------------------------
(* Requests in flight and the schedules they carry.                        *)

\* A schedule that no row holds and no other update in hand is about to set.
Fresh(c) ==
  /\ call[c].series # 0
  /\ \A t \in rows : series[t] # call[c].series
  /\ \A e \in Caller \ {c} :
       call[e].phase = "decided" => call[e].series # call[c].series

ReadingInv(c) ==
  LET r == call[c] IN
    /\ r.id \in rows /\ r.ver <= version[r.id]
    /\ r.ver = version[r.id] => (r.recur <=> series[r.id] # 0)

DecidedInv(c) ==
  LET r == call[c] IN
    /\ r.id \in rows /\ r.ver <= version[r.id] /\ r.series <= started
    /\ r.ver = version[r.id] =>
         /\ r.to = Completed => status[r.id] = Completed
         /\ ~r.recur => r.series = 0
         /\ r.recur /\ series[r.id] # 0 => r.series = series[r.id]
         /\ r.recur /\ series[r.id] = 0 => Fresh(c)
         /\ r.op = "archive" => r.series = series[r.id]

StaleInv(c) ==
  LET r == call[c] IN
    /\ r.id \in rows /\ r.ver <= version[r.id]
    /\ r.ver = version[r.id] => r.id \in trash

\* What a request knows of its row is true of it as long as the row has the
\* version the request carries; no schedule is numbered beyond those started.
RequestInv ==
  /\ \A t \in rows : series[t] <= started
  /\ \A c \in Caller :
       /\ call[c].phase = "reading" => ReadingInv(c)
       /\ call[c].phase = "decided" => DecidedInv(c)
       /\ call[c].phase = "stale" => StaleInv(c)
       /\ call[c].phase = "conflict" => call[c].seen > call[c].ver

\* Rows are never taken out, versions never fall, and a row whose version
\* stands has the fields it had.
LEMMA RowsEndure ==
  ASSUME TypeOK, [Next]_vars, NEW t \in rows
  PROVE  /\ t \in rows' /\ t \in Task
         /\ version[t] \in Nat /\ version'[t] \in Nat /\ version'[t] >= version[t]
         /\ version'[t] = version[t] =>
              /\ status'[t] = status[t]
              /\ series'[t] = series[t]
              /\ t \in trash <=> t \in trash'
<1>1. t \in Task /\ version[t] \in Nat
  BY DEF TypeOK
<1>2. t \in rows'
  BY StepCases DEF table, Create, Applies, ApplyUpdate, Finishes, CompletePlain,
     CompleteAndSpawn, Trashes, AddDependency, RemoveDependency
<1>3. Unedited(t) \/ version'[t] = version[t] + 1
  BY VersionStep DEF EditsOne
<1> QED
  BY <1>1, <1>2, <1>3 DEF Unedited, Fields

\* A request whose read is not disturbed: what it knows stays true.
LEMMA RequestKept ==
  ASSUME TypeOK, RequestInv, [Next]_vars, NEW c \in Caller, call'[c] = call[c],
         started' \in Nat, started' >= started,
         call[c].phase = "decided" /\ Fresh(c) => Fresh(c)'
  PROVE  /\ call'[c].phase = "reading" => ReadingInv(c)'
         /\ call'[c].phase = "decided" => DecidedInv(c)'
         /\ call'[c].phase = "stale" => StaleInv(c)'
         /\ call'[c].phase = "conflict" => call'[c].seen > call'[c].ver
<1>1. CASE call[c].phase = "reading"
  <2>1. call[c].ver \in Nat
    BY <1>1, CallFields
  <2>2. ReadingInv(c)
    BY <1>1 DEF RequestInv
  <2> QED
    BY <1>1, <2>1, <2>2, RowsEndure DEF ReadingInv
<1>2. CASE call[c].phase = "decided"
  <2>1. call[c].ver \in Nat /\ call[c].series \in Nat /\ started \in Nat
    BY <1>2, CallFields DEF TypeOK
  <2>2. DecidedInv(c)
    BY <1>2 DEF RequestInv
  <2>3. call[c].id \in rows' /\ call[c].ver <= version'[call[c].id]
    BY <2>1, <2>2, RowsEndure DEF DecidedInv
  <2>4. call[c].series <= started'
    BY <2>1, <2>2 DEF DecidedInv
  <2>5. call[c].ver = version'[call[c].id] =>
          /\ call[c].ver = version[call[c].id]
          /\ status'[call[c].id] = status[call[c].id]
          /\ series'[call[c].id] = series[call[c].id]
    BY <2>1, <2>2, RowsEndure DEF DecidedInv
  <2> QED
    BY <1>2, <2>2, <2>3, <2>4, <2>5 DEF DecidedInv
<1>3. CASE call[c].phase = "stale"
  <2>1. call[c].ver \in Nat
    BY <1>3, CallFields
  <2>2. StaleInv(c)
    BY <1>3 DEF RequestInv
  <2> QED
    BY <1>3, <2>1, <2>2, RowsEndure DEF StaleInv
<1>4. CASE call[c].phase = "conflict"
  BY <1>4 DEF RequestInv
<1> QED
  BY <1>1, <1>2, <1>3, <1>4

\* A schedule a step may write or an update may take up without reusing one
\* that another update in hand is about to set.
Usual(x) == x = 0 \/ x = started + 1 \/ \E u \in rows : series[u] = x

\* Freshness survives what the other callers do.
LEMMA FreshKept ==
  ASSUME TypeOK, RequestInv, NEW c \in Caller, NEW e \in Caller,
         call[c].phase = "decided", Fresh(c), call'[c] = call[c],
         \A b \in Caller \ {e} : call'[b] = call[b],
         call'[e] = call[e] \/ (call'[e].phase = "decided" => Usual(call'[e].series)),
         \A t \in rows' : \/ Usual(series'[t])
                          \/ /\ e # c /\ call[e].phase = "decided"
                             /\ series'[t] = call[e].series
  PROVE  Fresh(c)'
<1>1. call[c].series \in Nat /\ call[c].series <= started /\ started \in Nat
  BY CallFields DEF RequestInv, DecidedInv, TypeOK
<1>2. ~Usual(call[c].series)
  BY <1>1 DEF Usual, Fresh
<1>3. \A t \in rows' : series'[t] # call[c].series
  BY <1>2 DEF Fresh
<1>4. ASSUME NEW b \in Caller \ {c}, call'[b].phase = "decided"
      PROVE  call'[b].series # call[c].series
  BY <1>2, <1>4 DEF Fresh
<1> QED
  BY <1>1, <1>3, <1>4 DEF Fresh

\* A step of one caller keeps RequestInv if that caller's part of it holds.
LEMMA OneCaller ==
  ASSUME TypeOK, RequestInv, [Next]_vars, NEW e \in Caller,
         started' \in Nat, started' >= started,
         \A t \in rows' : series'[t] <= started',
         \A b \in Caller \ {e} : call'[b] = call[b],
         \A t \in rows' : \/ Usual(series'[t])
                          \/ /\ call[e].phase = "decided"
                             /\ series'[t] = call[e].series
                             /\ call'[e] = Idle,
         \/ call'[e] = call[e]
         \/ /\ call'[e].phase = "reading" => ReadingInv(e)'
            /\ call'[e].phase = "decided" => DecidedInv(e)' /\ Usual(call'[e].series)
            /\ call'[e].phase = "stale" => StaleInv(e)'
            /\ call'[e].phase = "conflict" => call'[e].seen > call'[e].ver
  PROVE  RequestInv'
<1>1. ASSUME NEW c \in Caller, call'[c] = call[c], call[c].phase = "decided", Fresh(c)
      PROVE  Fresh(c)'
  <2>1. Idle.phase = "idle"
    BY DEF Idle
  <2>2. e = c => \A t \in rows' : Usual(series'[t])
    BY <1>1, <2>1
  <2> QED
    BY <1>1, <2>2, FreshKept
<1>2. ASSUME NEW c \in Caller, call'[c] = call[c]
      PROVE  /\ call'[c].phase = "reading" => ReadingInv(c)'
             /\ call'[c].phase = "decided" => DecidedInv(c)'
             /\ call'[c].phase = "stale" => StaleInv(c)'
             /\ call'[c].phase = "conflict" => call'[c].seen > call'[c].ver
  <2>1. call[c].phase = "decided" /\ Fresh(c) => Fresh(c)'
    BY <1>1, <1>2
  <2> QED
    BY <1>2, <2>1, RequestKept
<1>3. ASSUME NEW c \in Caller
      PROVE  /\ call'[c].phase = "reading" => ReadingInv(c)'
             /\ call'[c].phase = "decided" => DecidedInv(c)'
             /\ call'[c].phase = "stale" => StaleInv(c)'
             /\ call'[c].phase = "conflict" => call'[c].seen > call'[c].ver
  BY <1>2
<1> QED
  BY <1>3 DEF RequestInv

\* A write that matched no row: either the row is newer or it is in the trash.
LEMMA StaleStep ==
  ASSUME TypeOK, RequestInv, [Next]_vars, NEW c \in Caller, NEW t \in rows,
         NEW v \in Nat, v <= version[t], ~Matches(t, v), GoStale(c, t, v)
  PROVE  RequestInv'
<1>1. call'[c] = [phase |-> "stale", id |-> t, ver |-> v]
  BY DEF GoStale, TypeOK
<1>2. /\ UNCHANGED <<rows, series, started, version, trash>>
      /\ \A b \in Caller \ {c} : call'[b] = call[b]
  BY DEF GoStale, TypeOK
<1>3. StaleInv(c)'
  BY <1>1, <1>2 DEF StaleInv, Matches
<1>4. \A u \in rows' : Usual(series'[u]) /\ series'[u] <= started'
  BY <1>2 DEF Usual, RequestInv
<1>5. started' \in Nat /\ started' >= started
  BY <1>2 DEF TypeOK
<1> QED
  BY <1>1, <1>2, <1>3, <1>4, <1>5, OneCaller

\* A request that ends without having written anything.
LEMMA AnswerStep ==
  ASSUME TypeOK, RequestInv, [Next]_vars, NEW c \in Caller, Answer(c),
         UNCHANGED <<table, started>>
  PROVE  RequestInv'
<1>1. call'[c] = Idle /\ \A b \in Caller \ {c} : call'[b] = call[b]
  BY DEF Answer, TypeOK
<1>2. \A u \in rows' : Usual(series'[u]) /\ series'[u] <= started'
  BY DEF Usual, RequestInv, table
<1>3. started' \in Nat /\ started' >= started
  BY DEF TypeOK
<1> QED
  BY <1>1, <1>2, <1>3, OneCaller DEF Idle

\* A write during which no caller moves on, and which puts no schedule on a
\* row but one that is held or new.
LEMMA WriteStep ==
  ASSUME TypeOK, RequestInv, [Next]_vars, NEW c \in Caller, UNCHANGED call,
         started' \in {started, started + 1},
         \A t \in rows' : \/ series'[t] = 0
                          \/ series'[t] = started + 1 /\ started' = started + 1
                          \/ \E u \in rows : series'[t] = series[u]
  PROVE  RequestInv'
<1>1. started \in Nat /\ started' \in Nat /\ started' >= started
  BY DEF TypeOK
<1>2. \A u \in rows : series[u] \in Nat /\ series[u] <= started
  BY DEF TypeOK, RequestInv
<1>3. \A t \in rows' : Usual(series'[t])
  BY DEF Usual
<1>4. \A t \in rows' : series'[t] <= started'
  BY <1>1, <1>2
<1> QED
  BY <1>1, <1>3, <1>4, OneCaller

\* The read of an update: what is decided is decided on the row as it is.
LEMMA ReadStep ==
  ASSUME TypeOK, RequestInv, [Next]_vars, NEW c \in Caller,
         NEW op \in {"update", "archive"}, NEW t \in Live, NEW v \in Nat,
         NEW s \in Status, NEW recur \in BOOLEAN,
         v <= version[t],
         op = "archive" =>
           s = Archived /\ (v = version[t] => (recur <=> series[t] # 0)),
         ReadForUpdate(c, op, t, v, s, recur)
  PROVE  RequestInv'
<1> DEFINE sets == recur /\ series[t] = 0
           keep == ScheduleFor(t, recur)
<1>1. /\ call'[c] = [phase |-> "decided", op |-> op, id |-> t, ver |-> v,
                     to |-> s, recur |-> recur, series |-> keep]
      /\ \A b \in Caller \ {c} : call'[b] = call[b]
  BY DEF ReadForUpdate, TypeOK
<1>2. /\ UNCHANGED <<rows, status, version, series, trash>>
      /\ started' = IF sets THEN started + 1 ELSE started
      /\ s = Completed => status[t] = Completed
  BY DEF ReadForUpdate, table
<1>3. started \in Nat /\ started' \in Nat /\ started' >= started /\ t \in rows
  BY <1>2 DEF TypeOK, Live
<1>4. \A u \in rows : series[u] \in Nat /\ series[u] <= started
  BY DEF TypeOK, RequestInv
<1>5. Usual(keep) /\ keep \in Nat /\ keep <= started'
  BY <1>2, <1>3, <1>4 DEF Usual, ScheduleFor
<1>6. sets => Fresh(c)'
  <2> SUFFICES ASSUME sets
               PROVE  Fresh(c)'
    OBVIOUS
  <2>1. call'[c].series = started + 1
    BY <1>1 DEF ScheduleFor
  <2>2. \A u \in rows' : series'[u] # started + 1
    BY <1>2, <1>3, <1>4
  <2>3. \A e \in Caller \ {c} :
          call'[e].phase = "decided" => call'[e].series # started + 1
    BY <1>1, <1>3, CallFields DEF RequestInv, DecidedInv
  <2> QED
    BY <1>3, <2>1, <2>2, <2>3 DEF Fresh
<1>7. DecidedInv(c)'
  BY <1>1, <1>2, <1>3, <1>4, <1>5, <1>6 DEF DecidedInv, ScheduleFor
<1>8. \A u \in rows' : Usual(series'[u]) /\ series'[u] <= started'
  BY <1>2, <1>3, <1>4 DEF Usual
<1>9. /\ call'[c].phase = "decided"
      /\ Usual(call'[c].series)
  BY <1>1, <1>5
<1> HIDE DEF sets, keep
<1> QED
  BY <1>1, <1>3, <1>7, <1>8, <1>9, OneCaller

\* The first read of an archive.
LEMMA BeginArchiveStep ==
  ASSUME TypeOK, RequestInv, [Next]_vars, NEW c \in Caller, NEW t \in rows,
         NEW v \in Nat, v <= version[t], BeginArchive(c, t, v)
  PROVE  RequestInv'
<1>1. /\ call'[c] = [phase |-> "reading", id |-> t, ver |-> v, recur |-> series[t] # 0]
      /\ \A b \in Caller \ {c} : call'[b] = call[b]
      /\ UNCHANGED <<table, started>>
  BY DEF BeginArchive, TypeOK
<1>2. ReadingInv(c)'
  <2> DEFINE b == series[t] # 0
  <2>1. call'[c].id = t /\ call'[c].ver = v /\ (call'[c].recur <=> series[t] # 0)
    <3>1. call'[c] = [phase |-> "reading", id |-> t, ver |-> v, recur |-> b]
      BY <1>1
    <3> HIDE DEF b
    <3>2. call'[c].id = t /\ call'[c].ver = v /\ call'[c].recur = b
      BY <3>1
    <3> QED
      BY <3>2 DEF b
  <2>2. t \in rows' /\ version'[t] = version[t] /\ series'[t] = series[t]
    BY <1>1 DEF table
  <2> QED
    BY <2>1, <2>2 DEF ReadingInv
<1>3. \A u \in rows' : Usual(series'[u]) /\ series'[u] <= started'
  BY <1>1 DEF Usual, RequestInv, table
<1>4. started' \in Nat /\ started' >= started
  BY <1>1 DEF TypeOK
<1> QED
  BY <1>1, <1>2, <1>3, <1>4, OneCaller

\* The schedule an update writes is the one it decided on.
LEMMA ApplyStep ==
  ASSUME TypeOK, RequestInv, [Next]_vars, NEW c \in Caller,
         call[c].phase = "decided", Applies(c), Answer(c)
  PROVE  RequestInv'
<1>1. call'[c] = Idle /\ \A b \in Caller \ {c} : call'[b] = call[b]
  BY DEF Answer, TypeOK
<1>2. /\ rows' = rows /\ started' = started /\ started \in Nat
      /\ series' = [series EXCEPT ![call[c].id] = call[c].series]
  BY DEF Applies, ApplyUpdate, TypeOK
<1>3. DecidedInv(c)
  BY DEF RequestInv
<1>4. \A t \in rows' : \/ series'[t] = series[t] /\ t \in rows
                       \/ series'[t] = call[c].series
  BY <1>2 DEF TypeOK
<1>5. \A t \in rows' : series'[t] <= started'
  BY <1>2, <1>3, <1>4 DEF DecidedInv, RequestInv
<1> QED
  BY <1>1, <1>2, <1>4, <1>5, OneCaller DEF Usual, Idle

\* The second read of a stale write.
LEMMA RereadStep ==
  ASSUME TypeOK, RequestInv, [Next]_vars, NEW c \in Caller, Reread(c)
  PROVE  RequestInv'
<1> DEFINE r == call[c]
<1>1. \A b \in Caller \ {c} : call'[b] = call[b]
  BY DEF Reread, TypeOK
<1>2. UNCHANGED <<table, started>>
  BY DEF Reread
<1>3. call[c].phase = "stale" /\ StaleInv(c) /\ r.ver \in Nat
  BY CallFields DEF Reread, RequestInv
<1>4. CASE r.id \in Live
  <2>1. call'[c] = [phase |-> "conflict", id |-> r.id, ver |-> r.ver, seen |-> version[r.id]]
    BY <1>4 DEF Reread, TypeOK
  <2>2. version[r.id] > r.ver
    BY <1>3, <1>4 DEF StaleInv, Live, TypeOK
  <2>3. \A u \in rows' : Usual(series'[u]) /\ series'[u] <= started'
    BY <1>2 DEF Usual, RequestInv, table
  <2>4. started' \in Nat /\ started' >= started
    BY <1>2 DEF TypeOK
  <2> QED
    BY <1>1, <2>1, <2>2, <2>3, <2>4, OneCaller
<1>5. CASE r.id \notin Live
  BY <1>2, <1>5, AnswerStep DEF Reread, Answer
<1> QED
  BY <1>4, <1>5

LEMMA RequestStep ==
  ASSUME TypeOK, RequestInv, [Next]_vars
  PROVE  RequestInv'
<1>1. CASE UNCHANGED vars
  BY <1>1 DEF vars, RequestInv, ReadingInv, DecidedInv, StaleInv, Fresh
<1>2. ASSUME NEW t \in Task, NEW v \in Readable(t)
      PROVE  v \in Nat /\ v <= version[t] /\ version[t] \in Nat
  BY <1>2 DEF Readable, TypeOK
<1>3. ASSUME NEW c \in Caller, NEW t \in Task, NEW s \in Status,
             NEW recur \in BOOLEAN, Create(c, t, s, recur)
      PROVE  RequestInv'
  <2>1. \A u \in rows : u # t
    BY <1>3 DEF Create
  <2>2. \A u \in rows' : \/ series'[u] = 0
                         \/ series'[u] = started + 1 /\ started' = started + 1
                         \/ u \in rows /\ series'[u] = series[u]
    BY <1>3, <2>1 DEF Create, TypeOK
  <2>3. UNCHANGED call /\ started' \in {started, started + 1}
    BY <1>3 DEF Create
  <2> QED
    BY <2>2, <2>3, WriteStep
<1>4. ASSUME NEW c \in Caller, NEW t \in Task, NEW s \in Status, NEW recur \in BOOLEAN,
             NEW v \in Readable(t), BeginUpdate(c, t, v, s, recur)
      PROVE  RequestInv'
  BY <1>2, <1>4, ReadStep DEF BeginUpdate, ReadForUpdate
<1>5. ASSUME NEW c \in Caller, NEW t \in Task, NEW v \in Readable(t),
             BeginArchive(c, t, v)
      PROVE  RequestInv'
  BY <1>2, <1>5, BeginArchiveStep DEF BeginArchive, Live
<1>6. ASSUME NEW c \in Caller, NEW t \in Task, NEW v \in Readable(t),
             Complete(c, t, v)
      PROVE  RequestInv'
  <2>1. t \in rows
    BY <1>6 DEF Complete
  <2>2. CASE CompletePlain(t, v)
    <3>1. UNCHANGED <<call, started, series, rows>>
      BY <2>2 DEF CompletePlain
    <3> QED
      BY <3>1, WriteStep
  <2>3. ASSUME NEW n \in Task, CompleteAndSpawn(t, v, n)
        PROVE  RequestInv'
    <3>1. UNCHANGED <<call, started>>
      BY <2>3 DEF CompleteAndSpawn
    <3>2. \A u \in rows' : \/ series'[u] = 0
                           \/ series'[u] = series[t]
                           \/ u \in rows /\ series'[u] = series[u]
      BY <2>3 DEF CompleteAndSpawn, HandOver, TypeOK
    <3> QED
      BY <2>1, <3>1, <3>2, WriteStep
  <2>4. CASE ~MatchesVersion(t, v) /\ GoStale(c, t, v)
    BY <1>2, <2>1, <2>4, StaleStep DEF Matches, MatchesVersion
  <2> QED
    BY <1>6, <2>2, <2>3, <2>4 DEF Complete
<1>7. ASSUME NEW c \in Caller, NEW t \in Task, NEW v \in Readable(t),
             Delete(c, t, v)
      PROVE  RequestInv'
  <2>1. CASE ~Matches(t, v) /\ GoStale(c, t, v)
    BY <1>2, <1>7, <2>1, StaleStep DEF Delete
  <2>2. CASE UNCHANGED <<call, started, series, rows>>
    BY <2>2, WriteStep
  <2> QED
    BY <1>7, <2>1, <2>2 DEF Delete
<1>8. ASSUME NEW c \in Caller,
             \/ \E t \in Task : Restore(c, t)
             \/ \E e \in Linkable :
                  AddDependency(c, e[1], e[2]) \/ RemoveDependency(c, e[1], e[2])
      PROVE  RequestInv'
  <2>1. UNCHANGED <<call, started, series, rows>>
    BY <1>8 DEF Restore, AddDependency, RemoveDependency
  <2> QED
    BY <2>1, WriteStep
<1>9. ASSUME NEW c \in Caller, ContinueArchive(c)
      PROVE  RequestInv'
  <2> DEFINE r == call[c]
  <2>1. /\ r.id \in Task /\ r.ver \in Nat /\ r.recur \in BOOLEAN /\ ReadingInv(c)
    BY <1>9, CallFields DEF ContinueArchive, RequestInv
  <2>2. CASE ReadForUpdate(c, "archive", r.id, r.ver, Archived, r.recur)
    <3>1. r.id \in Live /\ Archived \in Status
      BY <2>2 DEF ReadForUpdate, Status
    <3> QED
      BY <2>1, <2>2, <3>1, ReadStep DEF ReadingInv
  <2> QED
    BY <1>9, <2>2, AnswerStep DEF ContinueArchive
<1>10. ASSUME NEW c \in Caller, CommitUpdate(c)
       PROVE  RequestInv'
  <2> DEFINE r == call[c]
  <2>1. call[c] \in [phase : {"decided"}, op : {"update", "archive"}, id : Task,
                     ver : Nat, to : Status, recur : BOOLEAN, series : Nat]
    BY <1>10, CallFields DEF CommitUpdate
  <2>2. DecidedInv(c) /\ r.phase = "decided"
    BY <2>1 DEF RequestInv
  <2>3. CASE Answer(c) /\ UNCHANGED <<table, started>>
    BY <2>3, AnswerStep
  <2>4. CASE ~Matches(r.id, r.ver) /\ GoStale(c, r.id, r.ver)
    BY <2>1, <2>2, <2>4, StaleStep DEF DecidedInv
  <2>5. CASE /\ CanTransition(status[r.id], r.to, unmet[r.id]) = "ok"
             /\ Matches(r.id, r.ver)
             /\ ApplyUpdate(r.id, r.to, r.series)
             /\ Answer(c)
    BY <2>1, <2>2, <2>5, ApplyStep DEF Applies
  <2> QED
    BY <1>10, <2>3, <2>4, <2>5 DEF CommitUpdate
<1>11. ASSUME NEW c \in Caller, AnswerConflict(c)
       PROVE  RequestInv'
  BY <1>11, AnswerStep DEF AnswerConflict
<1> QED
  BY <1>1, <1>3, <1>4, <1>5, <1>6, <1>7, <1>8, <1>9, <1>10, <1>11, RereadStep
     DEF Next, Request, Continue

\* Every request in flight knows what is still so, or will be refused.
THEOREM RequestsSound == Spec => []RequestInv
<1>1. Init => RequestInv
  BY DEF Init, RequestInv, Idle
<1>2. TypeOK /\ RequestInv /\ [Next]_vars => RequestInv'
  BY RequestStep
<1> QED
  BY <1>1, <1>2, TypeCorrect, PTL DEF Spec

\* A read made before a transaction is as good as one made inside it, because
\* the version is compared when the row is written.
THEOREM DecisionsSound == Spec => []DecidedOnCurrentRow
<1>1. TypeOK /\ RequestInv => DecidedOnCurrentRow
  <2> SUFFICES ASSUME TypeOK, RequestInv, NEW c \in Caller,
                      call[c].phase = "decided", Matches(call[c].id, call[c].ver)
               PROVE  LET r == call[c] IN
                        /\ r.to = Completed => status[r.id] = Completed
                        /\ r.recur /\ series[r.id] # 0 => r.series = series[r.id]
                        /\ r.recur /\ series[r.id] = 0 => r.series \notin Held
                        /\ r.op = "archive" => r.series = series[r.id]
    BY DEF DecidedOnCurrentRow
  <2>1. DecidedInv(c)
    BY DEF RequestInv
  <2>2. Fresh(c) => call[c].series \notin Held
    BY DEF Fresh, Held
  <2> QED
    BY <2>1, <2>2 DEF DecidedInv, Matches
<1> QED
  BY <1>1, TypeCorrect, RequestsSound, PTL

\* The row a conflict carries is newer than the one the client wrote from.
THEOREM ConflictsHelp == Spec => []ConflictIsNewer
<1>1. RequestInv => ConflictIsNewer
  BY DEF RequestInv, ConflictIsNewer
<1> QED
  BY <1>1, RequestsSound, PTL

\* No schedule is ever on two rows: a series has one open end.
THEOREM OneOpenOccurrence == Spec => []SeriesNeverForks
<1>1. Init => SeriesNeverForks
  BY DEF Init, SeriesNeverForks
<1>2. TypeOK /\ RequestInv /\ SeriesNeverForks /\ [Next]_vars => SeriesNeverForks'
  <2> SUFFICES ASSUME TypeOK, RequestInv, SeriesNeverForks, [Next]_vars
               PROVE  SeriesNeverForks'
    OBVIOUS
  <2>0. /\ started \in Nat /\ rows \subseteq Task
        /\ \A t \in rows : series[t] \in Nat /\ series[t] <= started
    BY DEF TypeOK, RequestInv
  <2>1. CASE rows' = rows /\ series' = series
    BY <2>1 DEF SeriesNeverForks
  <2>2. ASSUME NEW c \in Caller, NEW t \in Task, NEW s \in Status,
               NEW recur \in BOOLEAN, Create(c, t, s, recur)
        PROVE  SeriesNeverForks'
    <3>1. \A u \in rows : u # t /\ series'[u] = series[u]
      BY <2>0, <2>2 DEF Create, TypeOK
    <3>2. series'[t] \in {0, started + 1} /\ rows' = rows \cup {t}
      BY <2>2 DEF Create, TypeOK
    <3>3. \A u \in rows : series'[u] # started + 1
      BY <2>0, <3>1
    <3> QED
      BY <3>1, <3>2, <3>3 DEF SeriesNeverForks
  <2>3. ASSUME NEW c \in Caller, call[c].phase = "decided", Applies(c)
        PROVE  SeriesNeverForks'
    <3> DEFINE r == call[c]
    <3>1. /\ rows' = rows /\ r.id \in Task
          /\ series' = [series EXCEPT ![r.id] = r.series]
      BY <2>3 DEF Applies, ApplyUpdate
    <3>2. r.series = 0 \/ r.series = series[r.id] \/ \A u \in rows : series[u] # r.series
      BY <2>3 DEF RequestInv, DecidedInv, Applies, Matches, Fresh
    <3>3. r.id \in rows
      BY <2>3 DEF RequestInv, DecidedInv
    <3> QED
      BY <2>0, <3>1, <3>2, <3>3 DEF SeriesNeverForks, TypeOK
  <2>4. ASSUME NEW t \in Task, NEW v \in Nat, NEW n \in Task, t \in rows,
               CompleteAndSpawn(t, v, n)
        PROVE  SeriesNeverForks'
    <3>1. /\ rows' = rows \cup {n} /\ n \notin rows
          /\ series' = [series EXCEPT ![t] = 0, ![n] = series[t]]
      BY <2>4 DEF CompleteAndSpawn, HandOver
    <3>2. /\ series'[t] = 0 /\ series'[n] = series[t]
          /\ \A u \in rows \ {t} : series'[u] = series[u]
      BY <2>0, <2>4, <3>1 DEF TypeOK
    <3> QED
      BY <2>4, <3>1, <3>2 DEF SeriesNeverForks
  <2> QED
    BY <2>1, <2>2, <2>3, <2>4, StepCases DEF table, Finishes, CompletePlain,
       Trashes, AddDependency, RemoveDependency
<1> QED
  BY <1>1, <1>2, TypeCorrect, RequestsSound, PTL DEF Spec
==============================================================================
