------------------------------ MODULE TaskStore ------------------------------
(***************************************************************************)
(* The task store as its callers see it when every transaction takes       *)
(* effect at one instant: the todos and todo_dependencies tables, the      *)
(* history in todo_events, and the requests of the service layer.          *)
(*                                                                         *)
(* A request is not one instant.  An update reads the live row in a        *)
(* statement of its own before its transaction, a bulk archive reads it    *)
(* twice, and a refused write reads the row again to answer with it: each  *)
(* of these is a step, and other requests run in between.  What overlaps   *)
(* INSIDE a transaction is the subject of module TaskTx.                   *)
(***************************************************************************)
EXTENDS TaskRules, FiniteSets

CONSTANTS
  Task,        \* row ids; an id is used by at most one row
  Caller,      \* requests the API serves at the same time
  Linkable,    \* the pairs <<todo, dependsOn>> callers ask to link
  MaxVersion,  \* bound: no write takes a row past this version
  MaxSeries    \* bound: how many schedules callers ever set

ASSUME BoundsAreNat ==
  /\ MaxVersion \in Nat
  /\ MaxSeries \in Nat

ASSUME LinkableArePairs == Linkable \subseteq Task \X Task

VARIABLES
  rows,      \* the ids inserted so far; soft delete keeps the row
  status,    \* todos.status
  version,   \* todos.version
  trash,     \* the rows with deleted_at set
  unmet,     \* todos.unmet_deps_count
  series,    \* the schedule a row carries (recur_*), 0 for none
  started,   \* how many schedules have been set from nothing
  deps,      \* todo_dependencies, as pairs <<todo, dependsOn>>
  history,   \* what replaying a row's todo_events tells about it
  call       \* the request each caller has in hand

vars == <<rows, status, version, trash, unmet, series, started, deps, history,
          call>>
table == <<rows, status, version, trash, unmet, series, deps, history>>

\* A replayed history: the status the last status event moved to ("unknown"
\* before the first, the created event does not say), whether the last of
\* deleted and restored was deleted, the dependencies added and not removed.
History ==
  [told : Status \cup {"unknown"}, deleted : BOOLEAN, waitsFor : SUBSET Task]
NoHistory == [told |-> "unknown", deleted |-> FALSE, waitsFor |-> {}]

Idle == [phase |-> "idle"]

\* reading:  BulkArchive has the live row, Update has not read it yet
\* decided:  Update has read the live row, its transaction is next
\* stale:    a guarded write matched no row, conflictOrNotFound is next
\* conflict: the ConflictError carries the row at version seen
Call ==
  {Idle}
  \cup [phase : {"reading"}, id : Task, ver : Nat, recur : BOOLEAN]
  \cup [phase : {"decided"}, op : {"update", "archive"}, id : Task, ver : Nat,
        to : Status, recur : BOOLEAN, series : Nat]
  \cup [phase : {"stale"}, id : Task, ver : Nat]
  \cup [phase : {"conflict"}, id : Task, ver : Nat, seen : Nat]

TypeOK ==
  /\ rows \subseteq Task
  /\ IsFiniteSet(rows)
  /\ status \in [Task -> Status]
  /\ version \in [Task -> Nat]
  /\ trash \subseteq rows
  /\ unmet \in [Task -> Nat]
  /\ series \in [Task -> Nat]
  /\ started \in Nat
  /\ deps \subseteq rows \X rows
  /\ history \in [Task -> History]
  /\ call \in [Caller -> Call]

Init ==
  /\ rows = {}
  /\ status = [t \in Task |-> NotStarted]
  /\ version = [t \in Task |-> 0]
  /\ trash = {}
  /\ unmet = [t \in Task |-> 0]
  /\ series = [t \in Task |-> 0]
  /\ started = 0
  /\ deps = {}
  /\ history = [t \in Task |-> NoHistory]
  /\ call = [c \in Caller |-> Idle]

------------------------------------------------------------------------------
(* What the statements of a transaction do.                                *)

Live == rows \ trash

\* Everything reached from a by following dependencies, a itself included: b
\* is in every set that holds a and is closed under deps.
Reaches(a, b) ==
  \A S \in SUBSET Task :
    (a \in S /\ \A e \in deps : e[1] \in S => e[2] \in S) => b \in S

\* Mutant: a loop is looked for over one edge only.
FindDirectCycle(t, d) == <<d, t>> \in deps

\* The findCycle query walks from the proposed dependency over all paths that
\* revisit no task and reports a path that ends in the dependent.
FindCycle(t, d) == Reaches(d, t)

WaitingOn(t) == {x \in Task : <<x, t>> \in deps}

BumpForNewEdge(t, d) ==
  IF status[d] # Completed THEN [unmet EXCEPT ![t] = @ + 1] ELSE unmet

\* Mutant: the count drops with the edge, finished or not.
DropForAnyRemovedEdge(t, d) == [unmet EXCEPT ![t] = @ - 1]

DropForRemovedEdge(t, d) ==
  IF unmet[t] > 0 /\ status[d] # Completed
  THEN [unmet EXCEPT ![t] = @ - 1] ELSE unmet

DropForCompleted(t) ==
  [x \in Task |-> IF x \in WaitingOn(t) /\ unmet[x] > 0
                  THEN unmet[x] - 1 ELSE unmet[x]]

BumpForReopened(t) ==
  [x \in Task |-> IF x \in WaitingOn(t) THEN unmet[x] + 1 ELSE unmet[x]]

\* Mutant: a task that leaves Completed does not block its dependents again.
AdjustOnCompletion(t, was, now) ==
  IF was # Completed /\ now = Completed THEN DropForCompleted(t) ELSE unmet

\* The counters of the tasks that wait on t after t moves from was to now.
AdjustDependents(t, was, now) ==
  IF was # Completed /\ now = Completed THEN DropForCompleted(t)
  ELSE IF was = Completed /\ now # Completed THEN BumpForReopened(t)
  ELSE unmet

\* A version a client can hold of t: one that t has had.  Clients at the last
\* modelled version send nothing, which bounds the run and refuses no write.
Readable(t) == {v \in 1..version[t] : v < MaxVersion}

\* Mutant: the last write wins.
MatchesLive(t, v) == t \notin trash

\* UPDATE ... WHERE version = $2 AND deleted_at IS NULL matches the row.
Matches(t, v) == version[t] = v /\ t \notin trash

\* UPDATE ... WHERE version = $2: markCompleted does not look at deleted_at.
MatchesVersion(t, v) == version[t] = v

\* Mutant: a write leaves the version alone.
KeepVersion(t) == UNCHANGED version

\* Mutant: the dependents, whose counters may move, get a new version too.
BumpWithDependents(t) ==
  version' = [x \in Task |-> IF x = t \/ x \in WaitingOn(t)
                             THEN version[x] + 1 ELSE version[x]]

BumpVersion(t) == version' = [version EXCEPT ![t] = @ + 1]

\* Mutant: the event names the status the row came from.
RecordFrom(t, to) == [history EXCEPT ![t].told = status[t]]

\* A status_changed or completed event.
RecordStatus(t, to) == [history EXCEPT ![t].told = to]

\* Mutant: every edit of a repeating task starts the schedule anew.
NewSchedule(t, recur) == IF recur THEN started + 1 ELSE 0

\* The schedule an update writes: none, the row's own, or one set from nothing.
ScheduleFor(t, recur) ==
  IF ~recur THEN 0 ELSE IF series[t] = 0 THEN started + 1 ELSE series[t]

\* Mutant: the next occurrence is opened without the schedule.
EndSchedule(t, n) == series' = [series EXCEPT ![t] = 0]

\* Mutant: the finished row keeps its copy of the schedule.
CopySchedule(t, n) == series' = [series EXCEPT ![n] = series[t]]

\* insertOccurrence and handOverSchedule: the schedule moves from t to n.
HandOver(t, n) == series' = [series EXCEPT ![t] = 0, ![n] = series[t]]

Answer(c) == call' = [call EXCEPT ![c] = Idle]

GoStale(c, t, v) ==
  /\ call' = [call EXCEPT ![c] = [phase |-> "stale", id |-> t, ver |-> v]]
  /\ UNCHANGED <<rows, status, version, trash, unmet, series, started, deps,
                 history>>

------------------------------------------------------------------------------
(* Requests.                                                               *)

\* POST /todos.  Any status is accepted, and a schedule may come with it.
Create(c, t, s, recur) ==
  /\ call[c] = Idle
  /\ t \notin rows
  /\ recur => started < MaxSeries
  /\ rows' = rows \cup {t}
  /\ status' = [status EXCEPT ![t] = s]
  /\ version' = [version EXCEPT ![t] = 1]
  /\ started' = IF recur THEN started + 1 ELSE started
  /\ series' = [series EXCEPT ![t] = IF recur THEN started + 1 ELSE 0]
  /\ UNCHANGED <<trash, unmet, deps, history, call>>

\* Service.Update up to its transaction: the live row is read, completing by
\* this route is refused, and the anchor is carried, dropped or set.
ReadForUpdate(c, op, t, v, s, recur) ==
  /\ t \in Live
  /\ s = Completed => status[t] = Completed
  /\ started' = IF recur /\ series[t] = 0 THEN started + 1 ELSE started
  /\ call' = [call EXCEPT ![c] =
                [phase |-> "decided", op |-> op, id |-> t, ver |-> v, to |-> s,
                 recur |-> recur, series |-> ScheduleFor(t, recur)]]
  /\ UNCHANGED table

\* PUT /todos/{id}: the status and the schedule are the client's.
BeginUpdate(c, t, v, s, recur) ==
  /\ call[c] = Idle
  /\ v \in Readable(t)
  /\ recur /\ series[t] = 0 => started < MaxSeries
  /\ ReadForUpdate(c, "update", t, v, s, recur)

\* One item of POST /todos/bulk, action archive: a read of the live row ...
BeginArchive(c, t, v) ==
  /\ call[c] = Idle
  /\ t \in Live
  /\ v \in Readable(t)
  /\ call' = [call EXCEPT ![c] = [phase |-> "reading", id |-> t, ver |-> v,
                                  recur |-> series[t] # 0]]
  /\ UNCHANGED <<table, started>>

\* ... and then the ordinary update, with the fields of that read.
ContinueArchive(c) ==
  /\ call[c].phase = "reading"
  /\ LET r == call[c] IN
       \/ ReadForUpdate(c, "archive", r.id, r.ver, Archived, r.recur)
       \/ /\ r.id \notin Live
          /\ Answer(c)
          /\ UNCHANGED <<table, started>>

\* What UpdateTodo writes.
ApplyUpdate(t, to, schedule) ==
  /\ status' = [status EXCEPT ![t] = to]
  /\ BumpVersion(t)
  /\ series' = [series EXCEPT ![t] = schedule]
  /\ unmet' = AdjustDependents(t, status[t], to)
  /\ history' = IF status[t] = to THEN history
                ELSE RecordStatus(t, to)
  /\ UNCHANGED <<rows, trash, started, deps>>

\* The transaction of UpdateTodo: refused, stale, or applied.
CommitUpdate(c) ==
  LET r == call[c]
      verdict == CanTransition(status[r.id], r.to, unmet[r.id])
  IN /\ r.phase = "decided"
     /\ \/ /\ verdict # "ok"
           /\ Answer(c)
           /\ UNCHANGED <<table, started>>
        \/ /\ verdict = "ok"
           /\ ~Matches(r.id, r.ver)
           /\ GoStale(c, r.id, r.ver)
        \/ /\ verdict = "ok"
           /\ Matches(r.id, r.ver)
           /\ ApplyUpdate(r.id, r.to, r.series)
           /\ Answer(c)

\* POST /todos/{id}/complete on a row that carries no schedule.
CompletePlain(t, v) ==
  /\ MatchesVersion(t, v)
  /\ series[t] = 0
  /\ status' = [status EXCEPT ![t] = Completed]
  /\ BumpVersion(t)
  /\ unmet' = AdjustDependents(t, status[t], Completed)
  /\ history' = RecordStatus(t, Completed)
  /\ UNCHANGED <<rows, trash, series, started, deps, call>>

\* The same on a row that carries one: the next occurrence n is inserted and
\* the schedule handed over to it, in the same transaction.
CompleteAndSpawn(t, v, n) ==
  /\ MatchesVersion(t, v)
  /\ series[t] # 0
  /\ n \notin rows
  /\ rows' = rows \cup {n}
  /\ status' = [status EXCEPT ![t] = Completed, ![n] = NotStarted]
  /\ version' = [version EXCEPT ![t] = @ + 1, ![n] = 1]
  /\ HandOver(t, n)
  /\ unmet' = AdjustDependents(t, status[t], Completed)
  /\ history' = RecordStatus(t, Completed)
  /\ UNCHANGED <<trash, started, deps, call>>

\* The transaction of Complete.  It reads the row whether or not it is live.
Complete(c, t, v) ==
  /\ call[c] = Idle
  /\ t \in rows
  /\ v \in Readable(t)
  /\ CanTransition(status[t], Completed, unmet[t]) = "ok"
  /\ \/ CompletePlain(t, v)
     \/ \E n \in Task : CompleteAndSpawn(t, v, n)
     \/ ~MatchesVersion(t, v) /\ GoStale(c, t, v)

\* DELETE /todos/{id}.
Delete(c, t, v) ==
  /\ call[c] = Idle
  /\ t \in rows
  /\ v \in Readable(t)
  /\ \/ /\ Matches(t, v)
        /\ trash' = trash \cup {t}
        /\ BumpVersion(t)
        /\ history' = [history EXCEPT ![t].deleted = TRUE]
        /\ UNCHANGED <<rows, status, unmet, series, started, deps, call>>
     \/ ~Matches(t, v) /\ GoStale(c, t, v)

\* POST /todos/{id}/restore, which carries no version.
Restore(c, t) ==
  /\ call[c] = Idle
  /\ t \in trash
  /\ version[t] < MaxVersion
  /\ trash' = trash \ {t}
  /\ BumpVersion(t)
  /\ history' = [history EXCEPT ![t].deleted = FALSE]
  /\ UNCHANGED <<rows, status, unmet, series, started, deps, call>>

\* POST /todos/{id}/dependencies.  Linking what is linked changes nothing.
AddDependency(c, t, d) ==
  /\ call[c] = Idle
  /\ t # d
  /\ {t, d} \subseteq rows
  /\ ~FindCycle(t, d)
  /\ <<t, d>> \notin deps
  /\ deps' = deps \cup {<<t, d>>}
  /\ unmet' = BumpForNewEdge(t, d)
  /\ history' = [history EXCEPT ![t].waitsFor = @ \cup {d}]
  /\ UNCHANGED <<rows, status, version, trash, series, started, call>>

\* DELETE /todos/{id}/dependencies/{other}.
RemoveDependency(c, t, d) ==
  /\ call[c] = Idle
  /\ <<t, d>> \in deps
  /\ deps' = deps \ {<<t, d>>}
  /\ unmet' = DropForRemovedEdge(t, d)
  /\ history' = [history EXCEPT ![t].waitsFor = @ \ {d}]
  /\ UNCHANGED <<rows, status, version, trash, series, started, call>>

\* conflictOrNotFound: a second read, of the live row, tells why the write
\* matched nothing.
Reread(c) ==
  /\ call[c].phase = "stale"
  /\ LET r == call[c] IN
       call' = [call EXCEPT ![c] =
                  IF r.id \in Live
                  THEN [phase |-> "conflict", id |-> r.id, ver |-> r.ver,
                        seen |-> version[r.id]]
                  ELSE Idle]
  /\ UNCHANGED <<table, started>>

\* The 409 goes out with the current row.
AnswerConflict(c) ==
  /\ call[c].phase = "conflict"
  /\ Answer(c)
  /\ UNCHANGED <<table, started>>

Request(c) ==
  \/ \E t \in Task, s \in Status, recur \in BOOLEAN : Create(c, t, s, recur)
  \/ \E t \in Task, s \in Status, recur \in BOOLEAN : \E v \in Readable(t) :
       BeginUpdate(c, t, v, s, recur)
  \/ \E t \in Task : \E v \in Readable(t) :
       BeginArchive(c, t, v) \/ Complete(c, t, v) \/ Delete(c, t, v)
  \/ \E t \in Task : Restore(c, t)
  \/ \E e \in Linkable :
       AddDependency(c, e[1], e[2]) \/ RemoveDependency(c, e[1], e[2])

Continue(c) ==
  ContinueArchive(c) \/ CommitUpdate(c) \/ Reread(c) \/ AnswerConflict(c)

Next == \E c \in Caller : Request(c) \/ Continue(c)

Spec == Init /\ [][Next]_vars

------------------------------------------------------------------------------
(* Properties.                                                             *)

Unfinished(t) == {d \in Task : <<t, d>> \in deps /\ status[d] # Completed}

\* The stored counter is the number of dependencies that are not completed,
\* whatever was linked, unlinked, completed, reopened, archived, deleted and
\* restored before (the four sites of deps.go and migration 0003).
CounterExact == \A t \in Task : unmet[t] = Cardinality(Unfinished(t))

\* No task waits on itself through any chain of dependencies, trashed tasks
\* included (AddDependency, findCycle).
Acyclic == \A e \in deps : ~Reaches(e[2], e[1])

\* A task enters In progress or Completed only when every task it waits on is
\* completed: the rule itself, where the code consults only a counter.
StartsOnlyUnblocked ==
  [][\A t \in rows :
       status'[t] # status[t] /\ status'[t] \in {InProgress, Completed}
         => Unfinished(t) = {}]_vars

Held == {series[t] : t \in rows} \ {0}

\* No two rows carry the same schedule: neither a second completion nor an
\* update or archive decided on an earlier reading of the row brings back a
\* schedule that was handed over (complete.go 24-27 and 41-44).
SeriesNeverForks ==
  \A t, u \in rows : series[t] = series[u] /\ series[t] # 0 => t = u

\* A schedule disappears only when a client's update clears it: completing,
\* archiving, deleting and restoring leave it on exactly some row.
SeriesNeverDropped ==
  [][\A s \in Held \ Held' :
       \E c \in Caller : /\ call[c].phase = "decided"
                         /\ call[c].op = "update"
                         /\ ~call[c].recur
                         /\ series[call[c].id] = s]_vars

\* A task that becomes completed, by whichever route, keeps no schedule: the
\* one it had passes in that step to one new row, not started, and no other row
\* carries it (Service.Update 119-126, insertOccurrence, handOverSchedule).
FinishingHandsOver ==
  [][\A t \in rows :
       status[t] # Completed /\ status'[t] = Completed =>
         /\ series'[t] = 0
         /\ series[t] = 0 => rows' = rows
         /\ series[t] # 0 =>
              \E n \in Task \ rows :
                /\ rows' = rows \cup {n} /\ status'[n] = NotStarted
                /\ \A u \in rows' : series'[u] = series[t] <=> u = n]_vars

Fields(t) == <<status[t], series[t], t \in trash>>

\* A step edits at most one of the existing rows, and then raises its version
\* by exactly one; a dependent whose counter moves keeps its version.  This is
\* what lets a client trust the version it holds.
EditsRaiseVersion ==
  [][\A t \in rows :
       \/ version'[t] = version[t] /\ Fields(t)' = Fields(t)
       \/ /\ version'[t] = version[t] + 1
          /\ \A u \in rows \ {t} :
               version'[u] = version[u] /\ Fields(u)' = Fields(u)]_vars

\* An update or archive whose version still matches was decided on the row as
\* it is, although the row was read before the transaction: it completes
\* nothing, it carries the row's own schedule or sets one nobody has, and an
\* archive keeps the schedule (Service.Update 114-137, BulkArchive 46-58).
DecidedOnCurrentRow ==
  \A c \in Caller :
    call[c].phase = "decided" /\ Matches(call[c].id, call[c].ver) =>
      LET r == call[c] IN
        /\ r.to = Completed => status[r.id] = Completed
        /\ r.recur /\ series[r.id] # 0 => r.series = series[r.id]
        /\ r.recur /\ series[r.id] = 0 => r.series \notin Held
        /\ r.op = "archive" => r.series = series[r.id]

\* A conflict shows the client a row newer than the one it wrote from, even
\* though the row may have been deleted and restored before it was read again.
ConflictIsNewer ==
  \A c \in Caller : call[c].phase = "conflict" => call[c].seen > call[c].ver

\* The history tells the status, the trash and the dependencies of every task.
HistoryTells ==
  \A t \in rows :
    /\ history[t].told \in {"unknown", status[t]}
    /\ history[t].deleted <=> t \in trash
    /\ history[t].waitsFor = {d \in Task : <<t, d>> \in deps}

(* What the documents say and the code does not do.                        *)

\* docs/01-requirements-interpretation.md:112.
CompletedHasNoUnfinished ==
  \A t \in rows : status[t] = Completed => Unfinished(t) = {}

\* store/todos.go:225, nothing can edit a task while it is in the trash.
TrashIsNotEdited ==
  [][\A t \in trash : t \in trash' => version'[t] = version[t]]_vars
==============================================================================
