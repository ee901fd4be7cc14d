# A formal model of the shared task list

The program is a shared task list: a Go API (`api/`) over PostgreSQL, a React
client (`web/`), and a stream of changes from one to the other. This directory
holds TLA+ modules translated from that code, the TLC configurations that check
them on small instances, and TLAPS proofs for every value of the constants.

Run in this directory: `tlc -config MCTaskStore_links.cfg MCTaskStore` for a
check, `tlapm TaskStoreProofs.tla` and the same for each of the other seven
modules whose name ends in `Proofs` for the proofs (about a minute each).

## The system

| component | state it keeps | operations | correct when |
|---|---|---|---|
| domain rules (`domain/transition.go`) | none | `CanTransition` | blocked tasks do not start |
| task store and service (`store/todos.go`, `complete.go`, `deps.go`, `store.go`, `service/todos.go`) | `todos`, `todo_dependencies` | create, update, complete (and spawn), delete, restore, link, unlink | no lost update, counters exact, graph acyclic, one open occurrence per series |
| event log (`store/events.go`) | `todo_events` | append in the transaction of the change | the log tells the state |
| bulk (`service/bulk.go`, `api/bulk.go`) | none | complete or archive up to 50 items, one by one | items are independent, in order, each reported |
| recurrence (`domain/recurrence.go`) | none | `NextDue` | first date after now on the anchor's grid, clamped months return |
| list paging (`store/list.go`, `hooks/useInfiniteScroll.ts`) | the pages and cursors the browser holds | list, next page, fetch all again | no row twice, none skipped, unless it moved |
| counts, search, trash list (`store/counts.go`) | none | single reads | a total is the length of the list it announces |
| users and sessions (`store/users.go`, `api/auth.go`, `AccountMenu.tsx`) | `users`, `sessions`, a cookie, the account shown | register, login, logout, resolve | whoever the history names signed in there; expired or ended sessions name nobody |
| event hub (`events/hub.go`) | subscribers, a buffer of 16 each | subscribe, release, publish | never blocks a writer, never sends on a closed channel |
| event stream (`api/stream.go`) | one subscription per open page | forward, heartbeat, release | a subscription ends with its connection |
| browser (`hooks/useEvents.ts`, `api/todos.ts`) | a query cache | invalidate, refetch | in the end shows what is committed |
| task panel (`TaskDetail.tsx`, `App.tsx`, `BulkBar.tsx`) | the row a form was built from, the form, a refusal | save, finish, delete, link | an answer is applied to the task it was for |
| HTTP edge (`api/*.go`) | none | decode, call, map errors to statuses | - |
| server, migrations, seed, bench | process lifetime, schema, demo data | start, stop | - |

**How they meet.** A handler decodes and calls the service; the service may read
a row first, then calls the store, which runs one transaction per write; after
the transaction has committed the service publishes `{id, kind}` to the hub; the
hub copies it to each subscriber's buffer or drops it; each stream forwards to
its page; the page refetches. Requests run in parallel, one goroutine and one
pooled connection each. Nothing but the database orders them, at PostgreSQL's
default isolation, READ COMMITTED.

**What is hard.** Reads without locks before guarded writes; a denormalised
counter kept at four sites by statements that read other rows; a graph check
followed by an insert; multi-row updates that lock in no fixed order; a schedule
that must live on exactly one row while clients decide on old readings; the
re-read that answers a conflict; dropped changes and reconnections. Each is
listed with its line under `hazards` in `PROJECT.json`, with the properties that
cover it or the reason why none does.

## The modules

| module | models | scope |
|---|---|---|
| `TaskRules` | the four statuses, `CanTransition` | a pure operator, shared by all |
| `TaskStore` | tables, history, requests | a transaction is one step, a request is several |
| `TaskStoreProofs` | - | the proofs about rows, counters, the graph and requests of `TaskStore` |
| `LedgerProofs` | - | the proofs about its history and its series |
| `TaskTx` | the same writes one SQL statement at a time | row locks, READ COMMITTED, rollback, deadlock |
| `TaskTxProofs` | - | the proofs about `TaskTx`, the refinement among them |
| `VersionedRows` | what optimistic concurrency promises | abstract; `TaskTx` implements it |
| `LiveUpdates` | hub, streams and browser | from the commit of a change to the page that shows it |
| `LiveUpdatesProofs` | - | the proofs about `LiveUpdates` |
| `ListPaging` | keyset pages, totals, the infinite list | pages fetched one by one while rows are edited |
| `ListPagingProofs` | - | the proofs about `ListPaging` |
| `Recurrence` | the dates of a repeating task | a calendar, an anchor, completions at any time |
| `RecurrenceProofs` | - | the proofs about `Recurrence` |
| `Sessions` | accounts, sessions, actors, the account menu | requests that overlap, answers in any order |
| `SessionsProofs` | - | the proofs about `Sessions` |
| `Panel` | the task panel | answers that arrive after the panel has moved |
| `PanelProofs` | - | the proofs about `Panel` |
| `MCTaskStore`, `MCTaskTx`, `MCLiveUpdates`, `MCListPaging`, `MCRecurrence`, `MCSessions`, `MCPanel` | - | small instances for TLC |

### `TaskStore`

`rows`, `status`, `version`, `trash`, `unmet` and `deps` are the columns and the
edge table. `series[t]` is the identity of the schedule a row carries: the code
keeps it in `recur_anchor` and its two companions, and all that matters here is
which row has it, so a schedule set from nothing takes the next number
(`started`). `history` is what replaying the events of a row says. `call[c]` is
the request client `c` has in hand: `Service.Update` reads the row before its
transaction (`ReadForUpdate`, then `CommitUpdate`), `BulkArchive` reads it twice
(`BeginArchive`, `ContinueArchive`), and a guarded write that matched nothing
reads the row again before answering (`GoStale`, `Reread`). Other requests run
between these steps. Clients send any version the row has had, so delayed,
repeated and stale requests are all among them. Refusals that change nothing and
leave no step to take (validation, not found, blocked in one transaction) are
steps the model does not take.

### `TaskTx`

Why a second module: `TaskStore` takes a transaction for one step, which READ
COMMITTED does not promise. `row` and `deps` are what is committed; `lock` and
`draft` are the row locks and what their holder has written; `tx[x]` is the
transaction of connection `x`. Its statements are the code's:

| step | statement |
|---|---|
| `Select` | `SELECT status, unmet_deps_count`, no lock, then `CanTransition` |
| `Write` | the guarded `UPDATE`: waits for the row, looks at it again, rolls back if it does not match |
| `Check` | `findCycle` |
| `WriteEdge` | the `INSERT ... ON CONFLICT DO NOTHING` or `DELETE` of the edge |
| `Adjust`, `Sweep` | a counter statement: the rows are found by what is committed when it starts, then locked one by one in any order, each looked at again |
| `Commit` | the event and `COMMIT` |
| `Undo` | the deferred `Rollback` of `store.tx`: refusals, `Cancel`, `BreakDeadlock` |

Tasks exist from the start and carry no schedule: a row being inserted is known
to nobody else before its commit, so nothing interleaves with it. What PostgreSQL
does (`View`, `Free`, `WriteRow`, `EdgeBusy`, `WaitsOn`, `BreakDeadlock`) is not
this repository's code and is marked external in the map.

### `VersionedRows`

Status, version and trash flag of each row, changed by whole edits of the row as
it is. `TaskTx` implements it with the committed columns as the refinement
mapping (`OneEditAtATime`): no interleaving of unlocked reads and guarded writes
shows. The blocking rule is not part of it, because it is about other rows.

### `LiveUpdates`

A change carries an id and a kind that no page looks at, so the module has no
tasks: `data` is the number of changes committed, `shown[p]` the number page `p`
has read when it last drew its view, and a buffer is the number of changes in it.

| step | code |
|---|---|
| `Commit`, `Publish`, `Answer` | a write of a page: the transaction, one or two publications (a completion that spawns), the answer that makes the page refetch |
| `Subscribe`, `Forward`, `Release` | the stream's handler; `Release` is what a failed write or heartbeat leads to, so the subscription of a dead connection lives on for a while and fills up |
| `Read`, `Arrive`, `Refresh` | a fetch: the query is answered, the answer arrives; an invalidation gives up a fetch under way and asks again, except during a first load |
| `Cut`, `Fail`, `Restart`, `CommitUnheard` | faults: a connection lost, a fetch and its retry failed, the process stopped, a request cancelled while `COMMIT` is under way |

`Publish` is one step because the hub's lock keeps `Subscribe` and the release
function out of it. What is on the wire counts as still buffered, which makes
full buffers more frequent, not rarer. How an invalidation treats a fetch under
way is TanStack Query's doing (version 5, `cancelRefetch`), read from how it
documents the call the page makes. `due[p]` is a history variable: the change the
page has been promised. A promise is made to loaded, connected pages, at a commit
and again at each publication, and ends with a fault of that page.

### `ListPaging`

`rows` are the tasks, `query` the one the list on screen was opened with, `pages`
its pages as they were read, and `fresh` the pages of a refetch under way. A page
is the set of its rows and the cursor of the next: `PageOf` is `List` with its
`WHERE`, `ORDER BY` and the extra row that tells whether there is more. The
browser appends a page (`More`, `ReadMore`), or fetches as many pages as it has
again, each with the cursor of the fresh one before it (`Invalidate`, `Refetch`).
`Edit` is anybody's write, between any two of those. How an infinite query is
fetched again, and which fetch gives way to which, is TanStack Query's (version
5) and marked external.

Of the five sort columns there are two: `created`, unique and never edited, and
`due`, with ties, gaps and edits. Priority, status and name differ from `due` in
that they are never missing. Of the filters there are the views and `overdue`,
the only one that compares with the clock. The cursor is a record, since
what its encoding could lose is the sort value, which `SortValue` has.

`moved` and `moving` are history: the tasks that came, went or moved while the
pages were read. The properties say what holds of all the others, and that once
the browser is told of every edit the pages on screen are those the list would
be read in now (`ScreenIsCurrent`). One exception is the code's: reaching the end
of the list while it is being fetched again gives the refetch up and appends to
the old pages, which stay until the next change (`passed`).

### `Recurrence`

Time is in ticks of a fraction of a day, days are counted from a first year, and
a month is one number. `NextDue`, `periodsBetween`, `step` and `daysIn` are the
code's functions, with Go's division toward zero; what Go's calendar does is
marked external. The state is one live occurrence: its date, its schedule and the
anchor `Service.Update` carries. `Update` may change date and schedule and clear
either; `Complete` replaces the occurrence by the next.

All times are UTC. `step` counts in the zone of the anchor it is given, which is
the zone in which `pgx` returns a value of the database: that of the process. The
image the service runs in (`api/Dockerfile`) is a plain alpine and sets no `TZ`,
so there it is UTC, as is what `Complete` compares with. A process started in a
zone with summer time would count days and months in that zone, which is not
modelled. `time.Sub` saturates at about 292 years; `SubIsExact` keeps the
calendar below that.

The reference is not another count: `OnSchedule` says which dates belong to a
schedule by remainders and month ends, and `OpensTheFirstAfter` that the date
opened is one of them, lies after now and after the occurrence, and that no
other does before it. `created`, `broken` and `moved` are history: the date the
task was created with, whether its schedule was ever cleared, and whether it was
edited since its last completion. `ReturnsToItsDay` says, without naming the
anchor, what the anchor is for: a task that has never stopped repeating is back on
its schedule as counted from the date it was created with, at the latest by the
first completion after an edit.

The calendar ends at `Horizon`, and `CalendarIsLongEnough` says that the other
bounds fit into it: a week's or a month's period (as often as the interval says)
past the last instant, and past how early a task may be completed, is still a date.

### `Sessions`

A browser has one cookie for all its pages (`BrowserOf`). A request is sent by a
page with the cookie there is then (`Send`), resolved on arrival by `withSession`
(`Arrive`), handled in one or two statements (`Register` or `Login`, then
`StartSession`; `Logout`; `Record` for every write of a task), and answered
(`Answer`, `AnswerPlain`) or cut off (`CutOff`). An answer sets the cookie and has
its page, and no other, fetch the account again (`Refetched`, `ReadMe`, `ShowMe`).
Other requests run between any two of these, also of the same page. `Carried` is
the cookie's `Expires`: once the session has run out the browser may have dropped
it, and not before, if its clock is not ahead of the server's. `Resolves` is
`withSession` for a write and for `/auth/me` alike: a lookup that fails counts as
nobody's. A fetch that fails is tried once more (`FailMe`, `RetryMe`), and a page
that is back on the network fetches the account (`Reconnect`).

`verified`, `opened`, `out` and `late` are history: where a password was given,
when a session was opened, which were signed out and which requests came after.
An account is its address; the code compares addresses without case, which the
model does not see, nor that `register` trims an address and `login` does not
(`users.go:40`, `:79`). Signing in again leaves the account's other sessions
alone, and sessions that have run out are never deleted, only passed over.

`MenuTells` speaks of every moment at which a page is not fetching the account:
its menu shows whom the cookie names, and nobody without one. A session that ends
by itself leaves its name in the menu until something is fetched. The other
exceptions are what the code never sets right by itself, and are kept in `astray`
until the page fetches again:

- a sign-in or sign-out answered while the page first loads the account is folded
  into that load (`Joins`), as in `first_load` below;
- one answered in another page of the browser: the cookie changes for both, and
  only the one that asked fetches again (`Siblings`, `auth.ts:25-28`);
- the fetch and its retry failed, and the menu stays as it was;
- the lookup of the session failed: `withSession` takes every error for nobody
  signed in (`auth.go:163-168`), so `/auth/me` answers null, and the menu says
  signed out with a cookie that still names a user. A write whose lookup fails is
  recorded as anonymous by the same branch (`Arrive`).

What the property says is that nothing else does: no order of answers, no fetch
overtaken by a sign-in, no retry and no reload leaves a menu wrong.

### `Panel`

`selection`, `opened` and `panel` are the state of `App` and of the mounted
`TaskDetail`; a row is its version and a form is the row it was filled from,
with `typed` for whether anything was changed since. `request[r]` is a write
under way with what its handler closes over: which task was open (`editing`),
which generation of the panel (`opened`), and whether the component is still
there (`mounted`). `Busy` follows the last request made with each hook, as
`isPending` does (`latest`). The server answers by version, and others edit,
delete, restore and complete the same rows, the last also in the trash
(`Elsewhere`).

Four things the code does are in the model and are exceptions of the properties:

- a refusal is shown by whatever panel is mounted when it arrives
  (`TaskDetail.tsx:126`), also one of another task, and its newer version can be
  loaded there: `strayed`. What is asked from such a panel is asked of that other
  task, so its answer can lead a later panel astray in turn: a request keeps
  the mark of the panel it came from;
- the answers to a create and to a followed link open their row whatever has been
  opened since (`:158`, `App.tsx:201`);
- the answer to a save or completion replaces also what was typed after the
  click (`:153`, `:182`);
- opening the row that is already open counts a generation and renders nothing,
  so the cross and the close after a deletion do nothing until `App` renders for
  another reason (`App.tsx:30`, `:58`, `:193`): `rendered`.

`AnswersLeaveOtherTasks` is about every answer that comes while the panel shows
another task than it was asked for: it leaves selection and panel alone, or it is
a refusal, which changes the refusal shown and nothing else, or it opens the
created or followed row.

Buttons that a status or a blocker disables are there whenever they may be, which
only adds behaviours. A dialog asked for stays open across answers and can be
confirmed twice. The marks of field errors, the chain, the history and the bulk
bar are left out.

## What is checked

Times are with two workers.

| run | instance | states | properties |
|---|---|---|---|
| `links` | 3 tasks, 1 client, all pairs, version 2 | 290 k, 23 s | `TypeOK`, `CounterExact`, `Acyclic`, `HistoryTells`, `StartsOnlyUnblocked`, `EditsRaiseVersion` |
| `series` | 2 tasks, 2 clients, version 3, one schedule | 1.2 M, 93 s | `SeriesNeverForks`, `SeriesNeverDropped`, `FinishingHandsOver`, `DecidedOnCurrentRow`, `ConflictIsNewer`, `HistoryTells` |
| `chains` | 2 transactions, a triangle of 3 tasks, updates and completions, version 2, with fairness | 55 k, 40 s | `CounterExact`, `TransactionsEnd` |
| `edits` | 2 transactions, 2 tasks, one link that comes and goes, all operations, version 3 | 457 k, 62 s | `TypeOK`, `JudgedByCommitted`, `OneEditAtATime` |
| `live` | 2 pages, 1 writes, the other keeps running, 2 subscriptions, buffers of 1, 2 changes, 1 fault, with fairness | 105 k, 60 s | `TypeOK`, `StaleIsRepaired`, `ListenersCatchUp`, `WritesEnd` |
| `paging` | up to 3 tasks, one date or none, pages of 1 or 2, 4 queries, 2 edits | 1.0 M, 90 s | `TypeOK`, `UnmovedSeenOnce`, `PagesInOrder`, `CountMatchesList`, `ScreenIsCurrent` |
| `dates` | 40 schedules, 2027 and 2028, 5 ticks a day, 128 instants, 1 edit | 345 k, 71 s | `TypeOK`, `OpensTheFirstAfter`, `WalkIsShort`, `ReturnsToItsDay` |
| `actors` | 2 accounts, 1 browser with 2 pages, 2 requests, 2 sessions of one tick, 1 tick or fault | 2.6 M, 165 s | `TypeOK`, `NamesOnlyVerified`, `NamesForALifetime`, `SignedOutStaysOut`, `MenuTells` |
| `panel` | 2 tasks, 2 requests, 3 versions in all, 2 openings | 904 k, 99 s | `TypeOK`, `PanelIsOfOneTask`, `AcceptedWasSeen`, `AnswersLeaveOtherTasks`, `TypedIsKept` |

**Bounds.** Three tasks are the shortest chain in which a loop is not the edge
itself, and the triangle `t3 -> t2 -> t1`, `t3 -> t1` is the smallest graph on
which two sweeps meet the same rows in opposite orders. Two clients or
connections are enough for every race named above: each property relates at most
two requests. `MaxVersion` bounds how often a row is written, by letting clients
at the last version send nothing: at 2 each row has one guarded write after its
creation (restores included), at 3 a write, its undoing and a stale client.
`Asked` bounds which statuses requests ask for: not started and completed are
the two that move counters. `Offered` bounds which operations they ask for: all
of them, except in `chains`, where updates and completions are the ones that sweep
and so the ones that can wait in a circle. `MaxSeries` bounds how many schedules clients set.
Linked pairs are left out (`NoPairs`) where the properties do not read them.
Clients, connections and, in `TaskStore`, tasks are symmetric; the runs with
liveness properties use no symmetry. Deadlock checking is on in every run.

In `LiveUpdates` the capacity of a channel is a constant, 16 in the code: with 1
or 2, two or three changes fill it, and nothing depends on it but that it is
positive (the proofs take any). Two subscriptions for two pages make a page whose
connection was cut wait for the dead one to be found. `MaxChanges` also hides one thing: a page that is sent
changes faster than a fetch takes gives up every fetch and shows none; with
finitely many changes there is a last fetch.

In `ListPaging` one date and the missing one make ties at both ends of the order,
pages of one row put a boundary between any two, and pages of two make the last
row of a page matter; two edits move a row away and back, or two rows past each
other. In `Recurrence` the anchors are the last four days of January, February
and October and one plain day; the instants are the first, middle, 28th and last days of months
over sixteen months, so a task is completed up to 33 days early (`Ahead`) and more
than a year late; the calendar has a common and a leap year, and the century rule
of `IsLeap` is beyond it. One edit is enough for `ReturnsToItsDay`: it moves the
task off its day or its schedule, and the completions after it bring it back. In
`Sessions` two requests and two pages of a browser give every overlap of two
sign-ins, or of one with a sign-out or a write. `MaxEvents` bounds ticks and faults
together: the run has one of either, a session that lasts one tick ends with it,
and a fault is a request cut off, a lookup or a fetch that fails, a reload or a
reconnection. Any of the addresses may have been registered before, in a browser
that is not followed (`Init`), so that a page can try an account whose password was
never given in its browser. Two browsers share nothing but the accounts, and a token stays in the
browser its answer came to, which the proofs show for any number of them; the
configuration `MCSessions_browsers.cfg`, two browsers with a page each, is there to
run the same properties by hand. Tokens are never reused (256 random bits), so two
bound the sign-ins. In `Panel` two tasks and two requests are what any of the properties
relates; three versions in all are two rows and an edit, or one row edited twice;
`MaxOpens` counts openings by the user and by answers together. A panel led
astray by a request of a panel that was led astray takes four openings, more
than the run has: that exception of `PanelIsOfOneTask` was found by its proof,
which no bound limits.

**Fairness.** In `TaskTx` (`FairSpec`): weak fairness of the deadlock detector,
which PostgreSQL runs after `deadlock_timeout`. Strong fairness of each
transaction's own steps: a goroutine that can run does run, and waiters for a row
queue, so that one is not passed over for ever. Nothing forces a request to
begin, and nothing forces or forbids a cancellation. Without the detector the
property fails: a completion of `t2` and a reopening of `t1` wait for each other
on `t3` and `t2`.

In `LiveUpdates` (`FairSpec`): weak fairness of publishing and answering, steps of
a goroutine that waits for nobody, and of releasing, since the heartbeat every
twenty seconds finds a dead connection. Of the pages only those in `Awake` are
fair: `EventSource` reconnects on its own, a live connection delivers, a fetch is
answered or fails. The others may stop reading at any time, with their connection
alive, as a suspended laptop does. Nothing forces a change, and no fault is forced
or forbidden.

### Where the code and its documents part

Each of these checks one statement of a document or comment and ends in a
trace that refutes it. Three are runs; the other three are configurations beside
them (`MCTaskTx_loops.cfg`, `MCTaskStore_completed_blocked.cfg`,
`MCLiveUpdates_first_load.cfg`), to be run by hand.

| run or configuration | statement | what happens |
|---|---|---|
| run `trash_edited` | `store/todos.go:225`, nothing can edit a task in the trash | `markCompleted` does not ask for `deleted_at`: a trashed task is completed, and one that repeats spawns |
| run `drift` | `store/todos.go:96-98`, a counter can never disagree with the statuses | `AddDependency` beside a completion or reopening of the dependency: each misses what the other has not committed |
| run `no_reload` | `App.tsx:45`, anybody else's change refreshes what is on screen | a page reads its list, the change is made and published, then the page subscribes |
| `loops` | docs/01:144 and `deps.go:14-23`, cycles are rejected | two links in opposite directions both pass the walk |
| `completed_blocked` | docs/01:112, a completed task can never have unfinished dependencies | a completed task is linked to an unfinished one, or what it waited on is reopened |
| `first_load` | `useEvents.ts:14-15`, the next event repairs whatever the last one missed | an event during the first load is folded into a load that read too early |

Without either, because one step or one look shows it:

- `migrations/0007_recurring.sql:3` says only the live occurrence of a series
  carries a schedule, and `Create` accepts the status completed with one;
- docs/01:140 offers Unarchive in the panel of an archived task, where
  `TaskDetail.tsx:331` offers Complete for every status but completed;
- docs/07:61 has the panel move to the new occurrence after Complete, where
  `finish` stays on the completed row;
- docs/08:68 has a save close the panel, where only a deletion does.

`CounterExact` and `Acyclic` hold in `TaskStore` and are proved there: taken one
transaction at a time the code is right. `chains` shows that
completions, reopenings and edits keep the counters exact under any interleaving, which is
what `concurrency_test.go` samples. `drift` and `loops` show that the guarantee
ends where links are added or removed at the same time, because the statement
that reads the other table takes no lock on what it read.

The blocking rule with interleaved statements is not among these: a task started
on a counter read just before its dependency is reopened ends in the state that
starting first and reopening afterwards leads to, which the rules allow.

`no_reload` and `first_load` run without any fault. They are the edge of what
`StaleIsRepaired` and `ListenersCatchUp` establish: once a page is loaded and
connected it misses nothing, whatever is dropped; what happens before, or during
a reconnection, waits for the next change.

## What is proved

Every safety property that a run checks, for all values of the constants:
thirty-seven theorems in eight modules. In each module an inductive invariant
(`IInv`, or the named one) is shown to hold at first and to be kept by each action,
one lemma per action or kind of action; the properties follow from it.

### `TaskStoreProofs` and `LedgerProofs`

For any set of tasks (finite or not), clients, linkable pairs and bounds, from
the two assumptions `TaskStore` names (`BoundsAreNat`, `LinkableArePairs`):

- `TypeCorrect`: inductive as it stands, one lemma per action.
- `CounterCorrect`: `TypeOK /\ CounterExact` is inductive. The lemmas
  `CounterSettled`, `CounterLinked` and `CounterUnlinked` say that the three ways
  a counter moves keep it equal to the cardinality; `StepCases` reduces all
  actions to the few ways a step touches statuses and edges.
- `BlockedNeverStarts`: from it, since `CanTransition` refuses on the counter and
  a counter of zero is now known to mean that nothing is unfinished.
- `AlwaysAcyclic`: reachability is membership in every closed set; for an edge
  the walk let through there is a closed set that separates its ends, and with
  it every loop through the new edge is cut (`LinkingKeepsAcyclic`).
- `VersionsTell`: an action property from `TypeOK` and `StepCases`.
- `RequestsSound`: the strengthening `RequestInv`. `DecidedOnCurrentRow` and
  `ConflictIsNewer` are not inductive: they speak of what a request in hand holds
  when its version still matches, so the invariant also says that no request
  holds a version the row has not had, that one read before its transaction is at
  most as new as the row, that a stale request is strictly older, and that
  `started` is ahead of every schedule a row or a request holds.
- `DecisionsSound`, `ConflictsHelp`, `OneOpenOccurrence`: from `RequestInv`.
- `HistoriesTell`: `HistoryInv` adds that an id without a row has no history, so
  that an inserted row starts with none.
- `SeriesLast`, `FinishedHandOver`: action properties from `RequestInv`. That an
  update does not drop a schedule it was not asked to clear needs
  `DecidedOnCurrentRow`: the schedule it writes is the one it read. That a
  schedule handed over is on the new row and on no other needs
  `OneOpenOccurrence`: nobody but the finished row had it.

### `TaskTxProofs`

For any tasks, connections, requests and initial edges, from the assumptions of
`TaskTx`: the bounds have their types (`BoundIsNat`, `AskedIsStatus`,
`OfferedAreOps`), edges are pairs of tasks (`PairsOfTasks`), the initial table is
finite and links no task to itself (`FirstDepsAreATable`, the `CHECK` of the
table), and the mark for no row is no row (`NobodyIsNone`).

- `Invariant`: `Shape` says which operation comes to which statement and what it
  knows then; `Reads`, that a version only grows and that while it has not grown
  the status read without a lock is the committed one; `Locks`, that a
  transaction holds the row it edits, with a draft that is one whole edit of the
  committed row, and otherwise only rows of which the counter alone moves.
- `RowsTyped`, `JudgedStillHolds`: from it.
- `Implements`: `TaskTx` implements `VersionedRows`. Every step but a commit
  leaves the committed rows alone; a commit is one whole edit, by `Locks`.
- `CountersNeverDrift`: when nothing may be linked (`Linkable = {}`), the counters
  are exact under every interleaving. The invariant `CounterInv` says which
  dependents a transaction that finishes or reopens its task has swept, that it
  holds their locks, and that their drafts are one off; `Complete` and
  `UpdateTodo` hold the row of the edited task, so no two of them move the same
  counter for the same dependency. The hypothesis is needed: the run
  `drift` is a counterexample without it.

### `LiveUpdatesProofs`

For any pages, subscriptions, capacity of at least one, changes and faults, from
the three assumptions `LiveUpdates` names (`BufferHolds`, `SomeOfThePages`,
`BoundsAreNat`):

- `LiveTypes`: no channel above its capacity.
- `BehindIsRepaired`: `StaleIsRepaired` needs `PromisesHold`. Consuming the last
  publication owed helps only pages that still listen; a fetch brings back enough
  only if nobody is promised more than is committed; an arriving answer must not
  be older than what it replaces. The three parts are inductive together.

### `ListPagingProofs`

For any tasks, dates, queries, limits and edits, from the assumptions of
`ListPaging`: ids are positive numbers, given out in the order of creation
(`TasksAreIds`), a missing date sorts after every date (`DatesEnd`,
`NowIsADate`), queries are well formed (`QueriesSort`), and the bounds have their
types (`EditsEnd`, `StatusesAsked`).

- `Invariant`: `Walk` is what a walk of pages has come to while the rows moved
  under it. Pages are in order; none but the last is short; the cursor left by
  the last lies past every row seen; of the rows that stayed, each one the walk has
  come past is on one page and the others on none. `PageAdds` is the step: what
  `PageOf` returns continues such a walk.
- `FirstIs` and `PageIs` are about `PageOf` alone: the first rows of a set exist,
  are as many as were asked for, and split the rest of the list in two. That a
  finite set of rows has a first one is an induction, which the library states for
  any operator and the provers cannot instantiate: `Least` gets it from the strict
  subsets of a finite set being well founded.
- `PagesFull`, `UnmovedOnce`, `NeverTurnsBack`, `CountsAgree`: from it. The last
  needs that a complete walk with nothing moved is the list.
- `ScreenCatchesUp`: `CurrentInv` says it of the pages being fetched as well, from
  the moment the last edit was told of. A next page goes on with it because its
  cursor is only taken under the query it was issued for.

### `RecurrenceProofs`

For any calendar, tick, instants, schedules and edits, from the assumptions of
`Recurrence`: bounds have their types (`CalendarIsFinite`, `InstantsCount`,
`DaysHaveTicks`, `SubIsExact`), schedules are what `Valid` and the interval check let through
(`SchedulesAreValid`), and the bounds fit into the calendar
(`CalendarIsLongEnough`).

- `FirstDayCounts`, `WalkExists`: the two recursive functions are defined. Again the
  library's induction is not to be had; `LeastNumber`, that a set of naturals has a
  least element, stands in for it. The loop of `NextDue` need not end for that;
  that it does, after one step at most, is `WalkEnds`.
- `MonthsGrow`, `MonthIs`, `DateParts`, `PartsOfDate`: a date is one day of one month
  and one time of the day, and dates are ordered by them.
- `HoursCount`: counted in whole hours, the jump still lands on the last period
  not after the instant. `FindsByDays` and `FindsByMonths` put it together:
  `Finds` is what `NextDue` does in any unit. No date between is on the schedule,
  since what `OnSchedule` accepts are the steps (`DaysOnSchedule`,
  `MonthsOnSchedule`).
- `FirstIsOpened`, `WalksOneStep`, `DatesTyped`: from `Finds` and the invariant that
  dates stay in the calendar.
- `ComesBack`: `ReturnsToItsDay` is not inductive, since it says nothing of a task
  that has just been edited. `KeepsItsDay` adds what holds all along, that such a
  task is counted from the date it was created with; a completion then lands on
  that schedule by `OpensIt`, and an untouched first occurrence is on it
  by itself (`OnItsOwn`).

The century rule of `IsLeap`, beyond the run, is covered: the proofs ask of the
calendar only that months have 28 to 31 days.

### `SessionsProofs`

For any addresses, browsers, pages, requests, tokens, lifetime and bounds, from
the three assumptions `Sessions` names (`BoundsAreNat`, `NamesDiffer`,
`PagesAreOfBrowsers`):

- `Invariant`: the strengthening `IInv`. The properties speak of a request that
  has arrived, whose actor is already decided, so none is inductive alone. The
  invariant follows a token from where it comes into the world: a request whose
  user is known belongs to an account whose password was given in its browser;
  the token a session was opened under is *held* by that browser, in the answer,
  in the cookie, and in every request sent with that cookie (`Held`); a session is
  dated by its token (`SessionsDated`); a token signed out was opened, and since
  none is opened twice it stays closed (`OutEnded`). `Grows` collects what no step
  takes back, and `OneRequest` is the shape of nearly every step: one request
  moves, the rest keep what was known of them.
- `SessionsTyped`, `OnlyVerifiedNamed`, `NamedForALifetime`, `OutStaysOut`: from it.
- `MenusAreTold`: `MenusTell` says of every page that its menu names somebody
  verified (`ShowsVerified`), and of one not astray that it is `OnCourse`, which
  adds what a fetch under way will show: one that was asked carries the cookie
  there is, or none when that names nobody any more (`AskedOf`); one that was
  answered tells whom it names, or a session that has ended since (`Tells`, kept
  by everything that only ends sessions, `TellsLater`). An answer that changes
  the cookie puts its own page on course and the other pages of the browser
  astray (`AnswersOnCourse`); pages of other browsers keep theirs
  (`OthersOnCourse`).

### `PanelProofs`

For any tasks, requests, writes and openings, from the two assumptions `Panel`
names (`BoundsArePositive`, `NamesDiffer`):

- `Invariant`: `Types` with all fields of rows, panels and requests; `Coherent`,
  that a panel that has not strayed has its row, form and refusal of the task it
  was opened on, and that any panel's form is of the row a save would replace;
  `Traced`, where a request came from, and that one that did not come from a
  strayed panel asks of the task it was editing and is answered with its row.
- `PanelTyped`, `OneTaskShown`, `SavesWereSeen`, `LateAnswersPass`,
  `TypingSurvives`: from it. The proof of `OneTaskShown` failed on the property as it
  was stated before, with a panel led astray by a request made from another that
  was; TLC found the trace with four openings.

### Only model-checked

`TransactionsEnd`, `ListenersCatchUp` and `WritesEnd`: liveness under fairness is
out of the prover's reach. The runs that end in a violation are counterexamples
and prove themselves. The modules proved about declare no RECURSIVE operator:
reachability is stated with closed sets instead of a walk, and the calendar and the
walk of `NextDue` are recursive functions.

## What is not modelled

Search and the trash list are single reads of which nothing is kept. Routing,
JSON, validation messages, the encoding of cursors, the attributes of the cookie
other than `Expires` and password hashing keep no state the properties read. Seed and bench are
one-shot tools. Names, descriptions and priorities are carried and never decided
on. Batches are sequences of requests `TaskStore` already lets come in any order;
the bar that sends them and the report it shows are left out. `pgx` pool limits,
migrations in progress and indexes are left out, and so are rendering and
formatting.

## Plan

In this order, the most important behaviour first:

1. Done: `TaskRules`, `TaskStore`, `TaskTx`, `VersionedRows`, `LiveUpdates`,
   `ListPaging`, `Recurrence`, `Sessions`, `Panel`, and the proofs of every safety
   property their runs check.
2. `EventHub`: the hub's lock, channels and close, one statement at a time:
   release during a publication, no send on a closed channel; implements the
   one-step `Publish`, `Subscribe` and `Release` of `LiveUpdates`.
3. `CycleWalk`: the recursive walk of `findCycle` against `Reaches`, over all
   graphs on four tasks.

The runs are kept few, so that the whole suite takes minutes. As modules
are added, runs that ask again what a proof has settled, or what the run of a
composed module covers, give way.

Theorems to come: that `TaskStore` too implements `VersionedRows`.
