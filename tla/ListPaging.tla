----------------------------- MODULE ListPaging -----------------------------
(***************************************************************************)
(* The task list: pages found by seeking past the last row of the page     *)
(* before (api/internal/store/list.go), the totals beside the views        *)
(* (counts.go), and the browser's infinite list, which appends a page or   *)
(* fetches all of its pages again while the tasks are being edited.        *)
(*                                                                         *)
(* A page is the set of its rows: inside it the order is that of the query.*)
(* Two sort columns stand for the five: created never changes and has no   *)
(* gaps, due changes, ties and may be missing.  Ids and creation times are *)
(* given out in the same order.  One list, under one query, is on screen.  *)
(***************************************************************************)
EXTENDS TaskRules, FiniteSets, Sequences

CONSTANTS
  Task,      \* ids
  Date,      \* due dates
  Undated,   \* no due date
  Infinity,  \* the sort key of an undated task
  Now,       \* the instant the totals and the overdue view compare with
  Query,     \* the queries a list is opened with: limit is the rows of a page
  Asked,     \* bound: the statuses tasks have
  MaxEdits   \* bound: edits made while the list is open

ASSUME TasksAreIds == Task \subseteq Nat \ {0}
ASSUME DatesEnd == Date \subseteq Int /\ Infinity \in Int /\ \A d \in Date : d < Infinity
ASSUME NowIsADate == Now \in Int /\ Undated \notin Date
ASSUME EditsEnd == MaxEdits \in Nat
ASSUME StatusesAsked == Asked \subseteq Status
ASSUME QueriesSort ==
  Query \subseteq [sort : {"created", "due"}, dir : {"asc", "desc"},
                   view : {"all", "overdue"} \cup Status, limit : Nat \ {0}]

VARIABLES
  rows,      \* the tasks there are
  query,     \* the query of the list on screen
  pages,     \* its pages, in the order they were fetched
  fresh,     \* the pages fetched again so far
  fetching,  \* "idle", "more" for a next page, "refetch" for all of them
  told,      \* every edit so far has made the browser fetch again
  passed,    \* history: a next page was asked for during the last refetch
  moved,     \* history: tasks that came, went or moved under the pages
  moving,    \* history: the same, under the pages fetched again
  edits      \* edits so far

vars == <<rows, query, pages, fresh, fetching, told, passed, moved, moving, edits>>

Row == [due : Date \cup {Undated}, status : Asked, deleted : BOOLEAN]

-----------------------------------------------------------------------------
(* One page.                                                               *)

\* due_sort, written beside due_date.
DueSort(due) == IF due = Undated THEN Infinity ELSE due

Column(sort, t, row) == IF sort = "created" THEN t ELSE DueSort(row.due)

\* Mutant: an undated task encoded as the zero time.
SortValueZero(sort, item) ==
  IF sort = "created" THEN item.id
  ELSE IF item.due = Undated THEN 0 ELSE item.due

\* What the cursor says of the last row, computed from the row that was read.
SortValue(sort, item) ==
  IF sort = "created" THEN item.id
  ELSE IF item.due = Undated THEN Infinity ELSE item.due

Before(a, b) == a.key < b.key \/ (a.key = b.key /\ a.id < b.id)

Comes(dir, a, b) == IF dir = "asc" THEN Before(a, b) ELSE Before(b, a)

Place(q, t) == [key |-> Column(q.sort, t, rows[t]), id |-> t]

\* The WHERE clause of a view's list.
Selects(view, row) ==
  /\ ~row.deleted
  /\ view \in Status => row.status = view
  /\ view = "overdue" => /\ row.due # Undated
                         /\ row.due < Now
                         /\ row.status \notin {Completed, Archived}

NoCursor == [id |-> 0]
Cursor == [sort : {"created", "due"}, dir : {"asc", "desc"}, key : Int, id : Task]

Item(t) == [id |-> t, due |-> rows[t].due]

CursorAt(q, item) ==
  [sort |-> q.sort, dir |-> q.dir, key |-> SortValue(q.sort, item), id |-> item.id]

\* Mutant: any cursor is taken under any order.
AcceptsAny(q, cursor) == TRUE

\* A cursor is refused under another sort or direction than its own.
Accepts(q, cursor) ==
  cursor = NoCursor \/ (cursor.sort = q.sort /\ cursor.dir = q.dir)

Beyond(q, cursor) ==
  {t \in DOMAIN rows : /\ Selects(q.view, rows[t])
                       /\ cursor # NoCursor => Comes(q.dir, cursor, Place(q, t))}

\* The first n of T in the order of the query.
First(n, q, T) ==
  {t \in T : Cardinality({u \in T : Comes(q.dir, Place(q, u), Place(q, t))}) < n}

Last(q, T) == CHOOSE t \in T : \A u \in T \ {t} : Comes(q.dir, Place(q, u), Place(q, t))

\* Mutant: the extra row is left on the page.
PageWithExtra(q, cursor) ==
  LET got == First(q.limit + 1, q, Beyond(q, cursor))
  IN [items |-> {Item(t) : t \in got},
      next |-> IF Cardinality(got) <= q.limit THEN NoCursor
               ELSE CursorAt(q, Item(Last(q, got)))]

\* One row more than fits is read: if it is there, so is a next page.
PageOf(q, cursor) ==
  LET got == First(q.limit + 1, q, Beyond(q, cursor))
      kept == First(q.limit, q, got)
  IN [items |-> {Item(t) : t \in kept},
      next |-> IF got = kept THEN NoCursor ELSE CursorAt(q, Item(Last(q, kept)))]

\* Mutant: finished tasks count as overdue.
CountedWhenDone(view, row) ==
  /\ ~row.deleted
  /\ view \in Status => row.status = view
  /\ view = "overdue" => row.due # Undated /\ row.due < Now

\* The FILTER of the total shown beside a view.
Counted(view, row) ==
  CASE view = "all"     -> ~row.deleted
    [] view \in Status  -> ~row.deleted /\ row.status = view
    [] view = "overdue" -> /\ ~row.deleted /\ row.due # Undated /\ row.due < Now
                           /\ row.status \notin {Completed, Archived}

CountFor(view) == Cardinality({t \in DOMAIN rows : Counted(view, rows[t])})

-----------------------------------------------------------------------------
(* Edits, by anybody.                                                      *)

\* Where a row is in the list, if it is there.
Listed(t, row) ==
  IF Selects(query.view, row) THEN {Column(query.sort, t, row)} ELSE {}

Put(t, row) ==
  /\ edits < MaxEdits
  /\ edits' = edits + 1
  /\ rows' = [u \in DOMAIN rows \cup {t} |-> IF u = t THEN row ELSE rows[u]]
  /\ LET shift == IF Listed(t, row) = (IF t \in DOMAIN rows THEN Listed(t, rows[t]) ELSE {})
                  THEN {} ELSE {t}
     IN moved' = moved \cup shift /\ moving' = moving \cup shift
  /\ told' = FALSE
  /\ UNCHANGED <<query, pages, fresh, fetching, passed>>

Create(t, due, status) ==
  /\ \A u \in DOMAIN rows : u < t
  /\ Put(t, [due |-> due, status |-> status, deleted |-> FALSE])

Update(t, due, status) ==
  /\ ~rows[t].deleted
  /\ CanTransition(rows[t].status, status, 0) = "ok"
  /\ Put(t, [rows[t] EXCEPT !.due = due, !.status = status])

Delete(t) ==
  /\ ~rows[t].deleted
  /\ Put(t, [rows[t] EXCEPT !.deleted = TRUE])

Restore(t) ==
  /\ rows[t].deleted
  /\ Put(t, [rows[t] EXCEPT !.deleted = FALSE])

Edit ==
  \/ \E t \in Task, due \in Date \cup {Undated}, s \in Asked : Create(t, due, s)
  \/ \E t \in DOMAIN rows, due \in Date \cup {Undated}, s \in Asked : Update(t, due, s)
  \/ \E t \in DOMAIN rows : Delete(t) \/ Restore(t)

-----------------------------------------------------------------------------
(* The list on screen.                                                     *)

Init ==
  /\ rows \in UNION {[T -> Row] : T \in {{u \in Task : u <= t} : t \in Task}}
  /\ query \in Query
  /\ pages = <<>> /\ fresh = <<>> /\ fetching = "refetch"
  /\ told = TRUE /\ passed = FALSE
  /\ moved = {} /\ moving = {} /\ edits = 0

LastOf(ps) == ps[Len(ps)]

\* Mutant: the pages are fetched again with the cursors they had.
NextOld == IF fresh = <<>> THEN NoCursor ELSE pages[Len(fresh)].next

\* Each page fetched again is asked for with the cursor of the fresh one
\* before it.
NextFresh == IF fresh = <<>> THEN NoCursor ELSE LastOf(fresh).next

\* What is under way is given up, and the pages are fetched from the first.
Restart == fetching' = "refetch" /\ fresh' = <<>> /\ moving' = {}

\* Mutant: asked for without giving up what is under way (cancelRefetch: false).
InvalidateUnlessFetching ==
  /\ pages # <<>>
  /\ IF fetching = "idle" THEN Restart ELSE UNCHANGED <<fetching, fresh, moving>>
  /\ told' = TRUE /\ passed' = FALSE
  /\ UNCHANGED <<rows, query, pages, moved, edits>>

\* A change on the stream, or a write of the page's own, invalidates the list.
Invalidate ==
  /\ pages # <<>>
  /\ Restart
  /\ told' = TRUE /\ passed' = FALSE
  /\ UNCHANGED <<rows, query, pages, moved, edits>>

\* A page is read again; the last one replaces what is on screen.
Refetch ==
  /\ fetching = "refetch"
  /\ LET page == PageOf(query, NextFresh)
         got == Append(fresh, page)
     IN IF page.next = NoCursor \/ Len(got) >= Len(pages)
        THEN /\ pages' = got /\ moved' = moving
             /\ fetching' = "idle" /\ fresh' = <<>> /\ moving' = {}
        ELSE fresh' = got /\ UNCHANGED <<pages, moved, fetching, moving>>
  /\ UNCHANGED <<rows, query, told, passed, edits>>

\* The end of the list comes into view.  A refetch under way is given up.
More ==
  /\ fetching # "more" /\ pages # <<>> /\ LastOf(pages).next # NoCursor
  /\ fetching' = "more" /\ fresh' = <<>> /\ moving' = {}
  /\ passed' = (passed \/ fetching = "refetch")
  /\ UNCHANGED <<rows, query, pages, told, moved, edits>>

\* The next page is read.  The sort and the direction of the request are the
\* caller's: a link can be edited, and is then refused.
ReadMore(q) ==
  /\ fetching = "more" /\ q.view = query.view /\ q.limit = query.limit
  /\ pages' = IF Accepts(q, LastOf(pages).next)
              THEN Append(pages, PageOf(q, LastOf(pages).next)) ELSE pages
  /\ fetching' = "idle"
  /\ UNCHANGED <<rows, query, fresh, told, passed, moved, moving, edits>>

Next == Edit \/ Invalidate \/ Refetch \/ More \/ \E q \in Query : ReadMore(q)

Spec == Init /\ [][Next]_vars

-----------------------------------------------------------------------------
(* Properties.                                                             *)

Page == [items : SUBSET [id : Task, due : Date \cup {Undated}],
         next : Cursor \cup {NoCursor}]

FullPages(ps) ==
  \A i \in DOMAIN ps : /\ ps[i] \in Page
                       /\ Cardinality(ps[i].items) <= query.limit
                       /\ i < Len(ps) => Cardinality(ps[i].items) = query.limit

\* Types; a page never holds more rows than fit, and only the last one fewer.
TypeOK ==
  /\ DOMAIN rows \subseteq Task /\ \A t \in DOMAIN rows : rows[t] \in Row
  /\ query \in Query
  /\ FullPages(pages) /\ FullPages(fresh)
  /\ fetching \in {"idle", "more", "refetch"}
  /\ told \in BOOLEAN /\ passed \in BOOLEAN
  /\ moved \subseteq Task /\ moving \subseteq Task
  /\ edits \in 0..MaxEdits

PagesWith(ps, t) == {i \in DOMAIN ps : \E item \in ps[i].items : item.id = t}

\* The walk has come past this row.
Reached(ps, t) ==
  /\ ps # <<>>
  /\ Selects(query.view, rows[t])
  /\ LET next == LastOf(ps).next
     IN next # NoCursor => ~Comes(query.dir, next, Place(query, t))

SeenOnce(ps, gone) ==
  \A t \in DOMAIN rows \ gone :
    Cardinality(PagesWith(ps, t)) = IF Reached(ps, t) THEN 1 ELSE 0

\* The keyset walk of List: a task that neither came, went nor moved while
\* the pages were read is on exactly one of them once the walk has come past
\* it, and on none before, whatever happened to the other tasks, however many
\* share its sort key, and whether it has a due date or not.
UnmovedSeenOnce == SeenOnce(pages, moved) /\ SeenOnce(fresh, moving)

InOrder(ps) ==
  \A i, j \in DOMAIN ps : i < j =>
    \A a \in ps[i].items, b \in ps[j].items :
      Comes(query.dir, [key |-> SortValue(query.sort, a), id |-> a.id],
                       [key |-> SortValue(query.sort, b), id |-> b.id])

\* The rows of a later page come after those of an earlier one, as they were
\* when they were read, edits or not: a walk never turns back, and a list
\* sorted by created never shows a task twice.
PagesInOrder == InOrder(pages) /\ InOrder(fresh)

\* The total beside a view (counts.go) is the length of its list (list.go)
\* when all of its pages were read with nothing moving.
CountMatchesList ==
  (pages # <<>> /\ LastOf(pages).next = NoCursor /\ moved = {}) =>
    Cardinality(UNION {pages[i].items : i \in DOMAIN pages}) = CountFor(query.view)

\* What is read now, page after page.
ReadNow(ps) ==
  \A i \in DOMAIN ps : ps[i] = PageOf(query, IF i = 1 THEN NoCursor ELSE ps[i - 1].next)

\* Once every edit was heard of and nothing is being fetched, the pages on
\* screen are those the list would be read in now, row for row and cursor for
\* cursor.  The one exception: a next page asked for while the list was being
\* fetched again gives that up, and the old pages stay (useInfiniteScroll in
\* App.tsx).
ScreenIsCurrent ==
  (fetching = "idle" /\ told /\ ~passed) => ReadNow(pages)
=============================================================================
