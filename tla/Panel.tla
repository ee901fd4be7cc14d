------------------------------- MODULE Panel -------------------------------
(***************************************************************************)
(* The task panel of the browser: the selection and its generation in      *)
(* App.tsx, the form, the row it was built from and the refusals in        *)
(* TaskDetail.tsx, and the requests whose answers arrive after the panel   *)
(* has moved, been closed or been opened again.                            *)
(*                                                                         *)
(* A row is its version; what was typed is whether anything was.  The list *)
(* is what the page last fetched.  Statuses, blockers and dependents only  *)
(* switch buttons off: here a button is there whenever it may be.          *)
(***************************************************************************)
EXTENDS Integers, FiniteSets, FiniteSetsExt

CONSTANTS
  Task,        \* the ids of rows, present and to come
  Request,     \* bound: requests under way at once
  MaxWrites,   \* bound: the versions of all rows together
  MaxOpens     \* bound: openings of the panel

ASSUME BoundsArePositive == MaxWrites \in Nat \ {0} /\ MaxOpens \in Nat \ {0}

VARIABLES
  rows,       \* the server's rows: version, 0 before it is created, and whether out of the trash
  list,       \* by task: the version the list shows, or 0
  selection,  \* the object the panel was opened with
  opened,     \* openings so far
  rendered,   \* opened, when App last rendered: the generation onClose was made for
  panel,      \* the state of the mounted panel
  request     \* the requests under way

vars == <<rows, list, selection, opened, rendered, panel, request>>

New == "new"
None == "none"

ASSUME NamesDiffer == New \notin Task /\ None \notin Task

Free == [at |-> "free"]
NoRow == [task |-> None, version |-> 0]
Blank == [task |-> New, version |-> 0]
NoRejection == [kind |-> None]

\* An object of the list stays the same object while it does not change; every
\* other object is a new one.
Object(t, version, listed) == [task |-> t, version |-> version, listed |-> listed]

NewTask == Object(New, 0, TRUE)
Nothing == Object(None, 0, FALSE)

\* The effect on openID.
Fresh(row) ==
  [base |-> row, form |-> IF row = NoRow THEN Blank ELSE row, typed |-> FALSE,
   rejected |-> NoRejection, confirming |-> FALSE, strayed |-> FALSE]

Closed == [Fresh(NoRow) EXCEPT !.form = NoRow]

Init ==
  /\ rows \in [Task -> {[version |-> 0, here |-> FALSE], [version |-> 1, here |-> TRUE]}]
  /\ list = [t \in Task |-> rows[t].version]
  /\ selection = Nothing /\ opened = 0 /\ rendered = 0
  /\ panel = Closed
  /\ request = [r \in Request |-> Free]

Showing == selection.task # None

\* isPending follows the latest request of its kind.
Busy ==
  \E r \in Request :
    /\ request[r] # Free /\ request[r].mounted /\ request[r].latest
    /\ request[r].kind \in {"create", "update", "delete", "complete"}

\* Bound: every answer that opens the panel has an opening left for it.
OpensLeft ==
  opened + Cardinality({r \in Request : request[r] # Free
                                        /\ request[r].kind \in {"create", "open"}}) < MaxOpens

-----------------------------------------------------------------------------
(* App: the selection.                                                     *)

\* The row a panel starts from: the list's, or else the object itself.
Existing(s) ==
  IF s.task = New THEN NoRow
  ELSE [task |-> s.task, version |-> IF list[s.task] # 0 THEN list[s.task] ELSE s.version]

\* Setting the selection to the object it holds renders nothing, so the panel
\* keeps an onClose of the generation before.
openPanel(s) ==
  /\ opened' = opened + 1
  /\ IF s = selection /\ s.listed
     THEN UNCHANGED <<selection, rendered, panel>>
     ELSE /\ selection' = s
          /\ rendered' = opened + 1
          /\ panel' = IF s.task = selection.task THEN panel ELSE Fresh(Existing(s))

\* An unmounted panel hears of no answer.
Unmounted(requests) ==
  [r \in Request |-> IF requests[r] = Free THEN Free ELSE [requests[r] EXCEPT !.mounted = FALSE]]

ClosePanel(requests) ==
  /\ selection' = Nothing /\ rendered' = opened /\ panel' = Closed
  /\ request' = Unmounted(requests)
  /\ UNCHANGED opened

Open(t) ==
  /\ list[t] # 0 /\ OpensLeft
  /\ openPanel(Object(t, list[t], TRUE))
  /\ UNCHANGED <<rows, list, request>>

OpenNew ==
  /\ OpensLeft
  /\ openPanel(NewTask)
  /\ UNCHANGED <<rows, list, request>>

\* The cross of the panel, and the Close of a notice that the task is gone.
Close ==
  /\ Showing /\ opened = rendered
  /\ ClosePanel(request)
  /\ UNCHANGED <<rows, list>>

\* Another view, or the trash.
Leave ==
  /\ Showing
  /\ ClosePanel(request)
  /\ UNCHANGED <<rows, list>>

\* App renders for a reason of its own.
Render ==
  /\ rendered' = opened
  /\ UNCHANGED <<rows, list, selection, opened, panel, request>>

\* Mutant: the effect is keyed on the object, not on which task is open.
ResetOnNewObject(shown) ==
  IF selection.task \in Task /\ shown[selection.task] \notin {0, list[selection.task]}
  THEN Fresh([task |-> selection.task, version |-> shown[selection.task]])
  ELSE panel

AfterRefetch(shown) == panel

\* The list arrives anew.  A row its filter leaves out is to the panel as one
\* it has not fetched yet.
Refetch ==
  LET shown == [t \in Task |-> IF rows[t].here THEN rows[t].version ELSE 0]
  IN /\ shown # list
     /\ list' = shown
     /\ rendered' = opened
     /\ selection' = IF selection.task \in Task /\ shown[selection.task] # selection.version
                     THEN [selection EXCEPT !.listed = FALSE] ELSE selection
     /\ panel' = AfterRefetch(shown)
     /\ UNCHANGED <<rows, opened, request>>

-----------------------------------------------------------------------------
(* TaskDetail: what the user does.                                         *)

\* A hook looks no more at the requests before the one it makes now.
Superseded(kind) ==
  [r \in Request |-> IF request[r] # Free /\ request[r].kind = kind
                     THEN [request[r] EXCEPT !.latest = FALSE] ELSE request[r]]

\* What a request is made of, and what the handler of its answer holds: which
\* task was open, and the generation of onClose.  strayed is history.
Ask(r, kind, t, version) ==
  /\ request[r] = Free
  /\ request' = [Superseded(kind) EXCEPT ![r] =
       [at |-> "sent", kind |-> kind, task |-> t, version |-> version,
        form |-> IF kind = "update" THEN panel.form ELSE NoRow,
        editing |-> IF kind = "open" THEN None ELSE selection.task,
        opened |-> IF kind = "delete" THEN rendered ELSE 0,
        mounted |-> kind # "open", latest |-> TRUE, strayed |-> panel.strayed]]
  /\ UNCHANGED <<rows, list, selection, opened, rendered>>

AskAbout(r, kind) ==
  panel.base # NoRow /\ Ask(r, kind, panel.base.task, panel.base.version)

\* A link of the chain or the history: the row of the list, or a fetch first.
Follow(r, t) ==
  /\ panel.base # NoRow /\ OpensLeft
  /\ IF list[t] # 0
     THEN openPanel(Object(t, list[t], TRUE)) /\ UNCHANGED <<rows, list, request>>
     ELSE Ask(r, "open", t, 0) /\ UNCHANGED panel

Type ==
  /\ Showing
  /\ panel' = [panel EXCEPT !.typed = TRUE]
  /\ UNCHANGED <<rows, list, selection, opened, rendered, request>>

save(r) ==
  /\ Showing /\ ~Busy
  /\ \/ AskAbout(r, "update")
     \/ panel.base = NoRow /\ OpensLeft /\ Ask(r, "create", New, 0)
  /\ UNCHANGED panel

\* A task others wait for is deleted in a dialog, which stays until it is
\* cancelled or the panel moves, and does not ask whether a write is under way.
Confirm ==
  /\ panel.base # NoRow /\ ~Busy
  /\ panel' = [panel EXCEPT !.confirming = TRUE]
  /\ UNCHANGED <<rows, list, selection, opened, rendered, request>>

Cancel ==
  /\ panel.confirming
  /\ panel' = [panel EXCEPT !.confirming = FALSE]
  /\ UNCHANGED <<rows, list, selection, opened, rendered, request>>

destroy(r) ==
  /\ ~Busy \/ panel.confirming
  /\ AskAbout(r, "delete")
  /\ UNCHANGED panel

finish(r) ==
  /\ ~Busy
  /\ AskAbout(r, "complete")
  /\ UNCHANGED panel

link(r) ==
  /\ AskAbout(r, "link")
  /\ UNCHANGED panel

\* Mutant: the newer version is adopted and the form keeps its fields.
LoadKeepingEdits(row) == [panel EXCEPT !.base = row, !.rejected = NoRejection]

Loaded(row) ==
  [panel EXCEPT !.base = row, !.form = row, !.typed = FALSE, !.rejected = NoRejection]

Load ==
  /\ panel.rejected.kind = "conflict"
  /\ panel' = Loaded(panel.rejected.current)
  /\ UNCHANGED <<rows, list, selection, opened, rendered, request>>

-----------------------------------------------------------------------------
(* The server, and everybody else.                                         *)

Reply(r, answer) ==
  /\ request' = [request EXCEPT ![r] =
       [at |-> "answered", kind |-> @.kind, answer |-> answer, editing |-> @.editing,
        opened |-> @.opened, mounted |-> @.mounted, latest |-> @.latest, strayed |-> @.strayed]]
  /\ UNCHANGED <<list, selection, opened, rendered, panel>>

Ok(t, version) == [is |-> "ok", row |-> [task |-> t, version |-> version]]
Refusal(kind) == [is |-> kind]

WriteRow(t, here) ==
  /\ MapThenSumSet(LAMBDA u : rows[u].version, Task) < MaxWrites
  /\ rows' = [rows EXCEPT ![t] = [version |-> @.version + 1, here |-> here]]

\* What makes the server accept a write: its version, and for all but a
\* completion a row out of the trash.
Accepts(r) ==
  LET row == rows[request[r].task]
  IN row.version = request[r].version /\ (row.here \/ request[r].kind = "complete")

Accept(r) ==
  /\ Accepts(r)
  /\ WriteRow(request[r].task, rows[request[r].task].here /\ request[r].kind # "delete")
  /\ Reply(r, Ok(request[r].task, request[r].version + 1))

\* conflictOrNotFound: the row as it is now, if it is there.
Conflict(r) ==
  LET t == request[r].task
  IN /\ ~Accepts(r)
     /\ Reply(r, IF rows[t].here
                 THEN [is |-> "conflict", row |-> [task |-> t, version |-> rows[t].version]]
                 ELSE Refusal("gone"))
     /\ UNCHANGED rows

ServeWrite(r) ==
  /\ request[r].kind \in {"update", "delete", "complete"}
  /\ Accept(r) \/ Conflict(r)

\* The blocking rule is asked before the version; a link to a row that is gone.
Refuse(r) ==
  /\ \/ request[r].kind \in {"update", "complete"} /\ Reply(r, Refusal("blocked"))
     \/ request[r].kind = "link" /\ Reply(r, Refusal("gone"))
  /\ UNCHANGED rows

ServeCreate(r) ==
  /\ request[r].kind = "create"
  /\ \E t \in Task : rows[t].version = 0 /\ WriteRow(t, TRUE) /\ Reply(r, Ok(t, 1))

ServeOpen(r) ==
  /\ request[r].kind = "open"
  /\ LET t == request[r].task
     IN rows[t].here /\ Reply(r, Ok(t, rows[t].version))
  /\ UNCHANGED rows

Serve(r) ==
  /\ request[r].at = "sent"
  /\ ServeWrite(r) \/ Refuse(r) \/ ServeCreate(r) \/ ServeOpen(r)

\* Somebody else edits the row, deletes it or restores it, or completes it,
\* which may be done in the trash as well.
Elsewhere(t) ==
  /\ rows[t].version # 0
  /\ \E here \in BOOLEAN : WriteRow(t, here)
  /\ UNCHANGED <<list, selection, opened, rendered, panel, request>>

-----------------------------------------------------------------------------
(* TaskDetail: the answers.                                                *)

Done(r) == [request EXCEPT ![r] = Free]

\* Mutants: the answer is applied to whatever the panel shows; also when it
\* shows nothing.
AppliesIfMounted(r) == request[r].mounted
AppliesAlways(r) == TRUE

Applies(r) == request[r].mounted /\ selection.task = request[r].editing

\* Mutant: the panel is closed whatever it shows.
ClosesAnyway(r) == TRUE

\* closeWhenUntouched
Untouched(r) == opened = request[r].opened

AnswerSaved(r) ==
  LET saved == request[r].answer.row
  IN /\ request[r].kind \in {"update", "complete"}
     /\ panel' = IF Applies(r)
                 THEN [panel EXCEPT !.base = saved, !.form = saved, !.typed = FALSE,
                                    !.strayed = @ \/ request[r].strayed]
                 ELSE panel
     /\ request' = Done(r)
     /\ UNCHANGED <<selection, opened, rendered>>

AnswerDeleted(r) ==
  /\ request[r].kind = "delete"
  /\ IF Untouched(r)
     THEN ClosePanel(Done(r))
     ELSE request' = Done(r) /\ UNCHANGED <<selection, opened, rendered, panel>>

\* A created row, and a row fetched to follow a link, are opened whatever has
\* been opened since.
AnswerOpens(r) ==
  /\ request[r].kind \in {"create", "open"}
  /\ openPanel(Object(request[r].answer.row.task, request[r].answer.row.version, FALSE))
  /\ request' = Done(r)

\* A refusal is shown by whatever panel is mounted.
handle(r) ==
  LET answer == request[r].answer
      of == request[r].editing
      rejection == IF answer.is = "conflict"
                   THEN [kind |-> "conflict", of |-> of, current |-> answer.row]
                   ELSE [kind |-> answer.is, of |-> of]
  IN /\ panel' = IF request[r].mounted
                 THEN [panel EXCEPT !.rejected = rejection,
                                    !.strayed = \/ @ \/ request[r].strayed
                                                \/ selection.task # of]
                 ELSE panel
     /\ request' = Done(r)
     /\ UNCHANGED <<selection, opened, rendered>>

Answer(r) ==
  /\ request[r].at = "answered"
  /\ IF request[r].answer.is = "ok"
     THEN AnswerSaved(r) \/ AnswerDeleted(r) \/ AnswerOpens(r)
     ELSE handle(r)
  /\ UNCHANGED <<rows, list>>

\* No answer, or one that leaves the panel as it is: an internal error, field
\* errors, whose marks are left out, a link made, a followed row that is gone.
Settle(r) ==
  /\ request[r] # Free
  /\ request' = Done(r)
  /\ UNCHANGED <<rows, list, selection, opened, rendered, panel>>

Use(r) ==
  \/ save(r) \/ destroy(r) \/ finish(r) \/ link(r)
  \/ \E t \in Task : Follow(r, t)

Next ==
  \/ \E t \in Task : Open(t) \/ Elsewhere(t)
  \/ OpenNew \/ Close \/ Leave \/ Render \/ Refetch \/ Type \/ Confirm \/ Cancel \/ Load
  \/ \E r \in Request : Use(r) \/ Serve(r) \/ Answer(r) \/ Settle(r)

Spec == Init /\ [][Next]_vars

-----------------------------------------------------------------------------
(* Properties.                                                             *)

Version == Nat
Row == [task : Task, version : Version \ {0}]

\* Types, and nothing of a panel outlives its unmounting.
TypeOK ==
  /\ rows \in [Task -> [version : Version, here : BOOLEAN]]
  /\ list \in [Task -> Version]
  /\ selection \in [task : Task \cup {New, None}, version : Version, listed : BOOLEAN]
  /\ opened \in Nat /\ rendered \in 0..opened
  /\ panel.base \in Row \cup {NoRow} /\ panel.form \in Row \cup {Blank, NoRow}
  /\ panel.typed \in BOOLEAN /\ panel.confirming \in BOOLEAN
  /\ panel.rejected.kind \in {None, "conflict", "blocked", "gone"}
  /\ Showing \/ panel = Closed
  /\ \A r \in Request :
       request[r] # Free =>
         /\ request[r].at \in {"sent", "answered"}
         /\ request[r].editing \in Task \cup {New, None} /\ request[r].opened \in 0..opened
         /\ Showing \/ ~request[r].mounted

\* No write is lost: a save the server accepts was made of fields read from
\* the very version it replaces, through refusals, newer versions loaded, late
\* answers and refetched lists.
AcceptedWasSeen ==
  [][\A r \in Request :
       (/\ request[r].at = "sent" /\ request[r].kind = "update"
        /\ request'[r].at = "answered" /\ request'[r].answer.is = "ok") =>
         request[r].form = [task |-> request[r].task, version |-> rows[request[r].task].version]]_vars

\* The panel is of one task: the row, the form, the refusal and the errors it
\* shows are those of the task that is open.  handle does not look at what the
\* panel shows: once it has taken in a refusal of another task, that is what
\* the panel shows until it moves, and what is asked meanwhile is asked of that
\* task: its answer leads the panel astray again, even one opened since.
PanelIsOfOneTask ==
  (Showing /\ ~panel.strayed) =>
    /\ panel.base.task = IF selection.task = New THEN None ELSE selection.task
    /\ panel.form.task = selection.task
    /\ panel.rejected.kind # None => panel.rejected.of = selection.task

\* An answer that comes when the panel shows another task than it was asked
\* for leaves that panel as it is, but in two ways: a refusal is put on it and
\* leads it astray, its row, its form and what is typed staying as they are;
\* and a created row, or one fetched to follow a link, is opened in its place.
AnswersLeaveOtherTasks ==
  [][\A r \in Request :
       (/\ request[r].at = "answered" /\ request'[r] = Free
        /\ Showing /\ selection.task # request[r].editing) =>
         \/ UNCHANGED <<selection, panel>>
         \/ /\ request[r].answer.is # "ok" /\ request[r].mounted
            /\ selection' = selection
            /\ panel' = [panel EXCEPT !.rejected = panel'.rejected, !.strayed = TRUE]
         \/ /\ request[r].kind \in {"create", "open"}
            /\ opened' = opened + 1 /\ selection'.task = request[r].answer.row.task]_vars

\* What is half typed goes only when a panel is opened or closed, a newer
\* version is loaded on purpose, or the save or completion of this very task
\* is answered: no refetch, no other user, no refusal and no lost answer
\* takes it.  An answer takes also what was typed after the click.
TypedIsKept ==
  [][(panel.typed /\ ~panel'.typed) =>
       \/ opened' # opened
       \/ selection'.task = None
       \/ panel.rejected # NoRejection /\ panel'.rejected = NoRejection
       \/ \E r \in Request :
            /\ request[r].at = "answered" /\ request'[r] = Free
            /\ request[r].kind \in {"update", "complete"} /\ request[r].editing = selection.task
    ]_vars
=============================================================================
