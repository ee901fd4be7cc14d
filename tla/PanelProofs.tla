----------------------------- MODULE PanelProofs -----------------------------
(***************************************************************************)
(* Proofs about Panel, for any tasks, openings, writes and requests under  *)
(* way: no write is lost, what is typed is kept, and whose task it is the  *)
(* panel shows.                                                            *)
(***************************************************************************)
EXTENDS Panel, TLAPS

Names == Task \cup {New, None}
Changing == {"update", "delete", "complete"}

Selection == [task : Names, version : Nat, listed : BOOLEAN]

Rejection ==
  {NoRejection}
  \cup [kind : {"conflict"}, of : Names, current : Row]
  \cup [kind : {"blocked", "gone"}, of : Names]

PanelRec ==
  [base : Row \cup {NoRow}, form : Row \cup {Blank, NoRow}, typed : BOOLEAN,
   rejected : Rejection, confirming : BOOLEAN, strayed : BOOLEAN]

Kind == Changing \cup {"create", "open", "link"}

Sent ==
  [at : {"sent"}, kind : Kind, task : Names, version : Nat,
   form : Row \cup {Blank, NoRow}, editing : Names, opened : Nat,
   mounted : BOOLEAN, latest : BOOLEAN, strayed : BOOLEAN]

Answers == [is : {"ok", "conflict"}, row : Row] \cup [is : {"blocked", "gone"}]

Answered ==
  [at : {"answered"}, kind : Kind, answer : Answers, editing : Names, opened : Nat,
   mounted : BOOLEAN, latest : BOOLEAN, strayed : BOOLEAN]

Requests == {Free} \cup Sent \cup Answered

\* Types of everything, with all their fields.  A row that is there has a
\* version, and the panel was last rendered for an opening that has been.
Types ==
  /\ rows \in [Task -> [version : Nat, here : BOOLEAN]]
  /\ \A t \in Task : rows[t].here => rows[t].version # 0
  /\ list \in [Task -> Nat]
  /\ selection \in Selection
  /\ selection.task \in Task => selection.version # 0
  /\ opened \in Nat /\ rendered \in Nat /\ rendered <= opened
  /\ panel \in PanelRec
  /\ request \in [Request -> Requests]

\* A panel p opened with s shows one task, and none when it is closed; the form
\* is of the very row that a save would replace.
Coherent(p, s) ==
  /\ s.task = None => p = Closed
  /\ p.base # NoRow => p.form = p.base
  /\ (s.task # None /\ ~p.strayed) =>
       /\ p.base.task = IF s.task = New THEN None ELSE s.task
       /\ p.form.task = s.task
       /\ p.rejected.kind # None => p.rejected.of = s.task
       /\ p.rejected.kind = "conflict" => p.rejected.current.task = s.task

\* Where a request came from, the n-th opening showing s: it is of the task the
\* panel showed when it was made, and a deletion was made for the task that is
\* open unless another has been opened since.
Traced(q, s, n) ==
  q # Free =>
    /\ q.opened <= n
    /\ q.mounted => s.task # None
    /\ (q.kind = "delete" /\ q.opened = n /\ s.task # None) => q.editing = s.task
    /\ q.at = "sent" =>
         /\ q.kind # "create" => q.task \in Task
         /\ (q.kind \in Changing /\ ~q.strayed) => q.task = q.editing
         /\ q.kind = "update" => q.form = [task |-> q.task, version |-> q.version]
    /\ q.at = "answered" =>
         /\ (q.kind \in Changing /\ ~q.strayed /\ q.answer.is \in {"ok", "conflict"}) =>
              q.answer.row.task = q.editing
         /\ q.kind \notin Changing => q.answer.is # "conflict"
         /\ q.kind \in {"create", "open"} => q.answer.is = "ok"

IInv ==
  /\ Types
  /\ Coherent(panel, selection)
  /\ \A r \in Request : Traced(request[r], selection, opened)

------------------------------------------------------------------------------
(* Records.                                                                *)

\* New and None are no tasks, nor the same.
LEMMA NamesApart == New \notin Task /\ None \notin Task /\ New # None
  BY NamesDiffer DEF New, None

\* The rows there are, the placeholder and the blank form tell apart.
LEMMA RowsApart == NoRow \notin Row /\ Blank \notin Row
  BY NamesApart DEF NoRow, Blank, Row

\* A panel freshly built from a row, or from none.
LEMMA FreshPanel ==
  ASSUME NEW row \in Row \cup {NoRow}
  PROVE  /\ Fresh(row) \in PanelRec
         /\ Fresh(row).base = row
         /\ Fresh(row).form = IF row = NoRow THEN Blank ELSE row
         /\ Fresh(row).rejected = NoRejection /\ Fresh(row).rejected.kind = None
         /\ Fresh(row).typed = FALSE /\ Fresh(row).strayed = FALSE
  BY DEF Fresh, PanelRec, Rejection, NoRejection

\* No panel.
LEMMA ClosedPanel ==
  /\ Closed \in PanelRec /\ Closed.base = NoRow /\ Closed.form = NoRow
  /\ Closed.typed = FALSE /\ Closed.confirming = FALSE /\ Closed.rejected = NoRejection
<1> DEFINE p == Fresh(NoRow)
<1>1. p \in PanelRec /\ p.base = NoRow /\ p.typed = FALSE /\ p.rejected = NoRejection
  BY FreshPanel
<1>2. p.confirming = FALSE
  BY DEF Fresh
<1>3. Closed = [p EXCEPT !.form = NoRow]
  BY DEF Closed
<1> HIDE DEF p
<1> QED
  BY <1>1, <1>2, <1>3 DEF PanelRec

\* What a panel is built from is a row of the task opened.
LEMMA ExistingRow ==
  ASSUME Types, NEW s \in Selection, s.task # None, s.task \in Task => s.version # 0
  PROVE  /\ s.task = New => Existing(s) = NoRow
         /\ s.task # New => Existing(s) \in Row /\ Existing(s).task = s.task
<1>1. CASE s.task = New
  BY <1>1 DEF Existing
<1>2. CASE s.task # New
  <2>1. s.task \in Task /\ s.version \in Nat
    BY <1>2 DEF Selection, Names
  <2>2. PICK v \in Nat \ {0} : v = IF list[s.task] # 0 THEN list[s.task] ELSE s.version
    BY <2>1 DEF Types
  <2>3. Existing(s) = [task |-> s.task, version |-> v]
    BY <1>2, <2>2 DEF Existing
  <2> QED
    BY <1>2, <2>1, <2>3 DEF Row, Version
<1> QED
  BY <1>1, <1>2

\* A panel just opened shows one task.
LEMMA FreshCoherent ==
  ASSUME Types, NEW s \in Selection, s.task # None, s.task \in Task => s.version # 0
  PROVE  Fresh(Existing(s)) \in PanelRec /\ Coherent(Fresh(Existing(s)), s)
<1>1. PICK row \in Row \cup {NoRow} : row = Existing(s)
  BY ExistingRow
<1>2. /\ s.task = New => row = NoRow
      /\ s.task # New => row \in Row /\ row.task = s.task
  BY <1>1, ExistingRow
<1>3. NoRow.task = None /\ Blank.task = New
  BY DEF NoRow, Blank
<1>4. PICK p \in PanelRec :
        /\ p = Fresh(row) /\ p.base = row
        /\ p.form = IF row = NoRow THEN Blank ELSE row
        /\ p.rejected.kind = None
  BY FreshPanel
<1>5. Coherent(p, s)
  BY <1>2, <1>3, <1>4, RowsApart DEF Coherent, None
<1> QED
  BY <1>1, <1>4, <1>5

------------------------------------------------------------------------------
(* What a step leaves of the panel and the requests.                       *)

\* The same task stays open: the panel may be rebuilt and requests made,
\* answered or forgotten.
LEMMA Stays ==
  ASSUME IInv,
         rows' \in [Task -> [version : Nat, here : BOOLEAN]],
         \A t \in Task : rows'[t].here => rows'[t].version # 0,
         list' \in [Task -> Nat],
         selection' \in Selection, selection'.task = selection.task,
         selection'.version = selection.version,
         opened' = opened, rendered' \in {rendered, opened},
         NEW p \in PanelRec, panel' = p, Coherent(p, selection),
         request' \in [Request -> Requests],
         \A r \in Request : \/ request'[r] = request[r] \/ request'[r] = Free
                            \/ Traced(request'[r], selection, opened)
  PROVE  IInv'
<1>1. Types'
  BY DEF IInv, Types
<1>2. Coherent(panel, selection)'
  BY DEF Coherent
<1>3. ASSUME NEW r \in Request
      PROVE  Traced(request[r], selection, opened)'
  <2>1. PICK q : q = request'[r]
    OBVIOUS
  <2>2. Traced(q, selection, opened)
    BY <2>1 DEF IInv, Traced
  <2>3. Traced(q, selection', opened')
    BY <2>2 DEF Traced
  <2> QED
    BY <2>1, <2>3 DEF Traced
<1> QED
  BY <1>1, <1>2, <1>3 DEF IInv

\* A panel is opened.
LEMMA Opens ==
  ASSUME IInv, NEW s \in Selection, s.task # None, s.task \in Task => s.version # 0,
         openPanel(s), UNCHANGED <<rows, list>>,
         request' \in [Request -> Requests],
         \A r \in Request : request'[r] = request[r] \/ request'[r] = Free
  PROVE  IInv'
<1>1. opened \in Nat /\ opened' = opened + 1 /\ rendered <= opened
  BY DEF IInv, Types, openPanel
<1>2. CASE s = selection /\ s.listed
  <2>1. UNCHANGED <<selection, rendered, panel>>
    BY <1>2 DEF openPanel
  <2>2. Types'
    BY <1>1, <2>1 DEF IInv, Types
  <2>3. Coherent(panel, selection)'
    BY <2>1 DEF IInv, Coherent
  <2>4. ASSUME NEW r \in Request
        PROVE  Traced(request[r], selection, opened)'
    <3>1. PICK q : q = request'[r]
      OBVIOUS
    <3>2. Traced(q, selection, opened) /\ (q # Free => q.opened \in Nat)
      BY <3>1 DEF IInv, Traced, Types, Requests, Sent, Answered
    <3>3. Traced(q, selection', opened')
      BY <1>1, <2>1, <3>2 DEF Traced
    <3> QED
      BY <3>1, <3>3 DEF Traced
  <2> QED
    BY <2>2, <2>3, <2>4 DEF IInv
<1>3. CASE ~(s = selection /\ s.listed)
  <2>1. /\ selection' = s /\ rendered' = opened + 1
        /\ panel' = IF s.task = selection.task THEN panel ELSE Fresh(Existing(s))
    BY <1>3 DEF openPanel
  <2>2. PICK p \in PanelRec : panel' = p /\ Coherent(p, s)
    <3>1. CASE s.task = selection.task
      BY <2>1, <3>1 DEF IInv, Types, Coherent
    <3>2. CASE s.task # selection.task
      BY <2>1, <3>2, FreshCoherent DEF IInv
    <3> QED
      BY <3>1, <3>2
  <2>3. Types'
    BY <1>1, <2>1, <2>2 DEF IInv, Types
  <2>4. Coherent(panel, selection)'
    BY <2>1, <2>2 DEF Coherent
  <2>5. ASSUME NEW r \in Request
        PROVE  Traced(request[r], selection, opened)'
    <3>1. PICK q : q = request'[r]
      OBVIOUS
    <3>2. Traced(q, selection, opened) /\ (q # Free => q.opened \in Nat)
      BY <3>1 DEF IInv, Traced, Types, Requests, Sent, Answered
    <3>3. Traced(q, s, opened')
      BY <1>1, <3>2 DEF Traced
    <3> QED
      BY <2>1, <3>1, <3>3 DEF Traced
  <2> QED
    BY <2>3, <2>4, <2>5 DEF IInv
<1> QED
  BY <1>2, <1>3

\* The panel is closed, and hears of no answer.
LEMMA Closes ==
  ASSUME IInv, NEW requests \in [Request -> Requests], ClosePanel(requests),
         UNCHANGED <<rows, list>>,
         \A r \in Request : requests[r] = request[r] \/ requests[r] = Free
  PROVE  IInv'
<1>1. /\ selection' = Nothing /\ rendered' = opened /\ opened' = opened
      /\ panel' = Closed /\ request' = Unmounted(requests)
  BY DEF ClosePanel
<1>2. Nothing \in Selection /\ Nothing.task = None
  BY DEF Nothing, Object, Selection, Names
<1>3. ASSUME NEW r \in Request
      PROVE  /\ request'[r] \in Requests
             /\ Traced(request[r], selection, opened)'
  <2>0. PICK q \in Requests : q = requests[r]
    OBVIOUS
  <2>1. q = requests[r] /\ Traced(q, selection, opened)
    BY <2>0 DEF IInv, Traced
  <2>2. CASE q = Free
    <3>1. request'[r] = Free
      BY <1>1, <2>1, <2>2 DEF Unmounted
    <3> QED
      BY <3>1 DEF Traced, Requests
  <2>3. CASE q # Free
    <3> DEFINE next == [q EXCEPT !.mounted = FALSE]
    <3>1. request'[r] = next
      BY <1>1, <2>1, <2>3 DEF Unmounted
    <3>2. /\ next \in Requests /\ next.opened = q.opened /\ next.mounted = FALSE
          /\ next.at = q.at /\ next.kind = q.kind /\ next.editing = q.editing
          /\ next.strayed = q.strayed
          /\ q.at = "sent" => /\ next.task = q.task /\ next.version = q.version
                              /\ next.form = q.form
          /\ q.at = "answered" => next.answer = q.answer
      BY <2>1, <2>3 DEF Requests, Sent, Answered
    <3> HIDE DEF next
    <3>3. Traced(next, Nothing, opened)
      BY <1>2, <2>1, <2>3, <3>2 DEF Traced
    <3> QED
      BY <1>1, <3>1, <3>2, <3>3 DEF Traced
  <2> QED
    BY <2>2, <2>3
<1>4. request' \in [Request -> Requests]
  BY <1>1, <1>3 DEF Unmounted
<1>5. Types'
  BY <1>1, <1>2, <1>4, ClosedPanel, NamesApart DEF IInv, Types
<1>6. Coherent(panel, selection)'
  BY <1>1, <1>2, ClosedPanel DEF Coherent
<1> QED
  BY <1>3, <1>5, <1>6 DEF IInv

------------------------------------------------------------------------------
(* What the user and the page do.                                          *)

\* A row of the list, or a new task, is opened.
LEMMA OpenKeeps ==
  ASSUME IInv, NEW s \in {NewTask} \cup {Object(t, list[t], TRUE) : t \in {u \in Task : list[u] # 0}},
         openPanel(s), UNCHANGED <<rows, list, request>>
  PROVE  IInv'
<1>1. CASE s = NewTask
  <2>1. s \in Selection /\ s.task = New
    BY <1>1 DEF NewTask, Object, Selection, Names
  <2> QED
    BY <2>1, NamesApart, Opens DEF IInv, Types
<1>2. ASSUME NEW t \in Task, list[t] # 0, s = Object(t, list[t], TRUE)
      PROVE  IInv'
  <2>1. s \in Selection /\ s.task = t /\ s.version # 0
    BY <1>2 DEF Object, Selection, Names, IInv, Types
  <2> QED
    BY <2>1, NamesApart, Opens DEF IInv, Types
<1> QED
  BY <1>1, <1>2

\* The panel is closed by its cross or by leaving.
LEMMA CloseKeeps ==
  ASSUME IInv, Close \/ Leave
  PROVE  IInv'
  BY Closes DEF Close, Leave, IInv, Types

\* App renders, a list arrives, and rows are edited elsewhere.
LEMMA PageKeeps ==
  ASSUME IInv, Render \/ Refetch
  PROVE  IInv'
<1>1. panel \in PanelRec /\ panel' = panel /\ Coherent(panel, selection)
  BY DEF IInv, Types, Render, Refetch, AfterRefetch
<1>2. list' \in [Task -> Nat]
  BY DEF IInv, Types, Render, Refetch
<1>3. /\ selection' \in Selection /\ selection'.task = selection.task
      /\ selection'.version = selection.version
  BY DEF IInv, Types, Render, Refetch, Selection
<1>4. UNCHANGED <<rows, opened, request>> /\ rendered' = opened
  BY DEF Render, Refetch
<1> QED
  BY <1>1, <1>2, <1>3, <1>4, Stays DEF IInv, Types

\* Typing, and the dialog that asks before a deletion.
LEMMA TypeKeeps ==
  ASSUME IInv, Type \/ Confirm \/ Cancel
  PROVE  IInv'
<1>1. PICK old \in PanelRec : old = panel /\ Coherent(old, selection)
  BY DEF IInv, Types
<1>2. Showing
  BY <1>1, ClosedPanel DEF Type, Confirm, Cancel, Showing, Coherent
<1>3. PICK typed \in BOOLEAN, confirming \in BOOLEAN :
        panel' = [old EXCEPT !.typed = typed, !.confirming = confirming]
  <2>1. CASE Type
    BY <1>1, <2>1 DEF Type, PanelRec
  <2>2. CASE Confirm
    BY <1>1, <2>2 DEF Confirm, PanelRec
  <2>3. CASE Cancel
    BY <1>1, <2>3 DEF Cancel, PanelRec
  <2> QED
    BY <2>1, <2>2, <2>3
<1> DEFINE next == [old EXCEPT !.typed = typed, !.confirming = confirming]
<1>4. /\ next \in PanelRec /\ next.base = old.base /\ next.form = old.form
      /\ next.rejected = old.rejected /\ (next.strayed <=> old.strayed)
  BY DEF PanelRec
<1>5. panel' = next
  BY <1>3
<1> HIDE DEF next
<1>6. Coherent(next, selection)
  BY <1>1, <1>2, <1>4 DEF Coherent, Showing
<1>7. UNCHANGED <<rows, list, selection, opened, rendered, request>>
  BY DEF Type, Confirm, Cancel
<1> QED
  BY <1>4, <1>5, <1>6, <1>7, Stays DEF IInv, Types

\* The newer version is loaded: row and form together.
LEMMA LoadKeeps ==
  ASSUME IInv, Load
  PROVE  IInv'
<1>1. PICK old \in PanelRec : old = panel /\ Coherent(old, selection)
  BY DEF IInv, Types
<1>2. old.rejected.kind = "conflict" /\ old.rejected # NoRejection
  BY <1>1 DEF Load, NoRejection, None
<1>3. Showing
  BY <1>1, <1>2, ClosedPanel DEF Showing, Coherent
<1>4. PICK row \in Row : row = old.rejected.current
  BY <1>2 DEF PanelRec, Rejection
<1> DEFINE next == [old EXCEPT !.base = row, !.form = row, !.typed = FALSE,
                               !.rejected = NoRejection]
<1>5. /\ next \in PanelRec /\ next.base = row /\ next.form = row
      /\ next.rejected = NoRejection /\ (next.strayed <=> old.strayed)
  BY DEF PanelRec, Rejection
<1>6. panel' = next
  BY <1>1, <1>4 DEF Load, Loaded
<1> HIDE DEF next
<1>7. NoRejection.kind = None
  BY DEF NoRejection
<1>8. row.task \in Task
  BY DEF Row
<1>9. Coherent(next, selection)
  BY <1>1, <1>2, <1>3, <1>4, <1>5, <1>7, <1>8, NamesApart DEF Coherent, Showing, None
<1> QED
  BY <1>5, <1>6, <1>9, Stays DEF IInv, Types, Load

\* Somebody else writes a row.
LEMMA WrittenRows ==
  ASSUME Types, NEW t \in Task, NEW here \in BOOLEAN, WriteRow(t, here)
  PROVE  /\ rows' \in [Task -> [version : Nat, here : BOOLEAN]]
         /\ \A u \in Task : rows'[u].here => rows'[u].version # 0
<1>1. PICK v \in Nat : v = rows[t].version + 1
  BY DEF Types
<1>2. rows' = [rows EXCEPT ![t] = [version |-> v, here |-> here]]
  BY <1>1 DEF WriteRow
<1>3. v # 0
  BY <1>1 DEF Types
<1> QED
  BY <1>2, <1>3 DEF Types

\* Somebody else edits a row.
LEMMA ElsewhereKeeps ==
  ASSUME IInv, NEW t \in Task, Elsewhere(t)
  PROVE  IInv'
<1>1. PICK here \in BOOLEAN : WriteRow(t, here)
  BY DEF Elsewhere
<1> QED
  BY <1>1, WrittenRows, Stays DEF Elsewhere, IInv, Types

------------------------------------------------------------------------------
(* Requests.                                                               *)

\* A request a hook looks at no more is otherwise as it was.
LEMMA Supersedes ==
  ASSUME IInv, NEW kind
  PROVE  /\ Superseded(kind) \in [Request -> Requests]
         /\ \A r \in Request : Traced(Superseded(kind)[r], selection, opened)
<1> SUFFICES ASSUME NEW r \in Request
             PROVE  /\ Superseded(kind)[r] \in Requests
                    /\ Traced(Superseded(kind)[r], selection, opened)
  BY DEF Superseded
<1>1. PICK q \in Requests : q = request[r] /\ Traced(q, selection, opened)
  BY DEF IInv, Types
<1> DEFINE next == [q EXCEPT !.latest = FALSE]
<1>2. Superseded(kind)[r] = q \/ (q # Free /\ Superseded(kind)[r] = next)
  BY <1>1 DEF Superseded
<1>3. q # Free => /\ next \in Requests /\ next.opened = q.opened /\ next.mounted = q.mounted
                  /\ next.at = q.at /\ next.kind = q.kind /\ next.editing = q.editing
                  /\ next.strayed = q.strayed
                  /\ q.at = "sent" => /\ next.task = q.task /\ next.version = q.version
                                      /\ next.form = q.form
                  /\ q.at = "answered" => next.answer = q.answer
  BY DEF Requests, Sent, Answered
<1> HIDE DEF next
<1>4. q # Free => Traced(next, selection, opened)
  BY <1>1, <1>3 DEF Traced
<1> QED
  BY <1>1, <1>2, <1>3, <1>4

\* A request is made, of the row the panel shows or to follow a link.
LEMMA AskKeeps ==
  ASSUME IInv, NEW r \in Request, NEW kind \in Kind, NEW t \in Names, NEW v \in Nat,
         Ask(r, kind, t, v), panel' = panel,
         kind # "create" => t \in Task,
         kind = "create" => Showing,
         kind \notin {"create", "open"} =>
           panel.base # NoRow /\ t = panel.base.task /\ v = panel.base.version
  PROVE  IInv'
<1>1. PICK p \in PanelRec : p = panel /\ Coherent(p, selection)
  BY DEF IInv, Types
<1>2. PICK form \in Row \cup {Blank, NoRow}, n \in Nat, strayed \in BOOLEAN, mounted \in BOOLEAN :
        /\ form = IF kind = "update" THEN p.form ELSE NoRow
        /\ n = IF kind = "delete" THEN rendered ELSE 0
        /\ strayed = p.strayed /\ mounted = (kind # "open")
  BY <1>1 DEF IInv, Types, PanelRec
<1>3. PICK editing \in Names :
        editing = IF kind = "open" THEN None ELSE selection.task
  BY DEF IInv, Types, Selection, Names
<1> DEFINE q == [at |-> "sent", kind |-> kind, task |-> t, version |-> v, form |-> form,
                 editing |-> editing, opened |-> n, mounted |-> mounted,
                 latest |-> TRUE, strayed |-> strayed]
<1>4. /\ q \in Sent /\ q # Free /\ q.at = "sent" /\ q.kind = kind /\ q.task = t
      /\ q.version = v /\ q.form = form /\ q.editing = editing /\ q.opened = n
      /\ q.mounted = mounted /\ q.strayed = strayed
  BY DEF Sent, Free
<1>5. request' = [Superseded(kind) EXCEPT ![r] = q]
  BY <1>1, <1>2, <1>3 DEF Ask
<1> HIDE DEF q
<1>6. n <= opened /\ (kind = "delete" /\ n = opened => editing = selection.task)
  BY <1>2, <1>3 DEF IInv, Types
<1>7. kind \notin {"create", "open"} => /\ p.base \in Row /\ p.form = p.base
                                        /\ selection.task # None
  BY <1>1, ClosedPanel DEF Coherent, PanelRec
<1>8. mounted => selection.task # None
  BY <1>2, <1>7 DEF Showing
<1>9. kind = "update" => form = [task |-> t, version |-> v]
  BY <1>1, <1>2, <1>7 DEF Row
<1>10. (kind \in Changing /\ ~strayed) => t = editing
  <2>1. SUFFICES ASSUME kind \in Changing, ~strayed PROVE t = editing
    OBVIOUS
  <2>2. /\ p.base \in Row /\ p.base.task \in Task /\ t = p.base.task
        /\ selection.task # None /\ editing = selection.task /\ ~p.strayed
    BY <1>1, <1>2, <1>3, <1>7, <2>1 DEF Changing, Row
  <2> QED
    BY <1>1, <2>2, NamesApart DEF Coherent
<1>11. Traced(q, selection, opened)
  BY <1>4, <1>6, <1>8, <1>9, <1>10 DEF Traced
<1>12. /\ request' \in [Request -> Requests]
       /\ \A u \in Request : Traced(request'[u], selection, opened)
  BY <1>4, <1>5, <1>11, Supersedes DEF Requests
<1> QED
  BY <1>1, <1>12, Stays DEF Ask, IInv, Types

\* The buttons, and a link that is followed.
LEMMA UseKeeps ==
  ASSUME IInv, NEW r \in Request, Use(r)
  PROVE  IInv'
<1>1. panel.base # NoRow => /\ panel.base.task \in Task \cap Names
                            /\ panel.base.version \in Nat
  BY DEF IInv, Types, PanelRec, Row, Version, Names
<1>2. Changing \cup {"link", "create", "open"} = Kind /\ New \in Names
      /\ Task \subseteq Names /\ 0 \in Nat
  BY DEF Kind, Names
<1>3. CASE save(r)
  BY <1>1, <1>2, <1>3, AskKeeps DEF save, AskAbout, Changing
<1>4. CASE destroy(r) \/ finish(r) \/ link(r)
  BY <1>1, <1>2, <1>4, AskKeeps DEF destroy, finish, link, AskAbout, Changing
<1>5. ASSUME NEW t \in Task, Follow(r, t)
      PROVE  IInv'
  <2>1. CASE list[t] # 0
    BY <1>5, <2>1, OpenKeeps DEF Follow
  <2>2. CASE list[t] = 0
    BY <1>2, <1>5, <2>2, AskKeeps DEF Follow
  <2> QED
    BY <2>1, <2>2
<1> QED
  BY <1>3, <1>4, <1>5 DEF Use

\* The server answers: with a row of the task asked about, if it changed or
\* refused it.
LEMMA ReplyKeeps ==
  ASSUME IInv, NEW r \in Request, NEW q \in Sent, q = request[r], NEW a \in Answers,
         Reply(r, a),
         rows' \in [Task -> [version : Nat, here : BOOLEAN]],
         \A t \in Task : rows'[t].here => rows'[t].version # 0,
         (q.kind \in Changing /\ a.is \in {"ok", "conflict"}) => a.row.task = q.task,
         q.kind \notin Changing => a.is # "conflict",
         q.kind \in {"create", "open"} => a.is = "ok"
  PROVE  IInv'
<1>1. Traced(q, selection, opened) /\ q # Free /\ q.at = "sent"
  BY DEF IInv, Sent, Free
<1> DEFINE next == [at |-> "answered", kind |-> q.kind, answer |-> a, editing |-> q.editing,
                    opened |-> q.opened, mounted |-> q.mounted, latest |-> q.latest,
                    strayed |-> q.strayed]
<1>2. /\ next \in Answered /\ next.at = "answered" /\ next.kind = q.kind
      /\ next.answer = a /\ next.editing = q.editing /\ next.opened = q.opened
      /\ next.mounted = q.mounted /\ next.strayed = q.strayed
  BY DEF Answered, Sent
<1>3. request' = [request EXCEPT ![r] = next]
  BY DEF Reply
<1> HIDE DEF next
<1>4. Traced(next, selection, opened)
  BY <1>1, <1>2 DEF Traced
<1>5. /\ request' \in [Request -> Requests]
      /\ \A u \in Request : request'[u] = request[u] \/ Traced(request'[u], selection, opened)
  BY <1>2, <1>3, <1>4 DEF IInv, Types, Requests
<1> QED
  BY <1>5, Stays DEF Reply, IInv, Types

\* Each kind of request is answered that way.
LEMMA ServeKeeps ==
  ASSUME IInv, NEW r \in Request, Serve(r)
  PROVE  IInv'
<1>1. PICK q \in Sent : q = request[r] /\ Traced(q, selection, opened) /\ q # Free
  BY DEF Serve, IInv, Types, Requests, Free, Answered, Sent
<1>2. q.kind # "create" => q.task \in Task
  BY <1>1 DEF Traced, Sent
<1>3. \A t \in Task, v \in Nat \ {0} :
        /\ Ok(t, v) \in Answers /\ Ok(t, v).is = "ok" /\ Ok(t, v).row.task = t
        /\ [is |-> "conflict", row |-> [task |-> t, version |-> v]] \in Answers
  BY DEF Ok, Answers, Row, Version
<1>4. \A k \in {"blocked", "gone"} : Refusal(k) \in Answers /\ Refusal(k).is = k
  BY DEF Refusal, Answers
<1>5. CASE ServeWrite(r)
  <2>1. q.kind \in Changing /\ q.task \in Task /\ rows[q.task].version \in Nat
        /\ q.kind \notin {"create", "open"}
    BY <1>1, <1>2, <1>5 DEF ServeWrite, Changing, IInv, Types
  <2>2. CASE Accept(r)
    <3>1. PICK here \in BOOLEAN : WriteRow(q.task, here) /\ Reply(r, Ok(q.task, q.version + 1))
      BY <1>1, <2>1, <2>2 DEF Accept, IInv, Types
    <3>2. q.version + 1 \in Nat \ {0}
      BY DEF Sent
    <3> QED
      BY <1>1, <1>3, <2>1, <3>1, <3>2, WrittenRows, ReplyKeeps DEF IInv
  <2>3. CASE Conflict(r)
    <3>1. rows' = rows
      BY <2>3 DEF Conflict
    <3>2. CASE rows[q.task].here
      <4>1. PICK v \in Nat \ {0} : v = rows[q.task].version
        BY <2>1, <3>2 DEF IInv, Types
      <4>2. PICK a \in Answers :
              a = [is |-> "conflict", row |-> [task |-> q.task, version |-> v]]
        BY <1>3, <2>1
      <4>3. Reply(r, a)
        BY <1>1, <2>3, <3>2, <4>1, <4>2 DEF Conflict
      <4> QED
        BY <1>1, <2>1, <3>1, <4>2, <4>3, ReplyKeeps DEF IInv, Types
    <3>3. CASE ~rows[q.task].here
      <4>1. Reply(r, Refusal("gone"))
        BY <1>1, <2>3, <3>3 DEF Conflict
      <4> QED
        BY <1>1, <1>4, <2>1, <3>1, <4>1, ReplyKeeps DEF IInv, Types
    <3> QED
      BY <3>2, <3>3
  <2> QED
    BY <1>5, <2>2, <2>3 DEF ServeWrite
<1>6. CASE Refuse(r)
  BY <1>1, <1>4, <1>6, ReplyKeeps DEF Refuse, IInv, Types
<1>7. CASE ServeCreate(r)
  <2>1. PICK t \in Task : WriteRow(t, TRUE) /\ Reply(r, Ok(t, 1))
    BY <1>7 DEF ServeCreate
  <2>2. PICK a \in Answers : a = Ok(t, 1) /\ a.is = "ok"
    <3>1. 1 \in Nat \ {0}
      OBVIOUS
    <3>2. Ok(t, 1) \in Answers /\ Ok(t, 1).is = "ok"
      BY <1>3, <3>1
    <3> QED
      BY <3>2
  <2>3. q.kind \notin Changing
    BY <1>1, <1>7 DEF ServeCreate, Changing
  <2>4. /\ rows' \in [Task -> [version : Nat, here : BOOLEAN]]
        /\ \A u \in Task : rows'[u].here => rows'[u].version # 0
    BY <2>1, WrittenRows DEF IInv
  <2> QED
    BY <1>1, <2>1, <2>2, <2>3, <2>4, ReplyKeeps
<1>8. CASE ServeOpen(r)
  <2>1. q.kind = "open" /\ q.task \in Task /\ rows[q.task].here /\ rows' = rows
        /\ Reply(r, Ok(q.task, rows[q.task].version))
    BY <1>1, <1>2, <1>8 DEF ServeOpen
  <2>2. PICK v \in Nat \ {0} : v = rows[q.task].version
    BY <2>1 DEF IInv, Types
  <2>3. PICK a \in Answers : a = Ok(q.task, v) /\ a.is = "ok"
    BY <1>3, <2>1
  <2>4. Reply(r, a)
    BY <2>1, <2>2, <2>3
  <2>5. q.kind \notin Changing
    BY <2>1 DEF Changing
  <2> QED
    BY <1>1, <2>1, <2>3, <2>4, <2>5, ReplyKeeps DEF IInv, Types
<1> QED
  BY <1>5, <1>6, <1>7, <1>8 DEF Serve

------------------------------------------------------------------------------
(* Answers.                                                                *)

\* A request that is over.
LEMMA DoneIs ==
  ASSUME Types, NEW r \in Request
  PROVE  /\ Done(r) \in [Request -> Requests]
         /\ \A u \in Request : Done(r)[u] = request[u] \/ Done(r)[u] = Free
         /\ \A u \in Request \ {r} : Done(r)[u] = request[u]
  BY DEF Types, Done, Requests

\* What an answer that has come is known to be.
LEMMA AnsweredIs ==
  ASSUME IInv, NEW r \in Request, request[r].at = "answered"
  PROVE  \E q \in Answered : q = request[r] /\ q # Free /\ Traced(q, selection, opened)
  BY DEF IInv, Types, Requests, Sent, Free, Answered

\* A save or a completion is answered with the row it made.
LEMMA SavedKeeps ==
  ASSUME IInv, NEW r \in Request, request[r].at = "answered", request[r].answer.is = "ok",
         AnswerSaved(r), UNCHANGED <<rows, list>>
  PROVE  IInv'
<1>1. PICK q \in Answered : q = request[r] /\ q # Free /\ Traced(q, selection, opened)
  BY AnsweredIs
<1>2. PICK old \in PanelRec : old = panel /\ Coherent(old, selection)
  BY DEF IInv, Types
<1>3. PICK saved \in Row : saved = q.answer.row
  BY <1>1 DEF Answered, Answers
<1>4. PICK p \in PanelRec : panel' = p /\ Coherent(p, selection)
  <2>1. CASE ~Applies(r)
    BY <1>2, <2>1 DEF AnswerSaved
  <2>2. CASE Applies(r)
    <3>1. PICK strayed \in BOOLEAN : strayed <=> (old.strayed \/ q.strayed)
      OBVIOUS
    <3> DEFINE next == [old EXCEPT !.base = saved, !.form = saved, !.typed = FALSE,
                                   !.strayed = strayed]
    <3>2. /\ next \in PanelRec /\ next.base = saved /\ next.form = saved
          /\ next.rejected = old.rejected /\ next.strayed = strayed
      BY DEF PanelRec
    <3>3. strayed = (old.strayed \/ q.strayed)
      BY <3>1 DEF PanelRec, Answered
    <3>4. panel' = next
      BY <1>1, <1>2, <1>3, <2>2, <3>3 DEF AnswerSaved
    <3> HIDE DEF next
    <3>5. selection.task # None /\ selection.task = q.editing
      BY <1>1, <2>2 DEF Applies, Traced
    <3>6. ~q.strayed => saved.task = q.editing
      BY <1>1, <1>3 DEF Traced, AnswerSaved, Changing
    <3>7. saved.task \in Task
      BY DEF Row
    <3>8. Coherent(next, selection)
      BY <1>2, <3>1, <3>2, <3>5, <3>6, <3>7, NamesApart DEF Coherent
    <3> QED
      BY <3>2, <3>4, <3>8
  <2> QED
    BY <2>1, <2>2
<1> QED
  BY <1>4, DoneIs, Stays DEF AnswerSaved, IInv, Types

\* A refusal is shown.
LEMMA HandleKeeps ==
  ASSUME IInv, NEW r \in Request, request[r].at = "answered", request[r].answer.is # "ok",
         handle(r), UNCHANGED <<rows, list>>
  PROVE  IInv'
<1>1. PICK q \in Answered : q = request[r] /\ q # Free /\ Traced(q, selection, opened)
  BY AnsweredIs
<1>2. PICK old \in PanelRec : old = panel /\ Coherent(old, selection)
  BY DEF IInv, Types
<1>3. PICK p \in PanelRec : panel' = p /\ Coherent(p, selection)
  <2>1. CASE ~q.mounted
    BY <1>1, <1>2, <2>1 DEF handle
  <2>2. CASE q.mounted
    <3> DEFINE shown == IF q.answer.is = "conflict"
                        THEN [kind |-> "conflict", of |-> q.editing,
                              current |-> q.answer.row]
                        ELSE [kind |-> q.answer.is, of |-> q.editing]
    <3>0. /\ shown \in Rejection /\ shown.of = q.editing
          /\ shown.kind = "conflict" =>
               q.answer.is = "conflict" /\ shown.current = q.answer.row
      <4>1. q.editing \in Names /\ q.answer \in Answers
        BY DEF Answered
      <4>2. CASE q.answer.is = "conflict"
        <5>1. q.answer.row \in Row
          BY <4>1, <4>2 DEF Answers
        <5> QED
          BY <4>1, <4>2, <5>1 DEF Rejection
      <4>3. CASE q.answer.is # "conflict"
        <5>1. q.answer.is \in {"blocked", "gone"}
          BY <1>1, <4>1, <4>3 DEF Answers
        <5> QED
          BY <4>1, <4>3, <5>1 DEF Rejection
      <4> QED
        BY <4>2, <4>3
    <3>1. PICK rejection \in Rejection :
            /\ rejection = shown
            /\ rejection.of = q.editing
            /\ rejection.kind = "conflict" =>
                 q.answer.is = "conflict" /\ rejection.current = q.answer.row
      BY <3>0
    <3>2. PICK strayed \in BOOLEAN :
            strayed = (old.strayed \/ q.strayed \/ selection.task # q.editing)
      BY DEF PanelRec, Answered
    <3> DEFINE next == [old EXCEPT !.rejected = rejection, !.strayed = strayed]
    <3>3. /\ next \in PanelRec /\ next.base = old.base /\ next.form = old.form
          /\ next.rejected = rejection /\ next.strayed = strayed
      BY DEF PanelRec
    <3>4. panel' = next
      BY <1>1, <1>2, <2>2, <3>1, <3>2 DEF handle
    <3> HIDE DEF next
    <3>5. selection.task # None
      BY <1>1, <2>2 DEF Traced
    <3>6. (~strayed /\ rejection.kind = "conflict") => rejection.current.task = selection.task
      BY <1>1, <3>1, <3>2 DEF Traced
    <3>7. Coherent(next, selection)
      BY <1>2, <3>1, <3>2, <3>3, <3>5, <3>6 DEF Coherent
    <3> QED
      BY <3>3, <3>4, <3>7
  <2> QED
    BY <2>1, <2>2
<1> QED
  BY <1>3, DoneIs, Stays DEF handle, IInv, Types

\* Each answer does one of these, opens a row, or closes the panel.
LEMMA AnswerKeeps ==
  ASSUME IInv, NEW r \in Request, Answer(r)
  PROVE  IInv'
<1>1. PICK q \in Answered : q = request[r] /\ q # Free /\ Traced(q, selection, opened)
  BY AnsweredIs DEF Answer
<1>2. CASE q.answer.is # "ok"
  BY <1>1, <1>2, HandleKeeps DEF Answer
<1>3. CASE q.answer.is = "ok" /\ AnswerSaved(r)
  BY <1>1, <1>3, SavedKeeps DEF Answer
<1>4. CASE q.answer.is = "ok" /\ AnswerDeleted(r)
  <2>1. CASE Untouched(r)
    BY <1>4, <2>1, DoneIs, Closes DEF AnswerDeleted, Answer, IInv
  <2>2. CASE ~Untouched(r)
    BY <1>4, <2>2, DoneIs, Stays DEF AnswerDeleted, Answer, IInv, Types
  <2> QED
    BY <2>1, <2>2
<1>5. CASE q.answer.is = "ok" /\ AnswerOpens(r)
  <2>1. PICK row \in Row : row = q.answer.row
    BY <1>1, <1>5 DEF Answered, Answers
  <2>2. PICK s : s = Object(row.task, row.version, FALSE)
    OBVIOUS
  <2>3. s \in Selection /\ s.task \in Task /\ s.version # 0
    BY <2>2 DEF Object, Selection, Names, Row, Version
  <2>4. openPanel(s) /\ request' = Done(r)
    BY <1>1, <1>5, <2>1, <2>2 DEF AnswerOpens
  <2> QED
    BY <2>3, <2>4, NamesApart, DoneIs, Opens DEF Answer, IInv
<1> QED
  BY <1>1, <1>2, <1>3, <1>4, <1>5 DEF Answer

\* A request settles without a trace.
LEMMA SettleKeeps ==
  ASSUME IInv, NEW r \in Request, Settle(r)
  PROVE  IInv'
  BY DoneIs, Stays DEF Settle, IInv, Types

------------------------------------------------------------------------------
(* What follows.                                                           *)

\* Before anything is opened.
LEMMA InitInv == Init => IInv
<1> SUFFICES ASSUME Init PROVE IInv
  OBVIOUS
<1>1. /\ Nothing \in Selection /\ Nothing.task = None
      /\ [version |-> 0, here |-> FALSE] \in [version : Nat, here : BOOLEAN]
      /\ [version |-> 1, here |-> TRUE] \in [version : Nat, here : BOOLEAN]
  BY DEF Nothing, Object, Selection, Names
<1>2. Types
  <2>1. /\ rows \in [Task -> [version : Nat, here : BOOLEAN]]
        /\ \A t \in Task : rows[t].here => rows[t].version # 0
    <3> DEFINE missing == [version |-> 0, here |-> FALSE]
               present == [version |-> 1, here |-> TRUE]
    <3>1. rows \in [Task -> {missing, present}]
      BY DEF Init
    <3>2. missing.here = FALSE /\ present.version = 1
      OBVIOUS
    <3>3. missing \in [version : Nat, here : BOOLEAN] /\ present \in [version : Nat, here : BOOLEAN]
      BY <1>1
    <3> HIDE DEF missing, present
    <3> QED
      BY <3>1, <3>2, <3>3
  <2>2. list \in [Task -> Nat]
    BY <2>1 DEF Init
  <2>3. request \in [Request -> Requests]
    BY DEF Init, Requests
  <2> QED
    BY <1>1, <2>1, <2>2, <2>3, ClosedPanel, NamesApart DEF Init, Types
<1>3. Coherent(panel, selection)
  BY <1>1, ClosedPanel DEF Init, Coherent
<1>4. \A r \in Request : Traced(request[r], selection, opened)
  BY DEF Init, Traced
<1> QED
  BY <1>2, <1>3, <1>4 DEF IInv

\* No step breaks the invariant.
LEMMA NextInv ==
  ASSUME IInv, [Next]_vars
  PROVE  IInv'
<1>1. CASE UNCHANGED vars
  BY <1>1, Stays DEF vars, IInv, Types
<1>2. ASSUME NEW t \in Task, Open(t) \/ Elsewhere(t)
      PROVE  IInv'
  BY <1>2, OpenKeeps, ElsewhereKeeps DEF Open
<1>3. CASE OpenNew
  BY <1>3, OpenKeeps DEF OpenNew
<1>4. CASE Close \/ Leave \/ Render \/ Refetch \/ Type \/ Confirm \/ Cancel \/ Load
  BY <1>4, CloseKeeps, PageKeeps, TypeKeeps, LoadKeeps
<1>5. ASSUME NEW r \in Request, Use(r) \/ Serve(r) \/ Answer(r) \/ Settle(r)
      PROVE  IInv'
  BY <1>5, UseKeeps, ServeKeeps, AnswerKeeps, SettleKeeps
<1> QED
  BY <1>1, <1>2, <1>3, <1>4, <1>5 DEF Next

\* The invariant holds in every reachable state.
THEOREM Invariant == Spec => []IInv
  BY InitInv, NextInv, PTL DEF Spec

\* Types, and nothing of a panel outlives its unmounting: whatever is under way
\* when it is closed is heard of no more, and none of it opens or fills the
\* panel anew (TaskDetail, unmounted with the selection).
THEOREM PanelTyped == Spec => []TypeOK
<1>1. IInv => TypeOK
  <2> SUFFICES ASSUME IInv PROVE TypeOK
    OBVIOUS
  <2>1. \A r \in Request : request[r] # Free => request[r] \in Sent \cup Answered
    BY DEF IInv, Types, Requests
  <2>2. ASSUME NEW r \in Request, request[r] # Free
        PROVE  /\ request[r].at \in {"sent", "answered"}
               /\ request[r].editing \in Task \cup {New, None}
               /\ request[r].opened \in 0..opened
               /\ Showing \/ ~request[r].mounted
    <3>1. PICK q \in Sent \cup Answered :
            q = request[r] /\ Traced(q, selection, opened) /\ q # Free
      BY <2>1, <2>2 DEF IInv
    <3>2. /\ q.at \in {"sent", "answered"} /\ q.editing \in Names
          /\ q.opened \in Nat
      BY DEF Sent, Answered
    <3>3. q.opened \in 0..opened /\ (q.mounted => Showing)
      BY <3>1, <3>2 DEF Traced, Showing, IInv, Types
    <3> QED
      BY <3>1, <3>2, <3>3 DEF Names
  <2>3. /\ panel.base \in Row \cup {NoRow} /\ panel.form \in Row \cup {Blank, NoRow}
        /\ panel.typed \in BOOLEAN /\ panel.confirming \in BOOLEAN
        /\ panel.rejected.kind \in {None, "conflict", "blocked", "gone"}
        /\ Showing \/ panel = Closed
    BY DEF IInv, Types, PanelRec, Rejection, NoRejection, Coherent, Showing
  <2>4. /\ rows \in [Task -> [version : Version, here : BOOLEAN]]
        /\ list \in [Task -> Version]
        /\ selection \in [task : Task \cup {New, None}, version : Version, listed : BOOLEAN]
        /\ opened \in Nat /\ rendered \in 0..opened
    BY DEF IInv, Types, Selection, Names, Version
  <2> QED
    BY <2>2, <2>3, <2>4 DEF TypeOK
<1> QED
  BY <1>1, Invariant, PTL

\* The panel shows one task, however late its answers come, unless a refusal of
\* another task, or what was then asked of that task, led it astray (handle).
THEOREM OneTaskShown == Spec => []PanelIsOfOneTask
<1>1. IInv => PanelIsOfOneTask
  BY DEF IInv, Coherent, PanelIsOfOneTask, Showing
<1> QED
  BY <1>1, Invariant, PTL

\* Which steps end a request or answer it.
LEMMA WhoAnswers ==
  ASSUME IInv, [Next]_vars, NEW r \in Request, request'[r] # request[r], request[r] # Free
  PROVE  \/ Serve(r) \/ Answer(r) \/ Settle(r)
         \/ /\ request'[r] # Free /\ request'[r].at = request[r].at
<1>0. request \in [Request -> Requests] /\ request[r] \in Sent \cup Answered
  BY DEF IInv, Types, Requests
<1>1. ASSUME NEW requests \in [Request -> Requests], requests[r] = request[r],
             request' = Unmounted(requests)
      PROVE  request'[r] # Free /\ request'[r].at = request[r].at
  <2>1. request'[r] = [request[r] EXCEPT !.mounted = FALSE]
    BY <1>1 DEF Unmounted
  <2> QED
    BY <1>0, <2>1 DEF Sent, Answered, Free
<1>2. CASE Close \/ Leave
  BY <1>0, <1>1, <1>2 DEF Close, Leave, ClosePanel
<1>3. ASSUME NEW u \in Request, Use(u)
      PROVE  request'[r] # Free /\ request'[r].at = request[r].at
  <2>1. ASSUME NEW kind, NEW t, NEW v, Ask(u, kind, t, v)
        PROVE  request'[r] # Free /\ request'[r].at = request[r].at
    <3>1. u # r /\ request' = [Superseded(kind) EXCEPT ![u] = request'[u]]
      BY <2>1 DEF Ask, Superseded
    <3>2. request'[r] \in {request[r], [request[r] EXCEPT !.latest = FALSE]}
      BY <3>1 DEF Superseded
    <3> QED
      BY <1>0, <3>2 DEF Sent, Answered, Free
  <2> QED
    BY <1>3, <2>1 DEF Use, save, destroy, finish, link, AskAbout, Follow
<1>4. ASSUME NEW u \in Request, u # r, Serve(u) \/ Settle(u)
      PROVE  FALSE
  BY <1>0, <1>4 DEF Serve, ServeWrite, Accept, Conflict, Refuse, ServeCreate, ServeOpen,
                    Reply, Settle, Done
<1>5. ASSUME NEW u \in Request, u # r, Answer(u)
      PROVE  request'[r] # Free /\ request'[r].at = request[r].at
  <2>1. Done(u) \in [Request -> Requests] /\ Done(u)[r] = request[r]
    BY <1>5, DoneIs DEF IInv
  <2>2. request' = Done(u) \/ request' = Unmounted(Done(u))
    BY <1>5 DEF Answer, AnswerSaved, AnswerDeleted, AnswerOpens, handle, ClosePanel
  <2> QED
    BY <1>1, <2>1, <2>2
<1>6. \/ Close \/ Leave
      \/ \E u \in Request : Use(u) \/ Serve(u) \/ Answer(u) \/ Settle(u)
  BY DEF Next, vars, Open, Elsewhere, OpenNew, Render, Refetch, Type, Confirm, Cancel, Load
<1> QED
  BY <1>2, <1>3, <1>4, <1>5, <1>6

\* No write is lost: a save the server accepts was made of fields read from the
\* version it replaces, through refusals, versions loaded, late answers and
\* refetched lists (save and onLoad of TaskDetail).
THEOREM SavesWereSeen == Spec => AcceptedWasSeen
<1> DEFINE Seen == \A r \in Request :
       (/\ request[r].at = "sent" /\ request[r].kind = "update"
        /\ request'[r].at = "answered" /\ request'[r].answer.is = "ok") =>
         request[r].form = [task |-> request[r].task,
                            version |-> rows[request[r].task].version]
<1>1. IInv /\ [Next]_vars => Seen
  <2> SUFFICES ASSUME IInv, [Next]_vars, NEW r \in Request,
                      request[r].at = "sent", request[r].kind = "update",
                      request'[r].at = "answered", request'[r].answer.is = "ok"
               PROVE  request[r].form = [task |-> request[r].task,
                                         version |-> rows[request[r].task].version]
    OBVIOUS
  <2>1. /\ request[r] \in Sent /\ request[r] # Free /\ Traced(request[r], selection, opened)
        /\ request \in [Request -> Requests]
    BY DEF IInv, Types, Requests, Sent, Answered, Free
  <2>2. Serve(r)
    <3>1. ~Answer(r)
      BY DEF Answer
    <3>2. ~Settle(r)
      BY <2>1 DEF Settle, Done, Free
    <3> QED
      BY <2>1, <3>1, <3>2, WhoAnswers
  <2>3. Accepts(r)
    <3>1. ASSUME NEW a, Reply(r, a)
          PROVE  request'[r].answer = a
      BY <2>1, <3>1 DEF Reply
    <3>2. \A k \in {"gone", "blocked"} : Refusal(k).is # "ok"
      BY DEF Refusal
    <3>3. ~Refuse(r)
      BY <3>1, <3>2 DEF Refuse
    <3>4. ~Conflict(r)
      BY <3>1, <3>2 DEF Conflict
    <3> QED
      BY <2>2, <3>3, <3>4 DEF Serve, ServeWrite, Accept, ServeCreate, ServeOpen
  <2> QED
    BY <2>1, <2>3 DEF Accepts, Traced
<1> QED
  BY <1>1, Invariant, PTL DEF Spec, AcceptedWasSeen

\* An answer that comes when the panel shows another task leaves it as it is,
\* but for a refusal, which changes what is refused and leads it astray, and for
\* a created or followed row, which is opened in its place (save, finish,
\* closeWhenUntouched, handle, onCreated, onOpenTask).
THEOREM LateAnswersPass == Spec => AnswersLeaveOtherTasks
<1> DEFINE Leaves == \A r \in Request :
       (/\ request[r].at = "answered" /\ request'[r] = Free
        /\ Showing /\ selection.task # request[r].editing) =>
         \/ UNCHANGED <<selection, panel>>
         \/ /\ request[r].answer.is # "ok" /\ request[r].mounted
            /\ selection' = selection
            /\ panel' = [panel EXCEPT !.rejected = panel'.rejected, !.strayed = TRUE]
         \/ /\ request[r].kind \in {"create", "open"}
            /\ opened' = opened + 1 /\ selection'.task = request[r].answer.row.task
<1>1. IInv /\ [Next]_vars => Leaves
  <2> SUFFICES ASSUME IInv, [Next]_vars, NEW r \in Request,
                      request[r].at = "answered", request'[r] = Free,
                      Showing, selection.task # request[r].editing
               PROVE  \/ UNCHANGED <<selection, panel>>
                      \/ /\ request[r].answer.is # "ok" /\ request[r].mounted
                         /\ selection' = selection
                         /\ panel' = [panel EXCEPT !.rejected = panel'.rejected,
                                                   !.strayed = TRUE]
                      \/ /\ request[r].kind \in {"create", "open"}
                         /\ opened' = opened + 1
                         /\ selection'.task = request[r].answer.row.task
    OBVIOUS
  <2>1. request[r] # Free /\ Traced(request[r], selection, opened)
    BY AnsweredIs
  <2>2. Serve(r) \/ Answer(r) \/ Settle(r)
    BY <2>1, WhoAnswers
  <2>3. CASE Settle(r)
    BY <2>3 DEF Settle
  <2>4. ~Serve(r)
    BY DEF Serve
  <2>5. CASE Answer(r) /\ request[r].answer.is = "ok"
    <3>1. CASE AnswerSaved(r)
      BY <3>1 DEF AnswerSaved, Applies
    <3>2. CASE AnswerDeleted(r)
      <4>1. ~Untouched(r)
        BY <2>1, <3>2 DEF AnswerDeleted, Untouched, Traced, Showing
      <4> QED
        BY <3>2, <4>1 DEF AnswerDeleted
    <3>3. CASE AnswerOpens(r)
      <4>1. PICK s : s = Object(request[r].answer.row.task, request[r].answer.row.version, FALSE)
        OBVIOUS
      <4>2. s.task = request[r].answer.row.task /\ ~s.listed /\ openPanel(s)
        BY <3>3, <4>1 DEF AnswerOpens, Object
      <4>3. opened' = opened + 1 /\ selection' = s
        BY <4>2 DEF openPanel
      <4> QED
        BY <3>3, <4>2, <4>3 DEF AnswerOpens
    <3> QED
      BY <2>5, <3>1, <3>2, <3>3 DEF Answer
  <2>6. CASE Answer(r) /\ request[r].answer.is # "ok"
    <3>1. handle(r)
      BY <2>6 DEF Answer
    <3>2. CASE ~request[r].mounted
      BY <3>1, <3>2 DEF handle
    <3>3. CASE request[r].mounted
      <4>1. PICK rejection :
              panel' = [panel EXCEPT !.rejected = rejection, !.strayed = TRUE]
        BY <3>1, <3>3 DEF handle
      <4>2. panel \in PanelRec
        BY DEF IInv, Types
      <4>3. panel'.rejected = rejection
        BY <4>1, <4>2 DEF PanelRec
      <4> QED
        BY <2>6, <3>1, <3>3, <4>1, <4>3 DEF handle
    <3> QED
      BY <3>2, <3>3
  <2> QED
    BY <2>2, <2>3, <2>4, <2>5, <2>6
<1> QED
  BY <1>1, Invariant, PTL DEF Spec, AnswersLeaveOtherTasks

\* What is half typed goes only when a panel is opened or closed, a newer
\* version is loaded on purpose, or this very task's save or completion is
\* answered: no refetch, no other user, no refusal and no lost answer takes it
\* (the effect on openID, handle).
THEOREM TypingSurvives == Spec => TypedIsKept
<1> DEFINE Kept ==
       (panel.typed /\ ~panel'.typed) =>
       \/ opened' # opened
       \/ selection'.task = None
       \/ panel.rejected # NoRejection /\ panel'.rejected = NoRejection
       \/ \E r \in Request :
            /\ request[r].at = "answered" /\ request'[r] = Free
            /\ request[r].kind \in {"update", "complete"} /\ request[r].editing = selection.task
<1>1. IInv /\ [Next]_vars => Kept
  <2> SUFFICES ASSUME IInv, [Next]_vars, panel.typed, ~panel'.typed,
                      opened' = opened, selection'.task # None
               PROVE  \/ panel.rejected # NoRejection /\ panel'.rejected = NoRejection
                      \/ \E r \in Request :
                           /\ request[r].at = "answered" /\ request'[r] = Free
                           /\ request[r].kind \in {"update", "complete"}
                           /\ request[r].editing = selection.task
    OBVIOUS
  <2>0. panel \in PanelRec /\ opened \in Nat /\ request \in [Request -> Requests]
    BY DEF IInv, Types
  <2>1. \A s : ~openPanel(s)
    BY <2>0 DEF openPanel
  <2>2. \A q : ~ClosePanel(q)
    BY DEF ClosePanel, Nothing, Object
  <2>3. panel' # panel
    OBVIOUS
  <2>4. CASE Load
    <3>1. panel.rejected # NoRejection
      BY <2>4 DEF Load, NoRejection, None
    <3>2. panel'.rejected = NoRejection
      BY <2>0, <2>4 DEF Load, Loaded, PanelRec
    <3> QED
      BY <3>1, <3>2
  <2>5. CASE Type \/ Confirm \/ Cancel
    BY <2>0, <2>5 DEF Type, Confirm, Cancel, PanelRec
  <2>6. ASSUME NEW r \in Request, Use(r) \/ Serve(r) \/ Settle(r)
        PROVE  FALSE
    BY <2>1, <2>3, <2>6 DEF Use, save, destroy, finish, link, Follow, Serve, ServeWrite,
         Accept, Conflict, Refuse, ServeCreate, ServeOpen, Reply, Settle
  <2>7. ASSUME NEW r \in Request, Answer(r)
        PROVE  /\ request[r].at = "answered" /\ request'[r] = Free
               /\ request[r].kind \in {"update", "complete"}
               /\ request[r].editing = selection.task
    <3>1. ~handle(r)
      BY <2>0, <2>3 DEF handle, PanelRec
    <3>2. AnswerSaved(r)
      BY <2>1, <2>2, <2>3, <2>7, <3>1 DEF Answer, AnswerDeleted, AnswerOpens
    <3> QED
      BY <2>0, <2>3, <2>7, <3>2 DEF Answer, AnswerSaved, Applies, Done
  <2>8. ~Refetch /\ ~Render /\ ~Close /\ ~Leave /\ ~OpenNew
        /\ \A t \in Task : ~Open(t) /\ ~Elsewhere(t)
    BY <2>1, <2>2, <2>3 DEF Refetch, AfterRefetch, Render, Close, Leave, OpenNew, Open, Elsewhere
  <2> QED
    BY <2>3, <2>4, <2>5, <2>6, <2>7, <2>8 DEF Next, vars
<1> QED
  BY <1>1, Invariant, PTL DEF Spec, TypedIsKept
==============================================================================
