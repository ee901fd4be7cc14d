---------------------------- MODULE LedgerProofs -----------------------------
(***************************************************************************)
(* Proofs about what the store may not lose: what the history of a task    *)
(* tells, and the schedule of a series.                                    *)
(***************************************************************************)
EXTENDS TaskStoreProofs

------------------------------------------------------------------------------
(* The history.                                                            *)

\* What the history of t tells agrees with its row; of an id no row uses there
\* is no history.
Told(t) ==
  /\ t \in rows => history[t].told \in {"unknown", status[t]}
  /\ t \in rows => (history[t].deleted <=> t \in trash)
  /\ t \in rows => history[t].waitsFor = {d \in Task : <<t, d>> \in deps}
  /\ t \notin rows => history[t] = NoHistory

HistoryInv == \A t \in Task : Told(t)

\* A task whose row, links and history a step leaves alone.
LEMMA ToldKept ==
  ASSUME TypeOK, NEW t \in Task, Told(t),
         t \in rows' <=> t \in rows, t \in trash' <=> t \in trash,
         t \in rows => status'[t] = status[t], history'[t] = history[t],
         \A d \in Task : <<t, d>> \in deps' <=> <<t, d>> \in deps
  PROVE  Told(t)'
  BY DEF Told

\* A row that has just been inserted has neither links nor a past.
LEMMA ToldOfNew ==
  ASSUME TypeOK, NEW t \in Task, Told(t), t \notin rows,
         t \notin trash', history'[t] = history[t], deps' = deps
  PROVE  Told(t)'
<1>1. {d \in Task : <<t, d>> \in deps'} = {}
  BY DEF TypeOK
<1>2. history'[t] = NoHistory
  BY DEF Told
<1>3. /\ history'[t].told = "unknown" /\ history'[t].deleted = FALSE
      /\ history'[t].waitsFor = {}
  BY <1>2 DEF NoHistory
<1> QED
  BY <1>1, <1>2, <1>3 DEF Told

\* A status that is set is told.
LEMMA ToldOfStatus ==
  ASSUME TypeOK, HistoryInv, NEW t \in rows, NEW to \in Status,
         rows' = rows, trash' = trash, deps' = deps,
         status' = [status EXCEPT ![t] = to],
         history' = RecordStatus(t, to) \/ (status[t] = to /\ history' = history)
  PROVE  HistoryInv'
<1> SUFFICES ASSUME NEW u \in Task PROVE Told(u)'
  BY DEF HistoryInv
<1>1. Told(u) /\ t \in Task /\ history[t] \in History
  BY DEF HistoryInv, TypeOK
<1>2. CASE u # t
  <2>1. status'[u] = status[u] /\ history'[u] = history[u]
    BY <1>1, <1>2 DEF RecordStatus, TypeOK
  <2> QED
    BY <1>1, <2>1, ToldKept
<1>3. CASE u = t /\ history' = RecordStatus(t, to)
  <2>1. /\ history'[t].told = to /\ status'[t] = to
        /\ (history'[t].deleted <=> history[t].deleted)
        /\ history'[t].waitsFor = history[t].waitsFor
    BY <1>1, <1>3 DEF RecordStatus, TypeOK, History
  <2> QED
    BY <1>1, <1>3, <2>1 DEF Told
<1>4. CASE u = t /\ status[t] = to /\ history' = history
  BY <1>1, <1>4, ToldKept DEF TypeOK
<1> QED
  BY <1>2, <1>3, <1>4

\* A row put into the trash or taken out is told to be there or not.
LEMMA ToldOfTrash ==
  ASSUME TypeOK, HistoryInv, Trashes
  PROVE  HistoryInv'
<1> SUFFICES ASSUME NEW u \in Task PROVE Told(u)'
  BY DEF HistoryInv
<1>1. PICK t \in rows, gone \in BOOLEAN :
        /\ trash' = IF gone THEN trash \cup {t} ELSE trash \ {t}
        /\ history' = [history EXCEPT ![t].deleted = gone]
        /\ UNCHANGED <<rows, status, deps>>
  BY DEF Trashes
<1>2. Told(u) /\ t \in Task /\ history[t] \in History
  BY DEF HistoryInv, TypeOK
<1>3. CASE u # t
  <2>1. history'[u] = history[u] /\ (u \in trash' <=> u \in trash)
    BY <1>1, <1>2, <1>3 DEF TypeOK
  <2> QED
    BY <1>1, <1>2, <2>1, ToldKept
<1>4. CASE u = t
  <2>1. /\ history'[t].told = history[t].told
        /\ (history'[t].deleted <=> gone)
        /\ history'[t].waitsFor = history[t].waitsFor
        /\ (t \in trash' <=> gone)
    BY <1>1, <1>2 DEF TypeOK, History
  <2> QED
    BY <1>1, <1>2, <1>4, <2>1 DEF Told
<1> QED
  BY <1>3, <1>4

\* A link that is made or taken away is told.
LEMMA ToldOfLink ==
  ASSUME TypeOK, HistoryInv, NEW t \in rows, NEW d \in Task,
         UNCHANGED <<rows, status, trash>>,
         \/ /\ deps' = deps \cup {<<t, d>>}
            /\ history' = [history EXCEPT ![t].waitsFor = @ \cup {d}]
         \/ /\ deps' = deps \ {<<t, d>>}
            /\ history' = [history EXCEPT ![t].waitsFor = @ \ {d}]
  PROVE  HistoryInv'
<1> SUFFICES ASSUME NEW u \in Task PROVE Told(u)'
  BY DEF HistoryInv
<1>1. Told(u) /\ t \in Task /\ history[t] \in History
  BY DEF HistoryInv, TypeOK
<1>2. CASE u # t
  <2>1. /\ history'[u] = history[u]
        /\ \A e \in Task : <<u, e>> \in deps' <=> <<u, e>> \in deps
    BY <1>1, <1>2 DEF TypeOK
  <2> QED
    BY <1>1, <2>1, ToldKept
<1>3. CASE u = t
  <2>1. /\ history'[t].told = history[t].told
        /\ (history'[t].deleted <=> history[t].deleted)
        /\ \/ /\ history'[t].waitsFor = history[t].waitsFor \cup {d}
              /\ deps' = deps \cup {<<t, d>>}
           \/ /\ history'[t].waitsFor = history[t].waitsFor \ {d}
              /\ deps' = deps \ {<<t, d>>}
    BY <1>1 DEF TypeOK, History
  <2>2. history'[t].waitsFor = {e \in Task : <<t, e>> \in deps'}
    BY <1>1, <1>3, <2>1 DEF Told
  <2> QED
    BY <1>1, <1>3, <2>1, <2>2 DEF Told
<1> QED
  BY <1>2, <1>3

\* No step makes the history tell something else than the tables.
LEMMA HistoryStep ==
  ASSUME TypeOK, RequestInv, HistoryInv, [Next]_vars
  PROVE  HistoryInv'
<1>1. CASE UNCHANGED table
  BY <1>1, ToldKept DEF table, HistoryInv
<1>2. ASSUME NEW c \in Caller, NEW t \in Task, NEW s \in Status, NEW recur \in BOOLEAN,
             Create(c, t, s, recur)
      PROVE  HistoryInv'
  <2> SUFFICES ASSUME NEW u \in Task PROVE Told(u)'
    BY DEF HistoryInv
  <2>1. CASE u = t
    BY <1>2, <2>1, ToldOfNew DEF Create, HistoryInv, TypeOK
  <2>2. CASE u # t
    BY <1>2, <2>2, ToldKept DEF Create, HistoryInv, TypeOK
  <2> QED
    BY <2>1, <2>2
<1>3. ASSUME NEW c \in Caller, call[c].phase = "decided", Applies(c)
      PROVE  HistoryInv'
  <2>1. PICK t \in rows, to \in Status : t = call[c].id /\ to = call[c].to
    BY <1>3 DEF RequestInv, DecidedInv, Applies
  <2>2. /\ UNCHANGED <<rows, trash, deps>> /\ status' = [status EXCEPT ![t] = to]
        /\ history' = RecordStatus(t, to) \/ (status[t] = to /\ history' = history)
    BY <1>3, <2>1 DEF Applies, ApplyUpdate
  <2> QED
    BY <2>1, <2>2, ToldOfStatus
<1>4. ASSUME NEW t \in rows, NEW v \in Nat, CompletePlain(t, v)
      PROVE  HistoryInv'
  BY <1>4, ToldOfStatus DEF CompletePlain, Status
<1>5. ASSUME NEW t \in rows, NEW v \in Nat, NEW n \in Task, CompleteAndSpawn(t, v, n)
      PROVE  HistoryInv'
  <2> SUFFICES ASSUME NEW u \in Task PROVE Told(u)'
    BY DEF HistoryInv
  <2>1. /\ n \notin rows /\ n # t /\ t \in Task /\ rows' = rows \cup {n}
        /\ trash' = trash /\ deps' = deps /\ history' = RecordStatus(t, Completed)
        /\ status'[t] = Completed /\ history[t] \in History
        /\ \A y \in Task \ {t, n} : status'[y] = status[y]
    BY <1>5 DEF CompleteAndSpawn, TypeOK
  <2>2. \A y \in Task \ {t} : history'[y] = history[y]
    BY <2>1 DEF RecordStatus, TypeOK
  <2>3. CASE u = n
    BY <2>1, <2>2, <2>3, ToldOfNew DEF HistoryInv, TypeOK
  <2>4. CASE u = t
    <3>1. /\ history'[t].told = Completed
          /\ (history'[t].deleted <=> history[t].deleted)
          /\ history'[t].waitsFor = history[t].waitsFor
      BY <2>1 DEF RecordStatus, TypeOK, History
    <3> QED
      BY <2>1, <2>4, <3>1 DEF Told, HistoryInv
  <2>5. CASE u \notin {t, n}
    BY <2>1, <2>2, <2>5, ToldKept DEF HistoryInv
  <2> QED
    BY <2>3, <2>4, <2>5
<1>6. ASSUME NEW c \in Caller, NEW t \in Task, NEW d \in Task,
             AddDependency(c, t, d) \/ RemoveDependency(c, t, d)
      PROVE  HistoryInv'
  <2>1. t \in rows
    BY <1>6 DEF AddDependency, RemoveDependency, TypeOK
  <2> QED
    BY <1>6, <2>1, ToldOfLink DEF AddDependency, RemoveDependency
<1> QED
  BY <1>1, <1>2, <1>3, <1>4, <1>5, <1>6, ToldOfTrash, StepCases DEF Finishes

\* Replaying the events of a task tells its status, whether it is in the trash
\* and what it waits for: no step of any request writes a table without the
\* event that says so, or the event without the table (todo_events).
THEOREM HistoriesTell == Spec => []HistoryTells
<1>1. Init => HistoryInv
  BY DEF Init, HistoryInv, Told
<1>2. TypeOK /\ RequestInv /\ HistoryInv /\ [Next]_vars => HistoryInv'
  BY HistoryStep
<1>3. TypeOK /\ HistoryInv => HistoryTells
  BY DEF TypeOK, HistoryInv, Told, HistoryTells
<1> QED
  BY <1>1, <1>2, <1>3, TypeCorrect, RequestsSound, PTL DEF Spec

------------------------------------------------------------------------------
(* The schedule of a series.                                               *)

\* The request c is about to write no schedule, because its client cleared it.
Clears(c, s) ==
  /\ call[c].phase = "decided"
  /\ call[c].op = "update"
  /\ ~call[c].recur
  /\ series[call[c].id] = s

\* An update that applies keeps every schedule but one its client cleared.
LEMMA UpdateKeepsSeries ==
  ASSUME TypeOK, RequestInv, NEW c \in Caller, call[c].phase = "decided", Applies(c),
         NEW s \in Held \ Held'
  PROVE  Clears(c, s)
<1>1. PICK t \in rows : series[t] = s
  BY DEF Held
<1>2. /\ rows' = rows /\ rows \subseteq Task /\ call[c].id \in Task
      /\ series' = [series EXCEPT ![call[c].id] = call[c].series]
  BY DEF Applies, ApplyUpdate, TypeOK
<1>3. series'[t] # series[t]
  BY <1>1, <1>2 DEF Held
<1>4. t = call[c].id /\ call[c].series # s
  BY <1>1, <1>2, <1>3 DEF TypeOK
<1>5. DecidedInv(c) /\ call[c].ver = version[call[c].id] /\ s # 0
  BY DEF RequestInv, Applies, Matches, Held
<1>6. call[c].op # "archive" /\ ~call[c].recur
  BY <1>1, <1>4, <1>5 DEF DecidedInv
<1>7. call[c].op \in {"update", "archive"}
  BY CallFields
<1> QED
  BY <1>1, <1>4, <1>6, <1>7 DEF Clears

\* Completing, archiving, deleting and restoring leave the schedule of a series
\* on some row: only a client's update ends one (handOverSchedule).
THEOREM SeriesLast == Spec => SeriesNeverDropped
<1> DEFINE Kept == \A s \in Held \ Held' :
                     \E c \in Caller : /\ call[c].phase = "decided"
                                       /\ call[c].op = "update"
                                       /\ ~call[c].recur
                                       /\ series[call[c].id] = s
<1>1. TypeOK /\ RequestInv /\ [Next]_vars => Kept
  <2> SUFFICES ASSUME TypeOK, RequestInv, [Next]_vars, NEW s \in Held \ Held'
               PROVE  \E c \in Caller : Clears(c, s)
    BY DEF Clears
  <2>0. rows \subseteq Task /\ \E t \in rows : series[t] = s /\ s # 0
    BY DEF TypeOK, Held
  <2>1. ~(rows \subseteq rows' /\ \A t \in rows : series'[t] = series[t])
    BY <2>0 DEF Held
  <2>2. ASSUME NEW c \in Caller, NEW t \in Task, NEW st \in Status,
               NEW recur \in BOOLEAN, Create(c, t, st, recur)
        PROVE  FALSE
    BY <2>0, <2>1, <2>2 DEF Create, TypeOK
  <2>3. ASSUME NEW t \in rows, NEW v \in Nat, NEW n \in Task, CompleteAndSpawn(t, v, n)
        PROVE  FALSE
    <3>1. /\ rows' = rows \cup {n} /\ n \notin rows /\ series'[n] = series[t]
          /\ \A u \in rows \ {t} : series'[u] = series[u]
      BY <2>0, <2>3 DEF CompleteAndSpawn, HandOver, TypeOK
    <3>2. s \in {series'[u] : u \in rows'}
      BY <2>0, <2>3, <3>1
    <3> QED
      BY <2>0, <3>2 DEF Held
  <2>4. ASSUME NEW t \in rows, NEW v \in Nat, CompletePlain(t, v)
        PROVE  FALSE
    BY <2>1, <2>4 DEF CompletePlain
  <2>5. ~UNCHANGED table /\ ~Trashes
        /\ \A c \in Caller, t, d \in Task : ~AddDependency(c, t, d) /\ ~RemoveDependency(c, t, d)
    BY <2>1 DEF table, Trashes, AddDependency, RemoveDependency
  <2>6. \E c \in Caller : call[c].phase = "decided" /\ Applies(c)
    BY <2>2, <2>3, <2>4, <2>5, StepCases DEF Finishes
  <2> QED
    BY <2>6, UpdateKeepsSeries
<1> QED
  BY <1>1, TypeCorrect, RequestsSound, PTL DEF Spec, SeriesNeverDropped

\* Whichever way a task becomes completed, the schedule it had passes in that
\* step to one new row and stays on no other: an update that read it before it
\* was finished cannot finish it again with a schedule, because its version no
\* longer matches (Service.Update, Complete).
THEOREM FinishedHandOver == Spec => FinishingHandsOver
<1> DEFINE Hands ==
      \A t \in rows :
        status[t] # Completed /\ status'[t] = Completed =>
          /\ series'[t] = 0
          /\ series[t] = 0 => rows' = rows
          /\ series[t] # 0 =>
               \E n \in Task \ rows :
                 /\ rows' = rows \cup {n} /\ status'[n] = NotStarted
                 /\ \A u \in rows' : series'[u] = series[t] <=> u = n
<1>1. TypeOK /\ RequestInv /\ SeriesNeverForks /\ [Next]_vars => Hands
  <2> SUFFICES ASSUME TypeOK, RequestInv, SeriesNeverForks, [Next]_vars, NEW t \in rows,
                      status[t] # Completed, status'[t] = Completed
               PROVE  /\ series'[t] = 0
                      /\ series[t] = 0 => rows' = rows
                      /\ series[t] # 0 =>
                           \E n \in Task \ rows :
                             /\ rows' = rows \cup {n} /\ status'[n] = NotStarted
                             /\ \A u \in rows' : series'[u] = series[t] <=> u = n
    OBVIOUS
  <2>0. t \in Task /\ rows \subseteq Task
    BY DEF TypeOK
  <2>1. ~UNCHANGED table /\ ~Trashes
        /\ \A c \in Caller, u, d \in Task : ~AddDependency(c, u, d) /\ ~RemoveDependency(c, u, d)
    BY DEF table, Trashes, AddDependency, RemoveDependency
  <2>2. ASSUME NEW c \in Caller, NEW u \in Task, NEW s \in Status,
               NEW recur \in BOOLEAN, Create(c, u, s, recur)
        PROVE  FALSE
    BY <2>0, <2>2 DEF Create, TypeOK
  <2>3. ASSUME NEW c \in Caller, call[c].phase = "decided", Applies(c)
        PROVE  FALSE
    <3>1. t = call[c].id /\ call[c].to = Completed
      BY <2>0, <2>3 DEF Applies, ApplyUpdate, TypeOK
    <3>2. DecidedInv(c) /\ call[c].ver = version[t]
      BY <2>3, <3>1 DEF RequestInv, Applies, Matches
    <3> QED
      BY <3>1, <3>2 DEF DecidedInv
  <2>4. ASSUME NEW x \in rows, NEW v \in Nat, CompletePlain(x, v)
        PROVE  series[t] = 0 /\ series'[t] = 0 /\ rows' = rows
    <3>1. t = x
      BY <2>0, <2>4 DEF CompletePlain, TypeOK
    <3> QED
      BY <2>4, <3>1 DEF CompletePlain
  <2>5. ASSUME NEW x \in rows, NEW v \in Nat, NEW n \in Task, CompleteAndSpawn(x, v, n)
        PROVE  /\ series'[t] = 0 /\ series[t] # 0 /\ n \in Task \ rows
               /\ rows' = rows \cup {n} /\ status'[n] = NotStarted
               /\ \A u \in rows' : series'[u] = series[t] <=> u = n
    <3>1. n \notin rows /\ t # n /\ t = x
      BY <2>0, <2>5 DEF CompleteAndSpawn, TypeOK
    <3>2. /\ rows' = rows \cup {n} /\ status'[n] = NotStarted
          /\ series[t] # 0 /\ series'[t] = 0 /\ series'[n] = series[t]
          /\ \A u \in rows \ {t} : series'[u] = series[u]
      BY <2>0, <2>5, <3>1 DEF CompleteAndSpawn, HandOver, TypeOK
    <3>3. ASSUME NEW u \in rows'
          PROVE  series'[u] = series[t] <=> u = n
      <4>1. CASE u = n
        BY <3>2, <4>1
      <4>2. CASE u = t
        BY <3>1, <3>2, <4>2
      <4>3. CASE u \in rows \ {t}
        BY <3>1, <3>2, <4>3 DEF SeriesNeverForks
      <4> QED
        BY <3>2, <4>1, <4>2, <4>3
    <3> QED
      BY <3>1, <3>2, <3>3
  <2>6. ASSUME NEW x \in Task, Finishes(x)
        PROVE  \/ \E v \in Nat : x \in rows /\ CompletePlain(x, v)
               \/ \E v \in Nat, n \in Task : x \in rows /\ CompleteAndSpawn(x, v, n)
    BY <2>6 DEF Finishes
  <2> QED
    BY <2>1, <2>2, <2>3, <2>4, <2>5, <2>6, StepCases
<1> QED
  BY <1>1, TypeCorrect, RequestsSound, OneOpenOccurrence, PTL DEF Spec, FinishingHandsOver
==============================================================================
