------------------------- MODULE LiveUpdatesProofs --------------------------
(***************************************************************************)
(* What holds of LiveUpdates for every set of pages and connections, every *)
(* capacity of a channel and every bound.                                  *)
(***************************************************************************)
EXTENDS LiveUpdates, TLAPS

-----------------------------------------------------------------------------
(* Types.                                                                  *)

\* An open subscription has a page, a buffer and a connection.
LEMMA SubFields ==
  ASSUME TypeOK, NEW c \in Conn, sub[c].open
  PROVE  /\ sub[c] \in OpenSub
         /\ sub[c].page \in Page /\ sub[c].buf \in Nat /\ sub[c].buf <= Buffer
         /\ sub[c].alive \in BOOLEAN
<1>1. sub[c] \in Sub /\ sub[c] # Free
  BY DEF TypeOK, Free
<1>2. sub[c] \in OpenSub
  BY <1>1 DEF Sub
<1> QED
  BY <1>2 DEF TypeOK, OpenSub

\* What a fetch has read is a number of changes.
LEMMA FetchFields ==
  ASSUME TypeOK, NEW p \in Page
  PROVE  /\ fetch[p] \in Fetch
         /\ fetch[p].at = "read" => fetch[p].got \in Nat
         /\ Idle.at = "idle" /\ Asked.at = "asked"
<1>1. fetch[p] \in Fetch
  BY DEF TypeOK
<1> QED
  BY <1>1 DEF Fetch, Idle, Asked

\* Delivering adds one to every open buffer that has room, and nothing else.
LEMMA DeliverAdds ==
  ASSUME TypeOK, Deliver
  PROVE  /\ sub' \in [Conn -> Sub]
         /\ \A c \in Conn :
              /\ sub'[c].open = sub[c].open
              /\ sub[c].open => /\ sub'[c].page = sub[c].page
                                /\ sub'[c].alive = sub[c].alive
                                /\ sub'[c].buf \in Nat
                                /\ 0 < sub'[c].buf /\ sub'[c].buf <= Buffer
<1>1. ASSUME NEW c \in Conn, ~sub[c].open
      PROVE  sub'[c] = sub[c]
  BY <1>1 DEF Deliver
<1>2. ASSUME NEW c \in Conn, sub[c].open, Full(c)
      PROVE  sub'[c] = sub[c] /\ sub[c].buf = Buffer /\ 0 < Buffer
  BY <1>2, BufferHolds DEF Deliver, Full
<1>3. ASSUME NEW c \in Conn, sub[c].open, ~Full(c)
      PROVE  /\ sub'[c] \in OpenSub
             /\ sub'[c].page = sub[c].page
             /\ sub'[c].alive = sub[c].alive
             /\ sub'[c].buf = sub[c].buf + 1
             /\ sub[c].buf < Buffer
  <2>1. sub'[c] = [sub[c] EXCEPT !.buf = @ + 1]
    BY <1>3 DEF Deliver
  <2>2. sub[c].buf # Buffer
    BY <1>3 DEF Full
  <2>3. /\ sub[c] \in OpenSub
        /\ sub[c].buf \in Nat /\ sub[c].buf <= Buffer
    BY <1>3, SubFields
  <2>4. sub'[c] = [sub[c] EXCEPT !.buf = sub[c].buf + 1] /\ sub[c].buf + 1 \in Nat
    BY <2>1, <2>3
  <2>5. sub[c].buf < Buffer
    BY <2>2, <2>3, BufferHolds
  <2> QED
    BY <2>3, <2>4, <2>5 DEF OpenSub
<1>4. \A c \in Conn : sub'[c] \in Sub
  BY <1>1, <1>2, <1>3 DEF Sub, TypeOK
<1>5. sub' = [c \in Conn |-> sub'[c]]
  BY DEF Deliver
<1>6. sub' \in [Conn -> Sub]
  BY <1>4, <1>5
<1>7. ASSUME NEW c \in Conn, sub[c].open
      PROVE  /\ sub'[c].open /\ sub[c].open = TRUE
             /\ sub'[c].page = sub[c].page
             /\ sub'[c].alive = sub[c].alive
             /\ sub'[c].buf \in Nat
             /\ 0 < sub'[c].buf /\ sub'[c].buf <= Buffer
             /\ sub'[c].open = TRUE
  <2>1. sub[c].open = TRUE /\ sub[c].buf \in Nat
    BY <1>7, SubFields
  <2>2. CASE Full(c)
    BY <2>1, <2>2, <1>7, <1>2, BufferHolds
  <2>3. CASE ~Full(c)
    <3>1. /\ sub'[c] \in OpenSub
          /\ sub'[c].page = sub[c].page
          /\ sub'[c].alive = sub[c].alive
          /\ sub'[c].buf = sub[c].buf + 1
          /\ sub[c].buf < Buffer
      BY <2>3, <1>7, <1>3
    <3>2. sub'[c].open = TRUE
      BY <3>1 DEF OpenSub
    <3> QED
      BY <2>1, <3>1, <3>2, BufferHolds
  <2> QED
    BY <2>2, <2>3
<1> QED
  BY <1>1, <1>6, <1>7

\* A promise is a change, for those it is made to.
LEMMA PromiseType ==
  ASSUME TypeOK, NEW n \in Nat, Promise(n)
  PROVE  due' \in [Page -> Nat]
BY DEF TypeOK, Promise

\* A page that is told to refresh has a fetch under way or asks for one.
LEMMA RefreshType ==
  ASSUME TypeOK, NEW p \in Page, Refresh(p)
  PROVE  fetch' \in [Page -> Fetch]
BY DEF TypeOK, Refresh, Fetch

\* Every step keeps the types.
LEMMA TypeStep ==
  ASSUME TypeOK, [Next]_vars
  PROVE  TypeOK'
<1> USE BufferHolds
<1>1. ASSUME NEW p \in Page, Read(p) PROVE TypeOK'
  BY <1>1 DEF TypeOK, Read, Fetch
<1>2. ASSUME NEW p \in Page, Arrive(p) PROVE TypeOK'
  BY <1>2, FetchFields DEF TypeOK, Arrive, Fetch
<1>3. ASSUME NEW p \in Page, Fail(p) PROVE TypeOK'
  BY <1>3 DEF TypeOK, Fail, Fetch
<1>4. ASSUME NEW p \in Page, NEW n \in {1, 2}, Commit(p, n) PROVE TypeOK'
  <2>1. data' \in Nat /\ write' \in [Page -> {NoWrite} \cup Nat]
    BY <1>4 DEF TypeOK, Commit
  <2>2. due' \in [Page -> Nat]
    BY <1>4, PromiseType DEF TypeOK, Commit
  <2> QED
    BY <1>4, <2>1, <2>2 DEF TypeOK, Commit
<1>5. ASSUME NEW p \in Page, CommitUnheard(p) PROVE TypeOK'
  BY <1>5 DEF TypeOK, CommitUnheard
<1>6. ASSUME NEW p \in Page, Publish(p) PROVE TypeOK'
  <2>1. write' \in [Page -> {NoWrite} \cup Nat]
    BY <1>6 DEF TypeOK, Publish, NoWrite
  <2>2. due' \in [Page -> Nat]
    BY <1>6, PromiseType DEF TypeOK, Publish
  <2>3. sub' \in [Conn -> Sub] /\ \A c \in Conn : sub'[c].open => sub'[c].buf <= Buffer
    BY <1>6, DeliverAdds DEF Publish
  <2> QED
    BY <1>6, <2>1, <2>2, <2>3 DEF TypeOK, Publish
<1>7. ASSUME NEW p \in Page, Answer(p) PROVE TypeOK'
  BY <1>7, RefreshType DEF TypeOK, Answer
<1>8. ASSUME NEW p \in Page, Subscribe(p) PROVE TypeOK'
  <2>1. PICK c \in Conn : sub' = [sub EXCEPT ![c] = [open |-> TRUE, page |-> p, buf |-> 0,
                                                     alive |-> TRUE]]
    BY <1>8 DEF Subscribe
  <2>2. sub' \in [Conn -> Sub]
    BY <2>1 DEF TypeOK, Sub, OpenSub
  <2>3. \A d \in Conn : sub'[d].open => sub'[d].buf <= Buffer
    BY <2>1 DEF TypeOK
  <2> QED
    BY <1>8, <2>2, <2>3 DEF TypeOK, Subscribe
<1>9. ASSUME NEW p \in Page, Forward(p) PROVE TypeOK'
  <2>1. PICK c \in Conn : /\ Carries(c, p) /\ sub[c].buf > 0
                          /\ sub' = [sub EXCEPT ![c].buf = @ - 1]
    BY <1>9 DEF Forward
  <2>2. /\ sub[c] \in OpenSub
        /\ sub[c].buf \in Nat /\ sub[c].buf <= Buffer
    BY <2>1, SubFields DEF Carries
  <2>3. sub'[c] = [sub[c] EXCEPT !.buf = sub[c].buf - 1] /\ sub[c].buf - 1 \in Nat
    BY <2>1, <2>2 DEF TypeOK
  <2>4. /\ sub'[c] \in OpenSub
        /\ sub'[c].buf = sub[c].buf - 1
    BY <2>2, <2>3 DEF OpenSub
  <2>5. sub'[c].buf <= Buffer
    BY <2>2, <2>4
  <2>6. sub' \in [Conn -> Sub] /\ \A d \in Conn : sub'[d].open => sub'[d].buf <= Buffer
    BY <2>1, <2>4, <2>5 DEF TypeOK, Sub
  <2> QED
    BY <1>9, <2>6, RefreshType DEF TypeOK, Forward
<1>10. ASSUME NEW p \in Page, Cut(p) PROVE TypeOK'
  <2>1. PICK c \in Conn : Carries(c, p) /\ sub' = [sub EXCEPT ![c].alive = FALSE]
    BY <1>10 DEF Cut
  <2>2. sub[c] \in OpenSub /\ sub[c].buf \in Nat /\ sub[c].buf <= Buffer
    BY <2>1, SubFields DEF Carries
  <2>3. sub'[c] = [sub[c] EXCEPT !.alive = FALSE]
    BY <2>1 DEF TypeOK
  <2>4. sub'[c] \in OpenSub /\ sub'[c].buf <= Buffer
    BY <2>2, <2>3 DEF OpenSub
  <2>5. sub' \in [Conn -> Sub] /\ \A d \in Conn : sub'[d].open => sub'[d].buf <= Buffer
    BY <2>1, <2>4 DEF TypeOK, Sub
  <2> QED
    BY <1>10, <2>5 DEF TypeOK, Cut
<1>11. ASSUME NEW c \in Conn, Release(c) PROVE TypeOK'
  BY <1>11 DEF TypeOK, Release, Sub, Free
<1>12. ASSUME Restart PROVE TypeOK'
  BY <1>12 DEF TypeOK, Restart, Sub, Free
<1>13. ASSUME UNCHANGED vars PROVE TypeOK'
  BY <1>13 DEF TypeOK, vars
<1> QED
  BY <1>1, <1>2, <1>3, <1>4, <1>5, <1>6, <1>7, <1>8, <1>9, <1>10, <1>11, <1>12, <1>13
     DEF Next, Browse, Change, Respond, Stream, Quiet

\* The hub's channels never hold more than their capacity, and every state has
\* the types of TypeOK (hub.go, stream.go).
THEOREM LiveTypes == Spec => []TypeOK
<1>1. Init => TypeOK
  BY BufferHolds DEF Init, TypeOK, Fetch, Sub, Free, NoData, NoWrite
<1> QED
  BY <1>1, TypeStep, PTL DEF Spec

-----------------------------------------------------------------------------
(* Pages that are behind.                                                  *)

\* What a page shows, has read and is promised is committed; a fetch never
\* brings back less than is shown; promises are to loaded pages that listen.
PromisesHold ==
  \A p \in Page :
    /\ due[p] <= data
    /\ due[p] > 0 => Listens(p) /\ shown[p] # NoData
    /\ shown[p] <= data
    /\ fetch[p].at = "read" => shown[p] <= fetch[p].got /\ fetch[p].got <= data

LiveInv == TypeOK /\ PromisesHold /\ StaleIsRepaired

\* The numbers of a page, typed.
LEMMA PageNumbers ==
  ASSUME TypeOK, NEW p \in Page
  PROVE  /\ due[p] \in Nat /\ data \in Nat /\ shown[p] \in Int /\ write[p] \in Int
         /\ shown[p] # NoData => shown[p] \in Nat
         /\ fetch[p].at = "read" => fetch[p].got \in Nat
  BY FetchFields DEF TypeOK, NoData, NoWrite

\* A page owed news has some on the way (one page's part of StaleIsRepaired).
OnTheWay(p) ==
  \/ \E q \in Page : write[q] > 0
  \/ \E c \in Conn : Carries(c, p) /\ sub[c].buf > 0
  \/ fetch[p] = Asked
  \/ fetch[p].at = "read" /\ fetch[p].got >= due[p]

\* After a delivery a page that listens has a change in its buffer.
LEMMA DeliverCarries ==
  ASSUME TypeOK, Deliver, NEW p \in Page
  PROVE  /\ Listens(p) => \E c \in Conn : Carries(c, p)' /\ sub'[c].buf > 0
         /\ \A c \in Conn : Carries(c, p) => Carries(c, p)' /\ sub'[c].buf > 0
<1>1. ASSUME NEW c \in Conn, Carries(c, p)
      PROVE  Carries(c, p)' /\ sub'[c].buf > 0
  BY <1>1, DeliverAdds DEF Carries
<1> QED
  BY <1>1 DEF Listens

\* Refreshing a page that shows something leaves it asking.
LEMMA RefreshAsks ==
  ASSUME TypeOK, NEW p \in Page, Refresh(p)
  PROVE  /\ shown[p] # NoData => fetch'[p] = Asked
         /\ fetch'[p] = fetch[p] \/ fetch'[p] = Asked
         /\ \A q \in Page \ {p} : fetch'[q] = fetch[q]
  BY DEF TypeOK, Refresh

\* Promises are kept consistent by every step.
LEMMA PromiseStep ==
  ASSUME LiveInv, [Next]_vars
  PROVE  PromisesHold'
<1> USE DEF LiveInv
<1> SUFFICES ASSUME NEW x \in Page
             PROVE  /\ due'[x] <= data'
                    /\ due'[x] > 0 => Listens(x)' /\ shown'[x] # NoData
                    /\ shown'[x] <= data'
                    /\ fetch'[x].at = "read" => shown'[x] <= fetch'[x].got /\ fetch'[x].got <= data'
  BY DEF PromisesHold
<1>0. /\ due[x] <= data
      /\ due[x] > 0 => Listens(x) /\ shown[x] # NoData
      /\ shown[x] <= data
      /\ fetch[x].at = "read" => shown[x] <= fetch[x].got /\ fetch[x].got <= data
  BY DEF PromisesHold
<1>14. /\ due[x] \in Nat /\ data \in Nat /\ shown[x] \in Int
       /\ fetch[x].at = "read" => fetch[x].got \in Nat
       /\ Asked.at # "read" /\ Idle.at # "read"
  BY PageNumbers DEF Asked, Idle
<1>1. CASE \E p \in Page : Read(p)
  <2>1. PICK p \in Page : Read(p)
    BY <1>1
  <2>2. UNCHANGED <<data, sub, shown, due>> /\ (Listens(x)' <=> Listens(x))
    BY <2>1 DEF Read, Listens, Carries
  <2>3. fetch'[x] = IF x = p THEN [at |-> "read", got |-> data] ELSE fetch[x]
    BY <2>1 DEF Read, TypeOK
  <2> QED
    BY <2>2, <2>3, <1>0, <1>14
<1>2. CASE \E p \in Page : Arrive(p)
  <2>1. PICK p \in Page : Arrive(p)
    BY <1>2
  <2>2. UNCHANGED <<data, sub, due>> /\ (Listens(x)' <=> Listens(x))
    BY <2>1 DEF Arrive, Listens, Carries
  <2>3. /\ fetch'[x] = IF x = p THEN Idle ELSE fetch[x]
        /\ shown'[x] = IF x = p THEN fetch[x].got ELSE shown[x]
        /\ x = p => fetch[x].at = "read"
    BY <2>1 DEF Arrive, TypeOK
  <2> QED
    BY <2>2, <2>3, <1>0, <1>14 DEF NoData
<1>3. CASE \E p \in Page : Fail(p)
  <2>1. PICK p \in Page : Fail(p)
    BY <1>3
  <2>2. UNCHANGED <<data, sub, shown>> /\ (Listens(x)' <=> Listens(x))
    BY <2>1 DEF Fail, Listens, Carries
  <2>3. /\ fetch'[x] = IF x = p THEN Idle ELSE fetch[x]
        /\ due'[x] = IF x = p THEN 0 ELSE due[x]
    BY <2>1 DEF Fail, TypeOK
  <2> QED
    BY <2>2, <2>3, <1>0, <1>14
<1>4. CASE \E p \in Page, n \in {1, 2} : Commit(p, n)
  <2>1. /\ data' = data + 1 /\ UNCHANGED <<sub, shown, fetch>>
        /\ due'[x] = IF Listens(x) /\ shown[x] # NoData THEN data + 1 ELSE due[x]
    BY <1>4 DEF Commit, Promise
  <2>2. Listens(x)' <=> Listens(x)
    BY <2>1 DEF Listens, Carries
  <2> QED
    BY <2>1, <2>2, <1>0, <1>14
<1>5. CASE \E p \in Page : CommitUnheard(p)
  <2>1. data' = data + 1 /\ UNCHANGED <<sub, shown, fetch, due>>
    BY <1>5 DEF CommitUnheard
  <2>2. Listens(x)' <=> Listens(x)
    BY <2>1 DEF Listens, Carries
  <2> QED
    BY <2>1, <2>2, <1>0, <1>14
<1>6. CASE \E p \in Page : Publish(p)
  <2>1. /\ Deliver /\ UNCHANGED <<data, shown, fetch>>
        /\ due'[x] = IF Listens(x) /\ shown[x] # NoData THEN data ELSE due[x]
    BY <1>6 DEF Publish, Promise
  <2>2. Listens(x) => Listens(x)'
    BY <2>1, DeliverCarries DEF Listens
  <2> QED
    BY <2>1, <2>2, <1>0, <1>14
<1>7. CASE \E p \in Page : Answer(p)
  <2>1. UNCHANGED <<data, sub, shown, due>> /\ (fetch'[x] = fetch[x] \/ fetch'[x] = Asked)
    BY <1>7, RefreshAsks DEF Answer
  <2>2. Listens(x)' <=> Listens(x)
    BY <2>1 DEF Listens, Carries
  <2> QED
    BY <2>1, <2>2, <1>0, <1>14
<1>8. CASE \E p \in Page : Subscribe(p)
  <2>1. PICK p \in Page, d \in Conn :
          /\ ~sub[d].open
          /\ sub' = [sub EXCEPT ![d] = [open |-> TRUE, page |-> p, buf |-> 0, alive |-> TRUE]]
          /\ UNCHANGED <<data, shown, fetch, due>>
    BY <1>8 DEF Subscribe
  <2>2. \A c \in Conn : Carries(c, x) => Carries(c, x)'
    BY <2>1 DEF Carries, TypeOK
  <2> QED
    BY <2>1, <2>2, <1>0, <1>14 DEF Listens
<1>9. CASE \E p \in Page : Forward(p)
  <2>1. PICK p \in Page, d \in Conn :
          /\ Carries(d, p) /\ sub[d].buf > 0
          /\ sub' = [sub EXCEPT ![d].buf = @ - 1]
          /\ Refresh(p) /\ UNCHANGED <<data, shown, due>>
    BY <1>9 DEF Forward
  <2>2. fetch'[x] = fetch[x] \/ fetch'[x] = Asked
    BY <2>1, RefreshAsks
  <2>3. \A c \in Conn : Carries(c, x) => Carries(c, x)'
    <3> SUFFICES ASSUME NEW c \in Conn, Carries(c, x)
                 PROVE  Carries(c, x)'
      OBVIOUS
    <3>1. sub[c] \in OpenSub
      BY SubFields DEF Carries
    <3>2. sub'[c] = sub[c] \/ sub'[c] = [sub[c] EXCEPT !.buf = sub[c].buf - 1]
      BY <2>1 DEF TypeOK
    <3> QED
      BY <3>1, <3>2 DEF Carries, OpenSub
  <2> QED
    BY <2>1, <2>2, <2>3, <1>0, <1>14 DEF Listens
<1>10. CASE \E p \in Page : Cut(p)
  <2>1. PICK p \in Page, d \in Conn :
          /\ Carries(d, p)
          /\ sub' = [sub EXCEPT ![d].alive = FALSE]
          /\ due' = [due EXCEPT ![p] = 0]
          /\ UNCHANGED <<data, shown, fetch>>
    BY <1>10 DEF Cut
  <2>2. CASE x = p
    BY <2>1, <2>2, <1>0, <1>14 DEF TypeOK
  <2>3. CASE x # p
    <3>1. due'[x] = due[x]
      BY <2>1, <2>3 DEF TypeOK
    <3>2. \A c \in Conn : Carries(c, x) => sub'[c] = sub[c]
      BY <2>1, <2>3 DEF Carries, TypeOK
    <3>3. Listens(x) => Listens(x)'
      BY <3>2 DEF Listens, Carries
    <3> QED
      BY <2>1, <3>1, <3>3, <1>0, <1>14
  <2> QED
    BY <2>2, <2>3
<1>11. CASE \E c \in Conn : Release(c)
  <2>1. PICK d \in Conn : Release(d)
    BY <1>11
  <2>2. \A c \in Conn : Carries(c, x) => sub'[c] = sub[c]
    BY <2>1 DEF Release, Carries, TypeOK
  <2>3. Listens(x) => Listens(x)'
    BY <2>2 DEF Listens, Carries
  <2> QED
    BY <2>1, <2>3, <1>0, <1>14 DEF Release
<1>12. CASE Restart
  BY <1>12, <1>0, <1>14 DEF Restart
<1>13. CASE UNCHANGED vars
  <2>1. Listens(x)' <=> Listens(x)
    BY <1>13 DEF vars, Listens, Carries
  <2> QED
    BY <1>13, <2>1, <1>0 DEF vars
<1> QED
  BY <1>1, <1>2, <1>3, <1>4, <1>5, <1>6, <1>7, <1>8, <1>9, <1>10, <1>11, <1>12, <1>13
     DEF Next, Browse, Change, Respond, Stream, Quiet


\* A page that is behind after a step has something on its way, whatever the
\* step was.
LEMMA RepairStep ==
  ASSUME LiveInv, [Next]_vars
  PROVE  StaleIsRepaired'
<1> USE DEF LiveInv
<1> SUFFICES ASSUME NEW x \in Page, shown'[x] # NoData, due'[x] > shown'[x]
             PROVE  OnTheWay(x)'
  BY DEF StaleIsRepaired, OnTheWay
<1>14. /\ shown[x] # NoData /\ due[x] > shown[x] => OnTheWay(x)
       /\ due[x] <= data
       /\ due[x] > 0 => Listens(x) /\ shown[x] # NoData
       /\ fetch[x].at = "read" => shown[x] <= fetch[x].got
  BY DEF StaleIsRepaired, OnTheWay, PromisesHold
<1>15. /\ due[x] \in Nat /\ data \in Nat /\ shown[x] \in Int
       /\ shown[x] # NoData => shown[x] \in Nat
       /\ fetch[x].at = "read" => fetch[x].got \in Nat
       /\ Asked.at # "read" /\ Idle.at # "read" /\ Idle # Asked
  BY PageNumbers DEF Asked, Idle
<1>1. CASE \E p \in Page : Read(p)
  <2>1. PICK p \in Page : Read(p)
    BY <1>1
  <2>2. UNCHANGED <<data, write, sub, shown, due>>
    BY <2>1 DEF Read
  <2>3. fetch'[x] = IF x = p THEN [at |-> "read", got |-> data] ELSE fetch[x]
    BY <2>1 DEF Read, TypeOK
  <2> QED
    BY <2>2, <2>3, <1>14, <1>15 DEF OnTheWay, Carries
<1>2. CASE \E p \in Page : Arrive(p)
  <2>1. PICK p \in Page : Arrive(p)
    BY <1>2
  <2>2. UNCHANGED <<data, write, sub, due>>
    BY <2>1 DEF Arrive
  <2>3. /\ fetch'[x] = IF x = p THEN Idle ELSE fetch[x]
        /\ shown'[x] = IF x = p THEN fetch[x].got ELSE shown[x]
        /\ x = p => fetch[x].at = "read"
    BY <2>1 DEF Arrive, TypeOK
  <2>4. CASE x # p
    BY <2>2, <2>3, <2>4, <1>14 DEF OnTheWay, Carries
  <2>5. CASE x = p
    <3>1. due[x] > fetch[x].got /\ fetch[x].got \in Nat /\ shown[x] <= fetch[x].got
      BY <2>2, <2>3, <2>5, <1>14, <1>15
    <3>2. OnTheWay(x)
      BY <3>1, <1>14, <1>15
    <3>3. fetch[x] # Asked /\ ~(fetch[x].got >= due[x])
      BY <3>1, <2>3, <2>5, <1>15
    <3> QED
      BY <3>2, <3>3, <2>2 DEF OnTheWay, Carries
  <2> QED
    BY <2>4, <2>5
<1>3. CASE \E p \in Page : Fail(p)
  <2>1. PICK p \in Page : Fail(p)
    BY <1>3
  <2>2. UNCHANGED <<data, write, sub, shown>>
    BY <2>1 DEF Fail
  <2>3. /\ fetch'[x] = IF x = p THEN Idle ELSE fetch[x]
        /\ due'[x] = IF x = p THEN 0 ELSE due[x]
    BY <2>1 DEF Fail, TypeOK
  <2> QED
    BY <2>2, <2>3, <1>14, <1>15 DEF OnTheWay, Carries
<1>4. CASE \E p \in Page, n \in {1, 2} : Commit(p, n)
  <2>1. PICK p \in Page, n \in {1, 2} : Commit(p, n)
    BY <1>4
  <2>2. write'[p] > 0
    BY <2>1 DEF Commit, TypeOK
  <2> QED
    BY <2>2 DEF OnTheWay
<1>5. CASE \E p \in Page : CommitUnheard(p)
  <2>1. UNCHANGED <<write, sub, shown, fetch, due>>
    BY <1>5 DEF CommitUnheard
  <2> QED
    BY <2>1, <1>14 DEF OnTheWay, Carries
<1>6. CASE \E p \in Page : Publish(p)
  <2>1. /\ Deliver /\ UNCHANGED <<data, shown, fetch>>
        /\ due'[x] = IF Listens(x) /\ shown[x] # NoData THEN data ELSE due[x]
    BY <1>6 DEF Publish, Promise
  <2>2. Listens(x)
    BY <2>1, <1>14, <1>15
  <2> QED
    BY <2>1, <2>2, DeliverCarries DEF OnTheWay
<1>7. CASE \E p \in Page : Answer(p)
  <2>1. PICK p \in Page : Answer(p)
    BY <1>7
  <2>2. /\ UNCHANGED <<data, sub, shown, due>> /\ Refresh(p)
        /\ write[p] = 0 /\ \A q \in Page \ {p} : write'[q] = write[q]
    BY <2>1 DEF Answer, TypeOK
  <2>3. fetch'[x] = Asked \/ fetch'[x] = fetch[x]
    BY <2>2, RefreshAsks
  <2>4. OnTheWay(x)
    BY <2>2, <1>14
  <2>5. \A q \in Page : write[q] > 0 => write'[q] > 0
    BY <2>2
  <2> QED
    BY <2>2, <2>3, <2>4, <2>5 DEF OnTheWay, Carries
<1>8. CASE \E p \in Page : Subscribe(p)
  <2>1. PICK p \in Page, d \in Conn :
          /\ ~sub[d].open
          /\ sub' = [sub EXCEPT ![d] = [open |-> TRUE, page |-> p, buf |-> 0, alive |-> TRUE]]
          /\ UNCHANGED <<data, write, shown, fetch, due>>
    BY <1>8 DEF Subscribe
  <2>2. \A c \in Conn : Carries(c, x) => Carries(c, x)' /\ sub'[c] = sub[c]
    BY <2>1 DEF Carries, TypeOK
  <2> QED
    BY <2>1, <2>2, <1>14 DEF OnTheWay
<1>9. CASE \E p \in Page : Forward(p)
  <2>1. PICK p \in Page, d \in Conn :
          /\ Carries(d, p) /\ sub[d].buf > 0
          /\ sub' = [sub EXCEPT ![d].buf = @ - 1]
          /\ Refresh(p) /\ UNCHANGED <<data, write, shown, due>>
    BY <1>9 DEF Forward
  <2>2. CASE x = p
    BY <2>1, <2>2, RefreshAsks DEF OnTheWay
  <2>3. CASE x # p
    <3>1. fetch'[x] = fetch[x]
      BY <2>1, <2>3, RefreshAsks
    <3>2. \A c \in Conn : Carries(c, x) => sub'[c] = sub[c]
      BY <2>1, <2>3 DEF Carries, TypeOK
    <3>3. OnTheWay(x)
      BY <2>1, <1>14
    <3> QED
      BY <2>1, <3>1, <3>2, <3>3 DEF OnTheWay, Carries
  <2> QED
    BY <2>2, <2>3
<1>10. CASE \E p \in Page : Cut(p)
  <2>1. PICK p \in Page, d \in Conn :
          /\ Carries(d, p)
          /\ sub' = [sub EXCEPT ![d].alive = FALSE]
          /\ due' = [due EXCEPT ![p] = 0]
          /\ UNCHANGED <<data, write, shown, fetch>>
    BY <1>10 DEF Cut
  <2>2. x # p
    BY <2>1, <1>15 DEF TypeOK
  <2>3. due'[x] = due[x]
    BY <2>1, <2>2 DEF TypeOK
  <2>4. \A c \in Conn : Carries(c, x) => sub'[c] = sub[c]
    BY <2>1, <2>2 DEF Carries, TypeOK
  <2>5. OnTheWay(x)
    BY <2>1, <2>3, <1>14
  <2> QED
    BY <2>1, <2>3, <2>4, <2>5 DEF OnTheWay, Carries
<1>11. CASE \E c \in Conn : Release(c)
  <2>1. PICK d \in Conn : Release(d)
    BY <1>11
  <2>2. \A c \in Conn : Carries(c, x) => sub'[c] = sub[c]
    BY <2>1 DEF Release, Carries, TypeOK
  <2>3. OnTheWay(x) /\ UNCHANGED <<data, write, fetch, shown, due>>
    BY <2>1, <1>14 DEF Release
  <2> QED
    BY <2>2, <2>3 DEF OnTheWay, Carries
<1>12. CASE Restart
  BY <1>12, <1>15 DEF Restart
<1>13. CASE UNCHANGED vars
  BY <1>13, <1>14 DEF vars, OnTheWay, Carries
<1> QED
  BY <1>1, <1>2, <1>3, <1>4, <1>5, <1>6, <1>7, <1>8, <1>9, <1>10, <1>11, <1>12, <1>13
     DEF Next, Browse, Change, Respond, Stream, Quiet

\* A loaded, connected page that is behind has something under way that repairs
\* it: dropping a change at a full buffer, or giving up a fetch for a newer one,
\* loses nothing (hub.go Publish, useEvents.ts).
THEOREM BehindIsRepaired == Spec => []StaleIsRepaired
<1>1. Init => LiveInv
  <2> SUFFICES ASSUME Init PROVE LiveInv
    OBVIOUS
  <2>1. TypeOK
    BY BufferHolds DEF Init, TypeOK, Fetch, Sub, Free, NoData, NoWrite
  <2>2. PromisesHold /\ StaleIsRepaired
    BY DEF Init, PromisesHold, StaleIsRepaired, NoData, Asked
  <2> QED
    BY <2>1, <2>2 DEF LiveInv
<1>2. LiveInv /\ [Next]_vars => LiveInv'
  BY TypeStep, PromiseStep, RepairStep DEF LiveInv
<1>3. LiveInv => StaleIsRepaired
  BY DEF LiveInv
<1> QED
  BY <1>1, <1>2, <1>3, PTL DEF Spec
=============================================================================
