---------------------------- MODULE LiveUpdates -----------------------------
(***************************************************************************)
(* How a committed change reaches the pages: the service publishes after   *)
(* the commit, the hub copies the change to the buffer of each             *)
(* subscription or drops it, a stream forwards what is buffered to its     *)
(* page, and the page fetches again.                                       *)
(*                                                                         *)
(* A change carries an id and a kind that no page looks at, so a buffer is *)
(* the number of changes in it, and what is on the wire counts as still    *)
(* buffered.  Data is the number of changes committed; a page shows what   *)
(* its last fetch read.  Each page has one view and one write in hand.     *)
(***************************************************************************)
EXTENDS Integers

CONSTANTS
  Page,        \* open browser pages
  Conn,        \* subscriptions of the hub, at most one per connection
  Buffer,      \* the capacity of a subscription's channel, 16 in the code
  Awake,       \* the pages that keep running, the others may stop reading
  Writer,      \* bound: the pages that write
  MaxChanges,  \* bound: changes committed
  MaxFaults    \* bound: connections cut, requests failed, restarts

ASSUME BufferHolds == Buffer \in Nat \ {0}
ASSUME SomeOfThePages == Writer \subseteq Page /\ Awake \subseteq Page
ASSUME BoundsAreNat == MaxChanges \in Nat /\ MaxFaults \in Nat

VARIABLES
  data,    \* how many changes are committed
  write,   \* what is left to publish of the write a page has in hand
  sub,     \* the hub's subscriptions
  fetch,   \* the fetch a page has under way
  shown,   \* what the page shows
  due,     \* history: the change the page has been promised
  faults   \* faults so far

vars == <<data, write, sub, fetch, shown, due, faults>>

NoData == -1
NoWrite == -1

Free == [open |-> FALSE]

\* The page of a subscription is gone when its connection is not alive, but
\* the handler has yet to notice.
OpenSub == [open : {TRUE}, page : Page, buf : Nat, alive : BOOLEAN]
Sub == {Free} \cup OpenSub

\* No fetch, a query on its way, or an answer on its way.
Idle == [at |-> "idle"]
Asked == [at |-> "asked"]
Fetch == {Idle, Asked} \cup [at : {"read"}, got : Nat]

Init ==
  /\ data = 0
  /\ write = [p \in Page |-> NoWrite]
  /\ sub = [c \in Conn |-> Free]
  /\ fetch = [p \in Page |-> Asked]
  /\ shown = [p \in Page |-> NoData]
  /\ due = [p \in Page |-> 0]
  /\ faults = 0

Carries(c, p) == sub[c].open /\ sub[c].page = p /\ sub[c].alive

Listens(p) == \E c \in Conn : Carries(c, p)

\* A page that has loaded and is connected is promised change n.
Promise(n) ==
  due' = [p \in Page |-> IF Listens(p) /\ shown[p] # NoData THEN n ELSE due[p]]

-----------------------------------------------------------------------------
(* The browser.                                                            *)

\* A plausible slip: a fetch under way is taken for a fresh one.
RefreshUnlessFetching(p) ==
  fetch' = [fetch EXCEPT ![p] = IF @ = Idle THEN Asked ELSE @]

\* Invalidation fetches again and gives up a fetch under way; only a first
\* load, with nothing to show yet, is left to finish.
Refresh(p) ==
  fetch' = [fetch EXCEPT ![p] = IF @ # Idle /\ shown[p] = NoData THEN @
                                ELSE Asked]

\* The server answers the query with what is committed.
Read(p) ==
  /\ fetch[p] = Asked
  /\ fetch' = [fetch EXCEPT ![p] = [at |-> "read", got |-> data]]
  /\ UNCHANGED <<data, write, sub, shown, due, faults>>

Arrive(p) ==
  /\ fetch[p].at = "read"
  /\ shown' = [shown EXCEPT ![p] = fetch[p].got]
  /\ fetch' = [fetch EXCEPT ![p] = Idle]
  /\ UNCHANGED <<data, write, sub, due, faults>>

\* The fetch and its one retry fail: the page keeps what it shows.
Fail(p) ==
  /\ faults < MaxFaults
  /\ fetch[p] # Idle
  /\ fetch' = [fetch EXCEPT ![p] = Idle]
  /\ due' = [due EXCEPT ![p] = 0]
  /\ faults' = faults + 1
  /\ UNCHANGED <<data, write, sub, shown>>

-----------------------------------------------------------------------------
(* Writes.                                                                 *)

\* A completion that spawns publishes twice, every other write once.
Commit(p, owed) ==
  /\ data < MaxChanges
  /\ write[p] = NoWrite
  /\ data' = data + 1
  /\ write' = [write EXCEPT ![p] = owed]
  /\ Promise(data + 1)
  /\ UNCHANGED <<sub, fetch, shown, faults>>

\* The request is cancelled while COMMIT is under way: the change is there,
\* the store returns an error, and nothing is published.
CommitUnheard(p) ==
  /\ faults < MaxFaults
  /\ data < MaxChanges
  /\ write[p] = NoWrite
  /\ data' = data + 1
  /\ faults' = faults + 1
  /\ UNCHANGED <<write, sub, fetch, shown, due>>

Full(c) == sub[c].open /\ sub[c].buf = Buffer

\* Plausible slips: the loop ends at the first full buffer, waits for it, or
\* sends without looking.
DeliverUnlessFull ==
  sub' = [c \in Conn |-> IF sub[c].open /\ ~(\E d \in Conn : Full(d))
                         THEN [sub[c] EXCEPT !.buf = @ + 1] ELSE sub[c]]

DeliverBlocking ==
  /\ ~(\E c \in Conn : Full(c))
  /\ sub' = [c \in Conn |-> IF sub[c].open THEN [sub[c] EXCEPT !.buf = @ + 1]
                            ELSE sub[c]]

DeliverUnbounded ==
  sub' = [c \in Conn |-> IF sub[c].open THEN [sub[c] EXCEPT !.buf = @ + 1]
                         ELSE sub[c]]

Deliver ==
  sub' = [c \in Conn |-> IF sub[c].open /\ ~Full(c)
                         THEN [sub[c] EXCEPT !.buf = @ + 1] ELSE sub[c]]

\* One step, because the hub's lock keeps Subscribe and release out.
Publish(p) ==
  /\ write[p] > 0
  /\ write' = [write EXCEPT ![p] = @ - 1]
  /\ Deliver
  /\ Promise(data)
  /\ UNCHANGED <<data, fetch, shown, faults>>

\* The page that wrote fetches again of its own accord.
Answer(p) ==
  /\ write[p] = 0
  /\ write' = [write EXCEPT ![p] = NoWrite]
  /\ Refresh(p)
  /\ UNCHANGED <<data, sub, shown, due, faults>>

-----------------------------------------------------------------------------
(* Streams.                                                                *)

\* EventSource connects when the page opens and again whenever it is cut.
Subscribe(p) ==
  /\ ~Listens(p)
  /\ \E c \in Conn :
       /\ ~sub[c].open
       /\ sub' = [sub EXCEPT ![c] = [open |-> TRUE, page |-> p, buf |-> 0,
                                     alive |-> TRUE]]
  /\ UNCHANGED <<data, write, fetch, shown, due, faults>>

Forward(p) ==
  /\ \E c \in Conn :
       /\ Carries(c, p)
       /\ sub[c].buf > 0
       /\ sub' = [sub EXCEPT ![c].buf = @ - 1]
  /\ Refresh(p)
  /\ UNCHANGED <<data, write, shown, due, faults>>

Cut(p) ==
  /\ faults < MaxFaults
  /\ \E c \in Conn :
       /\ Carries(c, p)
       /\ sub' = [sub EXCEPT ![c].alive = FALSE]
  /\ due' = [due EXCEPT ![p] = 0]
  /\ faults' = faults + 1
  /\ UNCHANGED <<data, write, fetch, shown>>

\* The context ends, or a write or a heartbeat fails: the handler returns.
Release(c) ==
  /\ sub[c].open /\ ~sub[c].alive
  /\ sub' = [sub EXCEPT ![c] = Free]
  /\ UNCHANGED <<data, write, fetch, shown, due, faults>>

\* The process stops and starts: subscriptions and requests in hand are gone.
\* What is committed stays; fetches are retried, or fail (Fail).
Restart ==
  /\ faults < MaxFaults
  /\ sub' = [c \in Conn |-> Free]
  /\ write' = [p \in Page |-> NoWrite]
  /\ due' = [p \in Page |-> 0]
  /\ faults' = faults + 1
  /\ UNCHANGED <<data, fetch, shown>>

-----------------------------------------------------------------------------
Browse(p) == Read(p) \/ Arrive(p) \/ Fail(p)

Change(p) == p \in Writer /\ (Commit(p, 1) \/ Commit(p, 2) \/ CommitUnheard(p))

Respond(p) == Publish(p) \/ Answer(p)

Stream(p) == Subscribe(p) \/ Forward(p) \/ Cut(p)

\* Everybody has seen everything and the bounds are used up.
Quiet ==
  /\ data = MaxChanges /\ faults = MaxFaults
  /\ \A p \in Page : fetch[p] = Idle /\ write[p] = NoWrite
  /\ UNCHANGED vars

Next ==
  \/ \E p \in Page : Browse(p) \/ Change(p) \/ Respond(p) \/ Stream(p)
  \/ \E c \in Conn : Release(c)
  \/ Restart
  \/ Quiet

Spec == Init /\ [][Next]_vars

\* A request goes on to its end, whatever the readers do.
ServerFairness == \A p \in Page : WF_vars(Respond(p))

\* A page that runs reconnects, takes what is sent and finishes its fetches.
PageFairness ==
  \A p \in Awake : /\ WF_vars(Subscribe(p))
                    /\ WF_vars(Forward(p))
                    /\ WF_vars(Read(p))
                    /\ WF_vars(Arrive(p))

\* The heartbeat finds a dead connection.
StreamFairness == \A c \in Conn : WF_vars(Release(c))

FairSpec == Spec /\ ServerFairness /\ StreamFairness /\ PageFairness

-----------------------------------------------------------------------------
\* The types of the hub, the streams and the cache; a channel never holds more
\* than its capacity (hub.go Subscribe, Publish).
TypeOK ==
  /\ data \in Nat
  /\ faults \in Nat
  /\ write \in [Page -> {NoWrite} \cup Nat]
  /\ sub \in [Conn -> Sub]
  /\ fetch \in [Page -> Fetch]
  /\ shown \in [Page -> {NoData} \cup Nat]
  /\ due \in [Page -> Nat]
  /\ \A c \in Conn : sub[c].open => sub[c].buf <= Buffer

\* A loaded, connected page that is behind what it was promised has something
\* under way that will make it catch up: a publication still owed, a change in
\* its buffer, a query not yet answered, or an answer that is new enough.  It is
\* why dropping a change at a full buffer loses nothing (hub.go Publish) and why
\* a change that arrives during a fetch is not swallowed by it (useEvents.ts).
StaleIsRepaired ==
  \A p \in Page : shown[p] # NoData /\ due[p] > shown[p] =>
    \/ \E q \in Page : write[q] > 0
    \/ \E c \in Conn : Carries(c, p) /\ sub[c].buf > 0
    \/ fetch[p] = Asked
    \/ fetch[p].at = "read" /\ fetch[p].got >= due[p]

\* A loaded page that runs and is connected when a change is committed, or when
\* any later change is published, shows it in the end, unless its stream is cut,
\* its fetch fails or the server stops: the next event repairs what the last one
\* missed (useEvents.ts).
ListenersCatchUp ==
  \A p \in Awake : \A n \in 1..MaxChanges :
    due[p] >= n ~> (shown[p] >= n \/ due[p] < n)

\* A write is answered, or ends with the server, however slow or dead the
\* readers of the streams are (hub.go Publish, the default case).
WritesEnd == \A p \in Page : write[p] # NoWrite ~> write[p] = NoWrite

\* App.tsx: anybody else's change refreshes what is on screen, without a reload.
ChangesAreShown ==
  \A p \in Awake \ Writer : \A n \in 1..MaxChanges : data >= n ~> shown[p] >= n

\* useEvents.ts: the next event repairs whatever the last one missed.  A change
\* waiting to be sent to a page makes it show all that is committed by now,
\* unless the stream is cut first.
NextEventRepairs ==
  \A p \in Awake \ Writer : \A n \in 1..MaxChanges :
    (\E c \in Conn : Carries(c, p) /\ sub[c].buf > 0 /\ data >= n)
      ~> (shown[p] >= n \/ ~Listens(p))
=============================================================================
