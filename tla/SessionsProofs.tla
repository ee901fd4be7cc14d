--------------------------- MODULE SessionsProofs ---------------------------
(***************************************************************************)
(* Proofs about Sessions, for any users, browsers, pages, requests, tokens,*)
(* lifetime and bounds.                                                    *)
(*                                                                         *)
(* The properties speak of a request that has arrived.  The invariant      *)
(* below follows what makes them true from where it is first seen: a       *)
(* password given, a session opened for it, the cookie of the answer, and  *)
(* the token of the requests sent with that cookie.                        *)
(***************************************************************************)
EXTENDS Sessions, TLAPS

\* The browser may hold this token: it has been opened, and while it stands
\* for somebody, that user's password was given in this browser.
Held(b, t) ==
  /\ opened[t] # Unused
  /\ sessions[t] # Closed => <<b, sessions[t].user>> \in verified

\* A session is dated by its token and ends a lifetime later.
SessionsDated ==
  \A t \in Token :
    /\ opened[t] # Unused => opened[t] <= clock
    /\ sessions[t] # Closed => /\ opened[t] # Unused
                               /\ sessions[t].expires = opened[t] + Lifetime

\* A token signed out stays closed: it was opened once, and none is opened twice.
OutEnded == \A t \in out : sessions[t] = Closed /\ opened[t] # Unused

CookiesHeld == \A b \in Browser : cookie[b] # NoToken => Held(b, cookie[b])

\* What is known of a request under way.
RequestOK(q) ==
  /\ (q.at \in {"sent", "handled"} /\ q.token # NoToken) => Held(BrowserOf[q.page], q.token)
  /\ (q.at \in {"sent", "handled"} /\ q.kind \in {"register", "login"}) => q.user \in User
  /\ q.at = "set" => Held(BrowserOf[q.page], q.token)
  /\ q.at = "known" => q.user \in accounts /\ <<BrowserOf[q.page], q.user>> \in verified
  /\ (q.at = "handled" /\ q.actor # Nobody) =>
       /\ q.token # NoToken
       /\ <<BrowserOf[q.page], q.actor>> \in verified
       /\ q.arrived - opened[q.token] \in 0..(Lifetime - 1)
  /\ (q.at = "handled" /\ q.late) => q.actor = Nobody

RequestsOK == \A r \in Request : RequestOK(request[r])

IInv == TypeOK /\ SessionsDated /\ OutEnded /\ CookiesHeld /\ RequestsOK

-----------------------------------------------------------------------------

\* The initial states satisfy the invariant: nothing is opened or under way.
LEMMA InitInv == Init => IInv
<1> SUFFICES ASSUME Init PROVE IInv
  OBVIOUS
<1> USE BoundsAreNat, NamesDiffer DEF Init
<1>1. TypeOK
  <2>1. Asked(NoToken, FALSE) \in Fetches /\ Free \in Requests
    BY DEF Asked, Fetches, Requests
  <2>2. me \in [Page -> Fetches] /\ request \in [Request -> Requests]
    BY <2>1
  <2>3. /\ sessions \in [Token -> {Closed} \cup [user : accounts, expires : Nat]]
        /\ opened \in [Token -> Nat \cup {Unused}]
        /\ cookie \in [Browser -> Token \cup {NoToken}]
        /\ menu \in [Page -> User \cup {Nobody, Unloaded}]
    OBVIOUS
  <2>4. clock \in Nat /\ faults \in Nat /\ clock + faults <= MaxEvents
    OBVIOUS
  <2> QED
    BY <2>2, <2>3, <2>4 DEF TypeOK
<1>2. SessionsDated /\ OutEnded /\ CookiesHeld
  BY DEF SessionsDated, OutEnded, CookiesHeld, Closed, Unused
<1>3. RequestsOK
  BY DEF RequestsOK, RequestOK, Free
<1> QED
  BY <1>1, <1>2, <1>3 DEF IInv

\* What no step takes back: passwords given, accounts, and when a token was
\* opened; and a session only closes once it is open.
Grows ==
  /\ accounts \subseteq accounts' /\ verified \subseteq verified'
  /\ \A t \in Token : opened[t] # Unused =>
       opened'[t] = opened[t] /\ sessions'[t] \in {sessions[t], Closed}

\* A token once held stays held.
LEMMA StaysHeld ==
  ASSUME Grows, NEW b \in Browser, NEW t \in Token, Held(b, t)
  PROVE  Held(b, t)'
  BY DEF Grows, Held

\* What was known of a request stays known.
LEMMA StaysOK ==
  ASSUME Grows, NEW q \in Requests, RequestOK(q)
  PROVE  RequestOK(q)'
<1> USE NamesDiffer
<1>1. CASE q = Free
  BY <1>1 DEF RequestOK, Free
<1> USE PagesAreOfBrowsers
<1>2. CASE q.at \in {"sent", "handled"}
  <2>1. q.token \in Token \cup {NoToken} /\ BrowserOf[q.page] \in Browser
    BY <1>2 DEF Requests, Free
  <2>2. q.token # NoToken => Held(BrowserOf[q.page], q.token) /\ Held(BrowserOf[q.page], q.token)'
    BY <1>2, <2>1, StaysHeld DEF RequestOK
  <2>3. q.token # NoToken => opened'[q.token] = opened[q.token]
    BY <2>1, <2>2 DEF Held, Grows
  <2> QED
    BY <1>2, <2>2, <2>3 DEF RequestOK, Grows
<1>3. CASE q.at = "known"
  BY <1>3 DEF RequestOK, Grows
<1>4. CASE q.at = "set"
  <2>1. q.token \in Token /\ BrowserOf[q.page] \in Browser
    BY <1>4 DEF Requests, Free
  <2> QED
    BY <1>4, <2>1, StaysHeld DEF RequestOK
<1>5. CASE q.at \in {"refused", "recorded", "clear"}
  BY <1>5 DEF RequestOK
<1> QED
  BY <1>1, <1>2, <1>3, <1>4, <1>5 DEF Requests

\* What a step does to one request: the others stay as they are.
LEMMA OneRequest ==
  ASSUME IInv, Grows, NEW r \in Request, NEW q \in Requests, Go(r, q), RequestOK(q)'
  PROVE  request' \in [Request -> Requests] /\ RequestsOK'
<1>1. request \in [Request -> Requests] /\ request' = [request EXCEPT ![r] = q]
  BY DEF IInv, TypeOK, Go
<1>2. request' \in [Request -> Requests]
  BY <1>1
<1>3. ASSUME NEW s \in Request
      PROVE  RequestOK(request[s])'
  <2>1. CASE s = r
    <3>1. request'[s] = q
      BY <1>1, <2>1
    <3> QED
      BY <3>1 DEF RequestOK, Held
  <2>2. CASE s # r
    <3>1. PICK p \in Requests : p = request[s]
      BY <1>1
    <3>2. RequestOK(p)
      BY <3>1 DEF IInv, RequestsOK
    <3>3. RequestOK(p)'
      BY <3>2, StaysOK
    <3>4. request'[s] = p
      BY <1>1, <2>2, <3>1
    <3> QED
      BY <3>3, <3>4 DEF RequestOK, Held
  <2> QED
    BY <2>1, <2>2
<1> QED
  BY <1>2, <1>3 DEF RequestsOK

\* A cookie that does not change goes on being held.
LEMMA SameCookies ==
  ASSUME IInv, Grows, UNCHANGED cookie
  PROVE  CookiesHeld'
<1> SUFFICES ASSUME NEW b \in Browser, cookie[b] # NoToken
             PROVE  Held(b, cookie[b])'
  BY DEF CookiesHeld
<1>1. PICK t \in Token : t = cookie[b]
  BY DEF IInv, TypeOK
<1>2. Held(b, t)'
  BY <1>1, StaysHeld DEF IInv, CookiesHeld
<1> QED
  BY <1>1, <1>2 DEF Held

\* Where no session is opened or closed and the clock stands, the dates and
\* the closed tokens are as they were.
LEMMA SameSessions ==
  ASSUME IInv, UNCHANGED <<sessions, opened, clock, out>>,
         accounts \subseteq accounts', verified \subseteq verified'
  PROVE  Grows /\ SessionsDated' /\ OutEnded'
  BY DEF IInv, Grows, SessionsDated, OutEnded

\* A token stands for its session's user, who has given the password there.
LEMMA NamedHeld ==
  ASSUME IInv, NEW b \in Browser, NEW t \in Token \cup {NoToken},
         t # NoToken => Held(b, t), Named(t) # Nobody
  PROVE  /\ t \in Token /\ <<b, Named(t)>> \in verified
         /\ clock - opened[t] \in 0..(Lifetime - 1) /\ t \notin out
<1> USE BoundsAreNat, NamesDiffer
<1>1. /\ t \in Token /\ sessions[t] # Closed /\ Named(t) = sessions[t].user
      /\ ~(sessions[t].expires <= clock)
  BY DEF Named
<1>2. /\ opened[t] \in Nat /\ opened[t] <= clock /\ clock \in Nat
      /\ sessions[t].expires = opened[t] + Lifetime
  BY <1>1 DEF IInv, TypeOK, SessionsDated, Unused
<1> QED
  BY <1>1, <1>2 DEF IInv, OutEnded, Held

-----------------------------------------------------------------------------
(* One lemma for each action: it keeps the invariant.                      *)

\* Whoever arrives with a held token is named by its session, or nobody is.
LEMMA ArriveInv ==
  ASSUME IInv, NEW r \in Request, Arrive(r)
  PROVE  IInv'
<1> USE BoundsAreNat, NamesDiffer
<1>1. PICK failed \in {0, 1}, actor \in User \cup {Nobody} :
        /\ Resolves(request[r].token, actor, failed)
        /\ clock + faults + failed <= MaxEvents
        /\ faults' = faults + failed
        /\ Go(r, [request[r] EXCEPT
                   !.at = "handled", !.arrived = clock, !.late = request[r].token \in out,
                   !.actor = actor])
  BY DEF Arrive
<1>2. Grows /\ SessionsDated' /\ OutEnded'
  BY SameSessions DEF Arrive
<1> DEFINE Kinds == [at : {"sent", "handled"}, page : Page,
                     kind : {"register", "login", "logout", "edit"},
                     user : User \cup {Nobody}, token : Token \cup {NoToken},
                     actor : User \cup {Nobody}, arrived : Nat, late : BOOLEAN]
<1>3. PICK p \in Kinds : p = request[r] /\ p.at = "sent" /\ RequestOK(p)
  <2>1. request[r] \in Requests /\ request[r].at = "sent" /\ RequestOK(request[r])
    BY DEF Arrive, IInv, TypeOK, RequestsOK
  <2>2. request[r] \in Kinds
    BY <2>1 DEF Requests, Free
  <2> QED
    BY <2>1, <2>2
<1>4. /\ p.token # NoToken => Held(BrowserOf[p.page], p.token)
      /\ p.kind \in {"register", "login"} => p.user \in User
  BY <1>3 DEF RequestOK
<1>5. actor = Nobody \/ actor = Named(p.token)
  BY <1>1, <1>3 DEF Resolves
<1>6. PICK late \in BOOLEAN : late = (p.token \in out)
  <2>1. CASE p.token \in out
    <3>1. TRUE = (p.token \in out)
      BY <2>1
    <3> QED
      BY <3>1
  <2>2. CASE p.token \notin out
    <3>1. FALSE = (p.token \in out)
      BY <2>2
    <3> QED
      BY <3>1
  <2> QED
    BY <2>1, <2>2
<1>7. PICK q \in Kinds :
        /\ q = [p EXCEPT !.at = "handled", !.arrived = clock, !.late = late, !.actor = actor]
        /\ q.at = "handled" /\ q.page = p.page /\ q.kind = p.kind /\ q.user = p.user
        /\ q.token = p.token /\ q.actor = actor /\ q.arrived = clock /\ q.late = late
  <2> DEFINE next == [p EXCEPT !.at = "handled", !.arrived = clock, !.late = late,
                               !.actor = actor]
  <2>1. clock \in Nat
    BY DEF IInv, TypeOK
  <2>2. /\ next \in Kinds /\ next.at = "handled" /\ next.page = p.page
        /\ next.kind = p.kind /\ next.user = p.user /\ next.token = p.token
        /\ next.actor = actor /\ next.arrived = clock /\ next.late = late
    BY <2>1
  <2> QED
    BY <2>2, Zenon
<1>8. q \in Requests /\ Go(r, q)
  <2>1. q \in Requests
    BY <1>7 DEF Requests
  <2>2. Go(r, q)
    BY <1>1, <1>3, <1>6, <1>7, Zenon
  <2> QED
    BY <2>1, <2>2
<1>9. actor # Nobody =>
        /\ p.token \in Token /\ <<BrowserOf[p.page], actor>> \in verified
        /\ clock - opened[p.token] \in 0..(Lifetime - 1) /\ p.token \notin out
  BY <1>3, <1>4, <1>5, NamedHeld, PagesAreOfBrowsers
<1>10. RequestOK(q)
  BY <1>4, <1>6, <1>7, <1>9 DEF RequestOK
<1>11. RequestOK(q)'
  BY <1>2, <1>8, <1>10, StaysOK
<1>12. request' \in [Request -> Requests] /\ RequestsOK'
  BY <1>2, <1>8, <1>11, OneRequest
<1>13. faults' \in Nat /\ clock' + faults' <= MaxEvents
  BY <1>1 DEF Arrive, IInv, TypeOK
<1> QED
  BY <1>2, <1>12, <1>13, SameCookies DEF Arrive, IInv, TypeOK

\* A registration of a new address is its own proof of the password.
LEMMA RegisterInv ==
  ASSUME IInv, NEW r \in Request, Register(r)
  PROVE  IInv'
<1> USE BoundsAreNat, NamesDiffer
<1>0. /\ request[r] \in Requests /\ RequestOK(request[r])
      /\ request[r].at = "handled" /\ request[r].kind = "register"
  BY DEF Register, Handles, IInv, TypeOK, RequestsOK
<1>1. PICK p \in Page, u \in User, b \in Browser :
        request[r].page = p /\ request[r].user = u /\ BrowserOf[p] = b
  BY <1>0, PagesAreOfBrowsers DEF Requests, Free, RequestOK
<1>2. Grows /\ SessionsDated' /\ OutEnded'
  BY SameSessions DEF Register
<1>3. CookiesHeld'
  BY <1>2, SameCookies DEF Register
<1>4. request' \in [Request -> Requests] /\ RequestsOK'
  <2>1. CASE u \in accounts
    <3>1. PICK q \in Requests : q = [at |-> "refused", page |-> p]
      BY DEF Requests
    <3>2. Go(r, q)
      BY <1>1, <2>1, <3>1 DEF Register, Done
    <3> QED
      BY <1>2, <3>1, <3>2, OneRequest DEF RequestOK
  <2>2. CASE u \notin accounts
    <3>1. PICK q \in Requests : q = [at |-> "known", page |-> p, user |-> u]
      BY DEF Requests
    <3>2. Go(r, q) /\ u \in accounts' /\ <<b, u>> \in verified'
      BY <1>1, <2>2, <3>1 DEF Register, Known
    <3>3. RequestOK(q)'
      BY <1>1, <3>1, <3>2 DEF RequestOK
    <3> QED
      BY <1>2, <3>2, <3>3, OneRequest
  <2> QED
    BY <2>1, <2>2
<1>5. accounts' \subseteq User /\ verified' \subseteq Browser \X User
  BY <1>1 DEF Register, IInv, TypeOK
<1>6. sessions' \in [Token -> {Closed} \cup [user : accounts', expires : Nat]]
  BY <1>2 DEF Register, Grows, IInv, TypeOK
<1> QED
  BY <1>2, <1>3, <1>4, <1>5, <1>6 DEF Register, IInv, TypeOK

\* Only the right password for an account leads on to a session.
LEMMA LoginInv ==
  ASSUME IInv, NEW r \in Request, Login(r)
  PROVE  IInv'
<1> USE BoundsAreNat, NamesDiffer
<1>0. /\ request[r] \in Requests /\ RequestOK(request[r])
      /\ request[r].at = "handled" /\ request[r].kind = "login"
  BY DEF Login, Handles, IInv, TypeOK, RequestsOK
<1>1. PICK p \in Page, u \in User, b \in Browser :
        request[r].page = p /\ request[r].user = u /\ BrowserOf[p] = b
  BY <1>0, PagesAreOfBrowsers DEF Requests, Free, RequestOK
<1>2. PICK right \in BOOLEAN :
        /\ IF u \in accounts /\ right THEN Known(r) ELSE Done(r, "refused")
        /\ verified' = IF u \in accounts /\ right THEN verified \cup {<<b, u>>} ELSE verified
  BY <1>1 DEF Login, Authenticates
<1>3. Grows /\ SessionsDated' /\ OutEnded'
  BY <1>2, SameSessions DEF Login
<1>4. CookiesHeld'
  BY <1>3, SameCookies DEF Login
<1>5. request' \in [Request -> Requests] /\ RequestsOK'
  <2>1. CASE u \in accounts /\ right
    <3>1. PICK q \in Requests : q = [at |-> "known", page |-> p, user |-> u]
      BY DEF Requests
    <3>2. Go(r, q) /\ u \in accounts' /\ <<b, u>> \in verified'
      BY <1>1, <1>2, <2>1, <3>1 DEF Login, Known
    <3>3. RequestOK(q)'
      BY <1>1, <3>1, <3>2 DEF RequestOK
    <3> QED
      BY <1>3, <3>2, <3>3, OneRequest
  <2>2. CASE ~(u \in accounts /\ right)
    <3>1. PICK q \in Requests : q = [at |-> "refused", page |-> p]
      BY DEF Requests
    <3>2. Go(r, q)
      BY <1>1, <1>2, <2>2, <3>1 DEF Done
    <3> QED
      BY <1>3, <3>1, <3>2, OneRequest DEF RequestOK
  <2> QED
    BY <2>1, <2>2
<1>6. verified' \subseteq Browser \X User
  BY <1>2 DEF IInv, TypeOK
<1> QED
  BY <1>3, <1>4, <1>5, <1>6 DEF Login, IInv, TypeOK

\* A fresh token is given to the browser whose user is known.
LEMMA StartSessionInv ==
  ASSUME IInv, NEW r \in Request, NEW t \in Token, StartSession(r, t)
  PROVE  IInv'
<1> USE BoundsAreNat, NamesDiffer
<1>0. /\ request[r] \in Requests /\ RequestOK(request[r]) /\ request[r].at = "known"
      /\ clock \in Nat /\ opened[t] = Unused
  BY DEF StartSession, IInv, TypeOK, RequestsOK
<1>1. PICK p \in Page, u \in User, b \in Browser :
        /\ request[r].page = p /\ request[r].user = u /\ BrowserOf[p] = b
        /\ u \in accounts /\ <<b, u>> \in verified
  <2>1. request[r] \in [at : {"known"}, page : Page, user : User]
    BY <1>0 DEF Requests, Free
  <2>2. request[r].user \in accounts /\ <<BrowserOf[request[r].page], request[r].user>> \in verified
    BY <1>0 DEF RequestOK
  <2> QED
    BY <2>1, <2>2, PagesAreOfBrowsers
<1>2. /\ sessions' \in [Token -> {Closed} \cup [user : accounts, expires : Nat]]
      /\ opened' \in [Token -> Nat \cup {Unused}]
      /\ sessions'[t] = [user |-> u, expires |-> clock + Lifetime] /\ opened'[t] = clock
      /\ \A s \in Token \ {t} : sessions'[s] = sessions[s] /\ opened'[s] = opened[s]
  BY <1>0, <1>1 DEF StartSession, IInv, TypeOK
<1>3. Grows
  BY <1>0, <1>2 DEF StartSession, Grows
<1>4. SessionsDated'
  BY <1>0, <1>2 DEF StartSession, SessionsDated, IInv, Unused
<1>5. OutEnded'
  BY <1>0, <1>2 DEF StartSession, OutEnded, IInv, TypeOK
<1>6. CookiesHeld'
  BY <1>3, SameCookies DEF StartSession
<1>7. PICK q \in Requests : q = [at |-> "set", page |-> p, token |-> t]
  BY DEF Requests
<1>8. Go(r, q)
  BY <1>1, <1>7 DEF StartSession
<1>9. RequestOK(q)'
  <2>1. opened'[t] # Unused /\ <<b, sessions'[t].user>> \in verified'
    BY <1>0, <1>1, <1>2 DEF StartSession, Unused
  <2> QED
    BY <1>1, <1>7, <2>1 DEF RequestOK, Held
<1>10. request' \in [Request -> Requests] /\ RequestsOK'
  BY <1>3, <1>8, <1>9, OneRequest
<1> QED
  BY <1>2, <1>4, <1>5, <1>6, <1>10 DEF StartSession, IInv, TypeOK

\* Signing out closes a session that was opened, for good.
LEMMA LogoutInv ==
  ASSUME IInv, NEW r \in Request, Logout(r)
  PROVE  IInv'
<1> USE BoundsAreNat, NamesDiffer
<1>0. /\ request[r] \in Requests /\ RequestOK(request[r]) /\ request[r].at = "handled"
  BY DEF Logout, Handles, IInv, TypeOK, RequestsOK
<1>1. PICK p \in Page, t \in Token \cup {NoToken} :
        /\ request[r].page = p /\ request[r].token = t
        /\ t # NoToken => Held(BrowserOf[p], t)
  BY <1>0, PagesAreOfBrowsers DEF Requests, Free, RequestOK
<1>2. /\ sessions' \in [Token -> {Closed} \cup [user : accounts, expires : Nat]]
      /\ out' \subseteq Token
      /\ Grows /\ SessionsDated' /\ OutEnded'
  <2>1. CASE t = NoToken
    BY <1>1, <2>1, SameSessions DEF Logout, IInv, TypeOK
  <2>2. CASE t \in Token
    <3>1. /\ sessions' = [sessions EXCEPT ![t] = Closed] /\ out' = out \cup {t}
          /\ opened[t] # Unused
      BY <1>1, <2>2 DEF Logout, DeleteSession, Held
    <3> QED
      BY <2>2, <3>1 DEF Logout, IInv, TypeOK, Grows, SessionsDated, OutEnded
  <2> QED
    BY <2>1, <2>2
<1>3. CookiesHeld'
  BY <1>2, SameCookies DEF Logout
<1>4. PICK q \in Requests : q = [at |-> "clear", page |-> p]
  BY DEF Requests
<1>5. Go(r, q)
  BY <1>1, <1>4 DEF Logout, Done
<1>6. request' \in [Request -> Requests] /\ RequestsOK'
  BY <1>2, <1>4, <1>5, OneRequest DEF RequestOK
<1> QED
  BY <1>2, <1>3, <1>6 DEF Logout, IInv, TypeOK

\* Recording an event changes only the request.
LEMMA RecordInv ==
  ASSUME IInv, NEW r \in Request, Record(r)
  PROVE  IInv'
<1>0. request[r] \in Requests /\ request[r].at = "handled"
  BY DEF Record, Handles, IInv, TypeOK
<1>1. PICK p \in Page : request[r].page = p
  BY <1>0 DEF Requests, Free
<1>2. Grows /\ SessionsDated' /\ OutEnded'
  BY SameSessions DEF Record
<1>3. CookiesHeld'
  BY <1>2, SameCookies DEF Record
<1>4. PICK q \in Requests : q = [at |-> "recorded", page |-> p]
  BY DEF Requests
<1>5. Go(r, q)
  BY <1>1, <1>4 DEF Record, Done
<1>6. request' \in [Request -> Requests] /\ RequestsOK'
  BY <1>2, <1>4, <1>5, OneRequest DEF RequestOK
<1> QED
  BY <1>2, <1>3, <1>6 DEF Record, IInv, TypeOK

\* A request that ends leaves nothing to keep.
LEMMA Ended ==
  ASSUME IInv, Grows, NEW r \in Request, Go(r, Free)
  PROVE  request' \in [Request -> Requests] /\ RequestsOK'
<1>1. PICK q \in Requests : q = Free
  BY DEF Requests
<1>2. RequestOK(q)'
  BY <1>1 DEF RequestOK, Free
<1> QED
  BY <1>1, <1>2, OneRequest

\* A request carries the cookie its browser has.
LEMMA SendInv ==
  ASSUME IInv, NEW r \in Request, NEW p \in Page,
         NEW kind \in {"register", "login", "logout", "edit"}, NEW u \in User \cup {Nobody},
         kind \in {"register", "login"} => u \in User, Send(r, p, kind, u)
  PROVE  IInv'
<1> USE NamesDiffer
<1>1. Grows /\ SessionsDated' /\ OutEnded'
  BY SameSessions DEF Send
<1>2. CookiesHeld'
  BY <1>1, SameCookies DEF Send
<1>3. PICK t \in Token \cup {NoToken} :
        /\ t # NoToken => Held(BrowserOf[p], t)
        /\ Go(r, [at |-> "sent", page |-> p, kind |-> kind, user |-> u, token |-> t,
                  actor |-> Nobody, arrived |-> 0, late |-> FALSE])
  BY PagesAreOfBrowsers DEF Send, Carried, IInv, TypeOK, CookiesHeld
<1>4. PICK q \in Requests :
        q = [at |-> "sent", page |-> p, kind |-> kind, user |-> u, token |-> t,
             actor |-> Nobody, arrived |-> 0, late |-> FALSE]
  BY DEF Requests
<1>5. Go(r, q)
  BY <1>3, <1>4
<1>6. RequestOK(q)
  BY <1>3, <1>4 DEF RequestOK
<1>7. request' \in [Request -> Requests] /\ RequestsOK'
  BY <1>1, <1>5, <1>6, StaysOK, OneRequest
<1> QED
  BY <1>1, <1>2, <1>7 DEF Send, IInv, TypeOK

\* What is carried of a cookie is the cookie, or nothing once its session is
\* over; and a fetch that carries it is one.
AskedOf(t, token) == t = token \/ (t = NoToken /\ Named(token) = Nobody)

LEMMA CarriedOf ==
  ASSUME IInv, NEW token \in Token \cup {NoToken}, NEW t \in Carried(token)
  PROVE  t \in Token \cup {NoToken} /\ AskedOf(t, token)
<1> USE NamesDiffer
<1>1. CASE t = token
  BY <1>1 DEF AskedOf
<1>2. CASE t # token
  <2>1. token \in Token /\ t = NoToken /\ opened[token] + Lifetime <= clock
    BY <1>2 DEF Carried
  <2>2. sessions[token] = Closed \/ sessions[token].expires <= clock
    BY <2>1 DEF IInv, SessionsDated
  <2> QED
    BY <2>1, <2>2 DEF AskedOf, Named
<1> QED
  BY <1>1, <1>2

LEMMA AskedFetch ==
  ASSUME IInv, NEW p \in Page, NEW token \in Token \cup {NoToken}, NEW again \in BOOLEAN,
         AskMe(p, token, again)
  PROVE  /\ me' \in [Page -> Fetches]
         /\ \E t \in Token \cup {NoToken} :
              me' = [me EXCEPT ![p] = Asked(t, again)] /\ AskedOf(t, token)
<1>1. PICK t \in Carried(token) : me' = [me EXCEPT ![p] = Asked(t, again)]
  BY DEF AskMe
<1>2. t \in Token \cup {NoToken} /\ AskedOf(t, token)
  BY CarriedOf
<1>3. Asked(t, again) \in Fetches
  BY <1>2 DEF Asked, Fetches
<1> QED
  BY <1>1, <1>2, <1>3 DEF IInv, TypeOK

\* The token of the answer becomes the cookie.
LEMMA AnswerInv ==
  ASSUME IInv, NEW r \in Request, Answer(r)
  PROVE  IInv'
<1> USE NamesDiffer
<1>0. /\ request[r] \in Requests /\ RequestOK(request[r])
      /\ request[r].at \in {"set", "clear"}
  BY DEF Answer, IInv, TypeOK, RequestsOK
<1>1. PICK p \in Page, t \in Token \cup {NoToken}, b \in Browser :
        /\ request[r].page = p /\ BrowserOf[p] = b
        /\ t = IF request[r].at = "set" THEN request[r].token ELSE NoToken
        /\ t # NoToken => Held(b, t)
  BY <1>0, PagesAreOfBrowsers DEF Requests, Free, RequestOK
<1>2. cookie' = [cookie EXCEPT ![b] = t] /\ Refetched(p, t)
  BY <1>1 DEF Answer
<1>3. Grows /\ SessionsDated' /\ OutEnded'
  BY SameSessions DEF Answer
<1>4. CookiesHeld'
  <2> SUFFICES ASSUME NEW c \in Browser, (cookie[c] # NoToken)'
               PROVE  Held(c, cookie[c])'
    BY DEF CookiesHeld
  <2>1. PICK s \in Token : s = cookie'[c] /\ Held(c, s)
    BY <1>1, <1>2 DEF IInv, TypeOK, CookiesHeld
  <2>2. Held(c, s)'
    BY <1>3, <2>1, StaysHeld
  <2> QED
    BY <2>1, <2>2 DEF Held
<1>5. request' \in [Request -> Requests] /\ RequestsOK'
  BY <1>3, Ended DEF Answer
<1>6. me' \in [Page -> Fetches] /\ astray' \subseteq Page
  BY <1>1, <1>2, AskedFetch DEF Refetched, Siblings, IInv, TypeOK
<1>7. cookie' \in [Browser -> Token \cup {NoToken}]
  BY <1>2 DEF IInv, TypeOK
<1> QED
  BY <1>3, <1>4, <1>5, <1>6, <1>7 DEF Answer, IInv, TypeOK

\* The answers and failures that only end a request.
LEMMA EndInv ==
  ASSUME IInv, NEW r \in Request, AnswerPlain(r) \/ CutOff(r)
  PROVE  IInv'
<1> USE BoundsAreNat
<1>1. Grows /\ SessionsDated' /\ OutEnded'
  BY SameSessions DEF AnswerPlain, CutOff
<1>2. CookiesHeld'
  BY <1>1, SameCookies DEF AnswerPlain, CutOff
<1>3. request' \in [Request -> Requests] /\ RequestsOK'
  BY <1>1, Ended DEF AnswerPlain, CutOff
<1> QED
  BY <1>1, <1>2, <1>3 DEF AnswerPlain, CutOff, IInv, TypeOK

\* Time passing takes nothing away.
LEMMA TickInv ==
  ASSUME IInv, Tick
  PROVE  IInv'
<1> USE BoundsAreNat
<1>1. Grows /\ SessionsDated' /\ OutEnded'
  BY DEF Tick, Grows, SessionsDated, OutEnded, IInv, TypeOK, Unused
<1>2. CookiesHeld' /\ RequestsOK'
  BY DEF Tick, CookiesHeld, RequestsOK, RequestOK, Held, IInv
<1> QED
  BY <1>1, <1>2 DEF Tick, IInv, TypeOK

\* The menu is read from the sessions and moves none.
LEMMA FetchInv ==
  ASSUME IInv, NEW p \in Page, Fetch(p)
  PROVE  IInv'
<1> USE NamesDiffer, BoundsAreNat
<1>1. SessionsDated' /\ OutEnded' /\ CookiesHeld' /\ RequestsOK'
  BY DEF Fetch, ReadMe, ShowMe, FailMe, RetryMe, Reconnect, SessionsDated, OutEnded,
         CookiesHeld, RequestsOK, RequestOK, Held, IInv
<1>2. cookie[BrowserOf[p]] \in Token \cup {NoToken}
  BY PagesAreOfBrowsers DEF IInv, TypeOK
<1>3. /\ me' \in [Page -> Fetches] /\ menu' \in [Page -> User \cup {Nobody, Unloaded}]
      /\ astray' \subseteq Page /\ faults' \in Nat
      /\ clock' + faults' <= MaxEvents
  <2>1. CASE ReadMe(p)
    <3>1. PICK failed \in {0, 1}, u \in User \cup {Nobody} :
            /\ clock + faults + failed <= MaxEvents /\ faults' = faults + failed
            /\ clock' = clock
            /\ me' = [me EXCEPT ![p] =
                        [at |-> "read", user |-> u, retried |-> @.retried]]
            /\ astray' = IF failed = 1 THEN astray \cup {p} ELSE astray
      BY <2>1 DEF ReadMe
    <3>2. me[p].retried \in BOOLEAN
      <4>1. me[p] \in Fetches /\ me[p].at = "asked"
        BY <2>1 DEF ReadMe, IInv, TypeOK
      <4> QED
        BY <4>1 DEF Fetches, NoFetch, Failed
    <3>3. PICK next \in Fetches :
            next = [at |-> "read", user |-> u, retried |-> me[p].retried]
      BY <3>2 DEF Fetches
    <3>4. me' \in [Page -> Fetches]
      BY <3>1, <3>3 DEF IInv, TypeOK
    <3>5. astray' \subseteq Page /\ faults' \in Nat
      /\ clock' + faults' <= MaxEvents /\ menu' = menu
      BY <2>1, <3>1 DEF ReadMe, IInv, TypeOK
    <3> QED
      BY <3>4, <3>5 DEF IInv, TypeOK
  <2>2. CASE ShowMe(p)
    <3>1. PICK u \in User \cup {Nobody} : me[p].user = u
      BY <2>2 DEF ShowMe, Fetches, NoFetch, Failed, IInv, TypeOK
    <3> QED
      BY <2>2, <3>1 DEF ShowMe, Fetches, IInv, TypeOK
  <2>3. CASE FailMe(p)
    BY <2>3 DEF FailMe, Fetches, IInv, TypeOK
  <2>4. CASE RetryMe(p)
    BY <1>2, <2>4, AskedFetch DEF RetryMe, IInv, TypeOK
  <2>5. CASE Reconnect(p)
    <3>1. me' \in [Page -> Fetches]
      BY <1>2, <2>5, AskedFetch DEF Reconnect, IInv, TypeOK
    <3>2. /\ menu' = menu /\ astray' = astray \ {p}
          /\ clock + faults < MaxEvents /\ clock' = clock /\ faults' = faults + 1
      BY <2>5 DEF Reconnect
    <3> QED
      BY <3>1, <3>2 DEF IInv, TypeOK
  <2> QED
    BY <2>1, <2>2, <2>3, <2>4, <2>5 DEF Fetch
<1> QED
  BY <1>1, <1>3 DEF Fetch, ReadMe, ShowMe, FailMe, RetryMe, Reconnect, IInv, TypeOK

\* Loading the page again ends requests and keeps the cookie.
LEMMA ReloadInv ==
  ASSUME IInv, NEW p \in Page, Reload(p)
  PROVE  IInv'
<1> USE BoundsAreNat, NamesDiffer
<1>1. SessionsDated' /\ OutEnded' /\ CookiesHeld'
  BY DEF Reload, SessionsDated, OutEnded, CookiesHeld, Held, IInv
<1>2. request' \in [Request -> Requests]
  BY DEF Reload, Requests, IInv, TypeOK
<1>3. RequestsOK'
  <2> SUFFICES ASSUME NEW r \in Request
               PROVE  RequestOK(request[r])'
    BY DEF RequestsOK
  <2>1. request'[r] \in {Free, request[r]} /\ RequestOK(request[r])
    BY DEF Reload, IInv, RequestsOK
  <2> QED
    BY <2>1 DEF Reload, RequestOK, Held, Free
<1>4. me' \in [Page -> Fetches]
  BY AskedFetch, PagesAreOfBrowsers DEF Reload, IInv, TypeOK
<1>5. astray' \subseteq Page /\ menu' \in [Page -> User \cup {Nobody, Unloaded}]
  BY DEF Reload, IInv, TypeOK
<1> QED
  BY <1>1, <1>2, <1>3, <1>4, <1>5 DEF Reload, IInv, TypeOK

\* Nor does a step of nobody.
LEMMA StutterInv ==
  ASSUME IInv, UNCHANGED vars
  PROVE  IInv'
  BY DEF vars, IInv, TypeOK, SessionsDated, OutEnded, CookiesHeld, RequestsOK, RequestOK, Held

-----------------------------------------------------------------------------

\* The invariant holds in every reachable state.
THEOREM Invariant == Spec => []IInv
<1>1. ASSUME IInv, [Next]_vars
      PROVE  IInv'
  <2>1. ASSUME NEW r \in Request, Ask(r)
        PROVE  IInv'
    BY <1>1, <2>1, SendInv DEF Ask
  <2>2. ASSUME NEW r \in Request, Handle(r)
        PROVE  IInv'
    BY <1>1, <2>2, ArriveInv, RegisterInv, LoginInv, LogoutInv, RecordInv, StartSessionInv
       DEF Handle
  <2>3. ASSUME NEW r \in Request, Answer(r) \/ AnswerPlain(r) \/ CutOff(r)
        PROVE  IInv'
    BY <1>1, <2>3, AnswerInv, EndInv
  <2>4. ASSUME NEW p \in Page, Fetch(p) \/ Reload(p)
        PROVE  IInv'
    BY <1>1, <2>4, FetchInv, ReloadInv
  <2> QED
    BY <1>1, <2>1, <2>2, <2>3, <2>4, TickInv, StutterInv DEF Next
<1> QED
  BY <1>1, InitInv, PTL DEF Spec

\* Every variable keeps its type, and a session is always an account's.
THEOREM SessionsTyped == Spec => []TypeOK
<1>1. IInv => TypeOK
  BY DEF IInv
<1> QED
  BY <1>1, Invariant, PTL

\* Whoever the history names has given the password in the browser the write
\* came from (Register, Login, withSession).
THEOREM OnlyVerifiedNamed == Spec => []NamesOnlyVerified
<1>1. IInv => NamesOnlyVerified
  BY DEF IInv, RequestsOK, RequestOK, NamesOnlyVerified
<1> QED
  BY <1>1, Invariant, PTL

\* A write names somebody only if it arrived within a lifetime of the opening
\* of the session (CreateSession, UserForSession).
THEOREM NamedForALifetime == Spec => []NamesForALifetime
<1>1. IInv => NamesForALifetime
  BY DEF IInv, RequestsOK, RequestOK, NamesForALifetime
<1> QED
  BY <1>1, Invariant, PTL

\* A request that arrives after its token was signed out names nobody
\* (DeleteSession, UserForSession).
THEOREM OutStaysOut == Spec => []SignedOutStaysOut
<1>1. IInv => SignedOutStaysOut
  BY DEF IInv, RequestsOK, RequestOK, SignedOutStaysOut
<1> QED
  BY <1>1, Invariant, PTL
-----------------------------------------------------------------------------
(* The account menu.                                                       *)

\* Whom the menu may show while the browser holds t: whom t stands for, or the
\* user of a session that has ended.
Tells(shown, t) ==
  shown # Named(t) => shown \in User /\ t # NoToken /\ Named(t) = Nobody

\* The cookie of p's browser.
CookieOf(p) == cookie[BrowserOf[p]]

\* A user is named, or will be by the fetch under way, only where the password
\* was given.
ShowsVerified(p) ==
  /\ menu[p] \in User => <<BrowserOf[p], menu[p]>> \in verified
  /\ (me[p].at = "asked" /\ me[p].token # NoToken) => Held(BrowserOf[p], me[p].token)
  /\ (me[p].at = "read" /\ me[p].user \in User) => <<BrowserOf[p], me[p].user>> \in verified

\* Unless it has gone astray, a page at rest shows whom its cookie tells, and
\* a fetch under way speaks of that cookie.
OnCourse(p) ==
  /\ me[p] = NoFetch => Tells(menu[p], CookieOf(p))
  /\ me[p].at = "asked" => AskedOf(me[p].token, CookieOf(p))
  /\ me[p].at = "read" => Tells(me[p].user, CookieOf(p))

MenusTell == \A p \in Page : ShowsVerified(p) /\ (p \notin astray => OnCourse(p))

\* Every step keeps what no step takes back.
LEMMA Growing ==
  ASSUME IInv, [Next]_vars
  PROVE  Grows
<1>1. ASSUME NEW r \in Request, NEW t \in Token, StartSession(r, t)
      PROVE  Grows
  BY <1>1 DEF StartSession, Grows, IInv, TypeOK
<1>2. ASSUME NEW r \in Request, Logout(r)
      PROVE  Grows
  BY <1>2 DEF Logout, DeleteSession, Grows, IInv, TypeOK
<1>3. ASSUME UNCHANGED <<sessions, opened>>, accounts \subseteq accounts', verified \subseteq verified'
      PROVE  Grows
  BY <1>3 DEF Grows
<1>4. ASSUME NEW r \in Request, Ask(r) \/ Answer(r) \/ AnswerPlain(r) \/ CutOff(r)
      PROVE  Grows
  BY <1>3, <1>4 DEF Ask, Send, Answer, AnswerPlain, CutOff
<1>5. ASSUME NEW r \in Request, Arrive(r) \/ Register(r) \/ Login(r) \/ Record(r)
      PROVE  Grows
  BY <1>3, <1>5 DEF Arrive, Register, Login, Record
<1>6. ASSUME NEW p \in Page, Fetch(p) \/ Reload(p)
      PROVE  Grows
  BY <1>3, <1>6 DEF Fetch, ReadMe, ShowMe, FailMe, RetryMe, Reconnect, Reload
<1> QED
  BY <1>1, <1>2, <1>3, <1>4, <1>5, <1>6 DEF Next, Handle, Tick, vars

\* Whom a token stands for is never somebody else later.
LEMMA NamedLater ==
  ASSUME IInv, [Next]_vars, NEW t \in Token \cup {NoToken}, t # NoToken => opened[t] # Unused
  PROVE  Named(t)' \in {Named(t), Nobody} /\ (t = NoToken => Named(t)' = Nobody)
<1> USE NamesDiffer, BoundsAreNat
<1>1. CASE t = NoToken
  BY <1>1 DEF Named
<1>2. CASE t \in Token
  <2>1. sessions'[t] \in {sessions[t], Closed}
    <3>1. ASSUME NEW r \in Request, NEW s \in Token, StartSession(r, s)
          PROVE  sessions'[t] = sessions[t]
      BY <1>2, <3>1 DEF StartSession, IInv, TypeOK
    <3>2. ASSUME NEW r \in Request, Logout(r)
          PROVE  sessions'[t] \in {sessions[t], Closed}
      BY <1>2, <3>2 DEF Logout, DeleteSession, IInv, TypeOK
    <3>3. ASSUME NEW r \in Request, Ask(r) \/ Answer(r) \/ AnswerPlain(r) \/ CutOff(r)
          PROVE  sessions' = sessions
      BY <3>3 DEF Ask, Send, Answer, AnswerPlain, CutOff
    <3>4. ASSUME NEW r \in Request, Handle(r)
          PROVE  sessions'[t] \in {sessions[t], Closed}
      BY <3>1, <3>2, <3>4 DEF Handle, Arrive, Register, Login, Record
    <3>5. ASSUME NEW p \in Page, Fetch(p) \/ Reload(p)
          PROVE  sessions' = sessions
      BY <3>5 DEF Fetch, ReadMe, ShowMe, FailMe, RetryMe, Reconnect, Reload
    <3> QED
      BY <3>3, <3>4, <3>5 DEF Next, vars, Tick
  <2>2. clock \in Nat /\ clock' \in {clock, clock + 1}
    <3>1. clock \in Nat
      BY DEF IInv, TypeOK
    <3>2. ASSUME NEW r \in Request, Ask(r) \/ Answer(r) \/ AnswerPlain(r) \/ CutOff(r)
          PROVE  clock' = clock
      BY <3>2 DEF Ask, Send, Answer, AnswerPlain, CutOff
    <3>3. ASSUME NEW r \in Request, Handle(r)
          PROVE  clock' = clock
      BY <3>3 DEF Handle, Arrive, Register, Login, Logout, Record, StartSession
    <3>4. ASSUME NEW p \in Page, Fetch(p) \/ Reload(p)
          PROVE  clock' = clock
      BY <3>4 DEF Fetch, ReadMe, ShowMe, FailMe, RetryMe, Reconnect, Reload
    <3> QED
      BY <3>1, <3>2, <3>3, <3>4 DEF Next, vars, Tick
  <2>3. sessions[t] # Closed => sessions[t].expires \in Nat
    BY <1>2 DEF IInv, TypeOK
  <2> QED
    BY <1>2, <2>1, <2>2, <2>3 DEF Named
<1> QED
  BY <1>1, <1>2

\* What a menu may show of a token it may go on showing.
LEMMA TellsLater ==
  ASSUME IInv, [Next]_vars, NEW t \in Token \cup {NoToken}, t # NoToken => opened[t] # Unused,
         NEW u \in User \cup {Nobody}, Tells(u, t)
  PROVE  Tells(u, t)'
<1>1. Named(t)' \in {Named(t), Nobody} /\ (t = NoToken => Named(t)' = Nobody)
  BY NamedLater
<1>2. Named(t) \in User \cup {Nobody} /\ (t = NoToken => Named(t) = Nobody)
  BY DEF Named, IInv, TypeOK, Closed
<1> QED
  BY <1>1, <1>2 DEF Tells

\* A cookie of which a fetch was made goes on standing for it.
LEMMA AskedLater ==
  ASSUME IInv, [Next]_vars, NEW t \in Token \cup {NoToken}, t # NoToken => opened[t] # Unused,
         NEW u \in Token \cup {NoToken}, AskedOf(u, t)
  PROVE  AskedOf(u, t)'
<1>1. Named(t)' \in {Named(t), Nobody}
  BY NamedLater
<1> QED
  BY <1>1 DEF AskedOf

\* The token a browser has is one, and has been opened.
LEMMA CookieKnown ==
  ASSUME IInv, NEW p \in Page
  PROVE  /\ CookieOf(p) \in Token \cup {NoToken}
         /\ CookieOf(p) # NoToken => Held(BrowserOf[p], CookieOf(p))
         /\ BrowserOf[p] \in Browser
  BY PagesAreOfBrowsers DEF CookieOf, IInv, TypeOK, CookiesHeld

\* Nothing a step leaves alone grows untrue.
LEMMA OthersOnCourse ==
  ASSUME IInv, MenusTell, [Next]_vars, Grows, NEW p \in Page,
         menu'[p] = menu[p], me'[p] = me[p]
  PROVE  /\ ShowsVerified(p)'
         /\ (p \notin astray /\ CookieOf(p)' = CookieOf(p)) => OnCourse(p)'
<1> USE NamesDiffer
<1>1. PICK fetch \in Fetches, shown \in User \cup {Nobody, Unloaded} :
        fetch = me[p] /\ shown = menu[p] /\ fetch = me'[p] /\ shown = menu'[p]
  BY DEF IInv, TypeOK
<1>2. /\ fetch.at = "asked" => fetch.token \in Token \cup {NoToken}
      /\ fetch.at = "read" => fetch.user \in User \cup {Nobody}
  BY DEF Fetches, NoFetch, Failed
<1>3. /\ shown \in User => <<BrowserOf[p], shown>> \in verified
      /\ (fetch.at = "asked" /\ fetch.token # NoToken) => Held(BrowserOf[p], fetch.token)
      /\ (fetch.at = "read" /\ fetch.user \in User) => <<BrowserOf[p], fetch.user>> \in verified
  BY <1>1 DEF MenusTell, ShowsVerified
<1>4. (fetch.at = "asked" /\ fetch.token # NoToken) => Held(BrowserOf[p], fetch.token)'
  BY <1>2, <1>3, StaysHeld, CookieKnown
<1>5. ShowsVerified(p)'
  BY <1>1, <1>3, <1>4 DEF ShowsVerified, Grows, Held
<1>6. ASSUME p \notin astray, CookieOf(p)' = CookieOf(p)
      PROVE  OnCourse(p)'
  <2>1. PICK t \in Token \cup {NoToken} : t = CookieOf(p) /\ (t # NoToken => opened[t] # Unused)
    BY CookieKnown DEF Held
  <2>2. /\ fetch = NoFetch => Tells(shown, t)
        /\ fetch.at = "asked" => AskedOf(fetch.token, t)
        /\ fetch.at = "read" => Tells(fetch.user, t)
    BY <1>1, <1>6, <2>1 DEF MenusTell, OnCourse
  <2>3. \A u \in User \cup {Nobody} : Tells(u, t) => Tells(u, t)'
    BY <2>1, TellsLater
  <2>4. fetch = NoFetch => shown # Unloaded
    <3>1. Named(t) \in User \cup {Nobody}
      BY DEF Named, IInv, TypeOK, Closed
    <3> QED
      BY <2>2, <3>1 DEF Tells, Unloaded, Nobody
  <2>5. /\ fetch = NoFetch => Tells(shown, t)'
        /\ fetch.at = "read" => Tells(fetch.user, t)'
    BY <1>2, <2>2, <2>3, <2>4
  <2>6. fetch.at = "asked" => AskedOf(fetch.token, t)'
    BY <1>2, <2>1, <2>2, AskedLater
  <2> QED
    BY <1>1, <1>6, <2>1, <2>5, <2>6 DEF OnCourse, Tells, AskedOf
<1> QED
  BY <1>5, <1>6

\* A page that asks anew, with the cookie its browser then has, is on course.
LEMMA AskingOnCourse ==
  ASSUME IInv, MenusTell, [Next]_vars, Grows, NEW p \in Page, NEW again \in BOOLEAN,
         NEW token \in Token \cup {NoToken}, token # NoToken => Held(BrowserOf[p], token),
         CookieOf(p)' = token, AskMe(p, token, again), menu'[p] \in {menu[p], Unloaded}
  PROVE  ShowsVerified(p)' /\ OnCourse(p)'
<1> USE NamesDiffer
<1>1. PICK t \in Token \cup {NoToken} :
        me' = [me EXCEPT ![p] = Asked(t, again)] /\ AskedOf(t, token)
  BY AskedFetch
<1>2. me'[p].at = "asked" /\ me'[p].token = t /\ me'[p] # NoFetch
  BY <1>1 DEF Asked, NoFetch, IInv, TypeOK
<1>3. t # NoToken => Held(BrowserOf[p], t)'
  BY <1>1, StaysHeld, CookieKnown DEF AskedOf
<1>4. AskedOf(t, token)'
  BY <1>1, AskedLater DEF Held
<1>5. menu'[p] \in User => <<BrowserOf[p], menu'[p]>> \in verified'
  BY DEF MenusTell, ShowsVerified, Grows
<1> QED
  BY <1>2, <1>3, <1>4, <1>5 DEF ShowsVerified, OnCourse, AskedOf, Held

\* What the account is found to be is what its token stands for, or nobody
\* where the lookup failed.
LEMMA ReadingOnCourse ==
  ASSUME IInv, MenusTell, [Next]_vars, Grows, NEW p \in Page, ReadMe(p)
  PROVE  ShowsVerified(p)' /\ (p \notin astray' => OnCourse(p)')
<1> USE NamesDiffer
<1>1. PICK failed \in {0, 1}, u \in User \cup {Nobody} :
        /\ Resolves(me[p].token, u, failed)
        /\ me' = [me EXCEPT ![p] = [at |-> "read", user |-> u, retried |-> @.retried]]
        /\ astray' = IF failed = 1 THEN astray \cup {p} ELSE astray
  BY DEF ReadMe
<1>2. me'[p].at = "read" /\ me'[p].user = u /\ me'[p] # NoFetch /\ menu' = menu
  BY <1>1 DEF ReadMe, NoFetch, IInv, TypeOK
<1>3. PICK t \in Token \cup {NoToken} :
        /\ t = me[p].token /\ (t # NoToken => Held(BrowserOf[p], t)) /\ me[p].at = "asked"
  <2>1. me[p] \in Fetches /\ me[p].at = "asked"
    BY DEF ReadMe, IInv, TypeOK
  <2>2. me[p].token \in Token \cup {NoToken}
    BY <2>1 DEF Fetches, NoFetch, Failed
  <2>3. me[p].token # NoToken => Held(BrowserOf[p], me[p].token)
    BY <2>1 DEF MenusTell, ShowsVerified
  <2> QED
    BY <2>1, <2>2, <2>3
<1>4. u \in User => <<BrowserOf[p], u>> \in verified
  BY <1>1, <1>3, NamedHeld, CookieKnown DEF Resolves
<1>5. ShowsVerified(p)'
  BY <1>2, <1>4 DEF MenusTell, ShowsVerified, Grows
<1>6. ASSUME p \notin astray'
      PROVE  OnCourse(p)'
  <2>1. p \notin astray /\ u = Named(t)
    BY <1>1, <1>3, <1>6 DEF Resolves
  <2>2. PICK c \in Token \cup {NoToken} : c = CookieOf(p) /\ (c # NoToken => opened[c] # Unused)
    BY CookieKnown DEF Held
  <2>3. AskedOf(t, c)
    BY <1>3, <2>1, <2>2 DEF MenusTell, OnCourse
  <2>4. u = Named(c)
    BY <2>1, <2>3 DEF AskedOf, Named
  <2>5. Tells(u, c)'
    BY <2>2, <2>4, TellsLater DEF Tells
  <2>6. CookieOf(p)' = c
    BY <2>2 DEF ReadMe, CookieOf
  <2> QED
    BY <1>2, <2>5, <2>6 DEF OnCourse, Tells
<1> QED
  BY <1>5, <1>6

\* What is read is shown.
LEMMA ShowingOnCourse ==
  ASSUME IInv, MenusTell, [Next]_vars, Grows, NEW p \in Page, ShowMe(p)
  PROVE  ShowsVerified(p)' /\ (p \notin astray' => OnCourse(p)')
<1> USE NamesDiffer
<1>1. PICK u \in User \cup {Nobody} : u = me[p].user /\ me[p].at = "read"
  BY DEF ShowMe, Fetches, NoFetch, Failed, IInv, TypeOK
<1>2. menu'[p] = u /\ me'[p] = NoFetch /\ cookie' = cookie /\ astray' = astray
  BY <1>1 DEF ShowMe, IInv, TypeOK
<1>3. ShowsVerified(p)'
  <2>1. u \in User => <<BrowserOf[p], u>> \in verified'
    BY <1>1 DEF MenusTell, ShowsVerified, Grows
  <2> QED
    BY <1>2, <2>1 DEF ShowsVerified, NoFetch
<1>4. PICK c \in Token \cup {NoToken} : c = CookieOf(p) /\ (c # NoToken => opened[c] # Unused)
  BY CookieKnown DEF Held
<1>5. p \notin astray => Tells(u, c)'
  BY <1>1, <1>4, TellsLater DEF MenusTell, OnCourse
<1> QED
  BY <1>2, <1>3, <1>4, <1>5 DEF OnCourse, Tells, NoFetch, CookieOf

\* An answer with a cookie has its page ask anew, and leaves the other pages
\* of the browser behind.
LEMMA AnswersOnCourse ==
  ASSUME IInv, MenusTell, [Next]_vars, Grows, NEW r \in Request, Answer(r), NEW q \in Page
  PROVE  ShowsVerified(q)' /\ (q \notin astray' => OnCourse(q)')
<1> USE NamesDiffer
<1>1. /\ request[r] \in Requests /\ RequestOK(request[r])
      /\ request[r].at \in {"set", "clear"}
  BY DEF Answer, IInv, TypeOK, RequestsOK
<1>2. PICK p \in Page, t \in Token \cup {NoToken} :
        /\ request[r].page = p
        /\ t = IF request[r].at = "set" THEN request[r].token ELSE NoToken
        /\ t # NoToken => Held(BrowserOf[p], t)
  BY <1>1 DEF Requests, Free, RequestOK
<1>3. /\ cookie' = [cookie EXCEPT ![BrowserOf[p]] = t]
      /\ Refetched(p, t) /\ menu' = menu
  BY <1>2 DEF Answer
<1>4. CASE q # p
  <2>1. me'[q] = me[q] /\ q \in Page /\ menu'[q] = menu[q]
    <3>1. CASE UNCHANGED me
      BY <1>3, <3>1
    <3>2. CASE AskMe(p, t, FALSE)
      BY <1>3, <1>4, <3>2 DEF AskMe, IInv, TypeOK
    <3> QED
      BY <1>3, <3>1, <3>2 DEF Refetched
  <2>2. ASSUME q \notin astray'
        PROVE  q \notin astray /\ BrowserOf[q] # BrowserOf[p]
    BY <1>3, <1>4, <2>2 DEF Refetched, Siblings
  <2>3. BrowserOf[q] # BrowserOf[p] => CookieOf(q)' = CookieOf(q)
    BY <1>3, CookieKnown DEF CookieOf, IInv, TypeOK
  <2> QED
    BY <2>1, <2>2, <2>3, OthersOnCourse
<1>5. CASE q = p
  <2>1. CASE Joins(p) /\ UNCHANGED me /\ p \in astray'
    BY <1>3, <1>5, <2>1, OthersOnCourse
  <2>2. CASE AskMe(p, t, FALSE)
    <3>1. CookieOf(p)' = t
      BY <1>3, CookieKnown DEF CookieOf, IInv, TypeOK
    <3> QED
      BY <1>2, <1>3, <1>5, <2>2, <3>1, AskingOnCourse
  <2> QED
    BY <1>3, <2>1, <2>2 DEF Refetched
<1> QED
  BY <1>4, <1>5

\* The steps of a page leave the others as they are.
LEMMA PageOnCourse ==
  ASSUME IInv, MenusTell, [Next]_vars, Grows, NEW p \in Page, Fetch(p) \/ Reload(p),
         NEW q \in Page
  PROVE  ShowsVerified(q)' /\ (q \notin astray' => OnCourse(q)')
<1>1. CASE q # p
  <2>1. menu'[q] = menu[q] /\ me'[q] = me[q] /\ cookie' = cookie
    BY <1>1 DEF Fetch, ReadMe, ShowMe, FailMe, RetryMe, Reconnect, Reload, AskMe, IInv, TypeOK
  <2>2. q \notin astray' => q \notin astray
    BY <1>1 DEF Fetch, ReadMe, ShowMe, FailMe, RetryMe, Reconnect, Reload
  <2> QED
    BY <2>1, <2>2, OthersOnCourse DEF CookieOf
<1>2. ASSUME NEW again \in BOOLEAN, AskMe(p, CookieOf(p), again), cookie' = cookie,
             menu'[p] \in {menu[p], Unloaded}
      PROVE  ShowsVerified(p)' /\ OnCourse(p)'
  BY <1>2, CookieKnown, AskingOnCourse DEF CookieOf
<1>3. RetryMe(p) \/ Reconnect(p) \/ Reload(p) => ShowsVerified(p)' /\ OnCourse(p)'
  BY <1>2 DEF RetryMe, Reconnect, Reload, CookieOf, IInv, TypeOK
<1>4. CASE q = p /\ FailMe(p)
  <2>1. me'[p] \in {NoFetch, Failed} /\ menu' = menu /\ (me'[p] = NoFetch => p \in astray')
    BY <1>4 DEF FailMe, NoFetch, Failed, IInv, TypeOK
  <2>2. me'[p].at # "asked" /\ me'[p].at # "read"
    BY <2>1 DEF NoFetch, Failed
  <2>3. ShowsVerified(p)'
    BY <2>1, <2>2 DEF MenusTell, ShowsVerified, Grows
  <2>4. p \notin astray' => OnCourse(p)'
    BY <2>1, <2>2 DEF OnCourse
  <2> QED
    BY <1>4, <2>3, <2>4
<1> QED
  BY <1>1, <1>3, <1>4, ReadingOnCourse, ShowingOnCourse DEF Fetch

\* No step makes a menu tell a story of its own.
LEMMA MenusTellNext ==
  ASSUME IInv, MenusTell, [Next]_vars, Grows
  PROVE  MenusTell'
<1>1. \/ UNCHANGED <<cookie, menu, me, astray>>
      \/ \E r \in Request : Answer(r)
      \/ \E p \in Page : Fetch(p) \/ Reload(p)
  <2>1. ASSUME NEW r \in Request, Ask(r) \/ AnswerPlain(r) \/ CutOff(r)
        PROVE  UNCHANGED <<cookie, menu, me, astray>>
    BY <2>1 DEF Ask, Send, AnswerPlain, CutOff
  <2>2. ASSUME NEW r \in Request, Handle(r)
        PROVE  UNCHANGED <<cookie, menu, me, astray>>
    BY <2>2 DEF Handle, Arrive, Register, Login, Logout, Record, StartSession
  <2> QED
    BY <2>1, <2>2 DEF Next, vars, Tick
<1>2. CASE UNCHANGED <<cookie, menu, me, astray>>
  BY <1>2, OthersOnCourse DEF MenusTell, CookieOf
<1> QED
  BY <1>1, <1>2, AnswersOnCourse, PageOnCourse DEF MenusTell

\* Every menu is loading when the pages are opened.
LEMMA InitMenus == Init => MenusTell
  BY PagesAreOfBrowsers, NamesDiffer
     DEF Init, MenusTell, ShowsVerified, OnCourse, Asked, AskedOf, NoFetch, CookieOf

\* A menu names only who gave the password in its browser; whenever nothing is
\* fetched for it, it shows whom the history will name, but for a session that
\* ended behind it and for a page the code left astray: by a sign-in or sign-out
\* answered during its first load or in another page, by a fetch given up, or
\* by a lookup that failed (useAuth, AccountMenu, currentUser, withSession).
THEOREM MenusAreTold == Spec => []MenuTells
<1>1. Spec => []MenusTell
  BY InitMenus, MenusTellNext, Growing, Invariant, PTL DEF Spec
<1>2. MenusTell => MenuTells
  BY DEF MenusTell, ShowsVerified, OnCourse, CookieOf, MenuTells, Tells
<1> QED
  BY <1>1, <1>2, PTL
=============================================================================
