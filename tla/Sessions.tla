------------------------------ MODULE Sessions ------------------------------
(***************************************************************************)
(* Accounts and sessions (store/users.go, api/auth.go), the actor they     *)
(* give a request and so the history (store/events.go), and the account    *)
(* menu of the browser (api/auth.ts, AccountMenu.tsx).                     *)
(*                                                                         *)
(* An account is its address: the index on lower(email) allows one each.   *)
(* A browser has one cookie for all its pages.  A page sends a request     *)
(* with the cookie there is, which is resolved on arrival; the request is  *)
(* handled in one or two statements and answered.  Requests overlap, and   *)
(* answers arrive in any order or not at all.                              *)
(***************************************************************************)
EXTENDS Integers, FiniteSets

CONSTANTS
  User,       \* addresses
  Browser,
  Page,       \* the tabs the application is open in
  BrowserOf,  \* by page: its browser
  Request,    \* bound: requests under way at once
  Token,      \* bound: sessions opened, each under a token of its own
  Lifetime,   \* how long a session lasts, seven days in the code
  MaxEvents   \* bound: ticks of the clock, and faults: requests cut off, lookups and
              \* fetches that fail, reloads, reconnections

ASSUME PagesAreOfBrowsers == BrowserOf \in [Page -> Browser]
ASSUME BoundsAreNat == Lifetime \in Nat \ {0} /\ MaxEvents \in Nat

VARIABLES
  accounts,  \* the addresses registered
  sessions,  \* by token: [user, expires], or Closed
  clock,
  cookie,    \* by browser: its token, or NoToken
  request,   \* the requests under way
  menu,      \* by page: who its menu shows, once it has loaded
  me,        \* by page: its fetch of the current user
  opened,    \* history: when each token's session was opened
  verified,  \* history: <<b, u>> when u's password was given in browser b
  out,       \* history: the tokens signed out, a sign-out handled to its end
  astray,    \* history: pages the code leaves with a menu it does not set right
  faults     \* faults so far

vars == <<accounts, sessions, clock, cookie, request, menu, me, opened,
          verified, out, astray, faults>>

NoToken == "no token"
Nobody == "nobody"
Unloaded == "unloaded"
Closed == [user |-> Nobody]
Unused == -1

ASSUME NamesDiffer ==
  NoToken \notin Token /\ Nobody \notin User /\ Unloaded \notin User

Free == [at |-> "free"]
NoFetch == [at |-> "idle"]
Failed == [at |-> "failed"]
Asked(token, retried) == [at |-> "asked", token |-> token, retried |-> retried]

\* Mutant: nobody looks at expires_at.
NamedForever(token) == IF token = NoToken THEN Nobody ELSE sessions[token].user

\* Whom a token stands for now.
Named(token) ==
  IF token = NoToken THEN Nobody
  ELSE IF sessions[token] = Closed \/ sessions[token].expires <= clock THEN Nobody
  ELSE sessions[token].user

\* What a browser sends of a cookie: once it has run out it may have dropped
\* it, by a clock of its own that is not ahead of the server's.
Carried(token) ==
  IF token # NoToken /\ opened[token] + Lifetime <= clock THEN {token, NoToken} ELSE {token}

\* withSession: whom a request is taken to come from.  A lookup that fails is
\* taken for nobody's; without a cookie there is none.
Resolves(token, user, failed) ==
  \/ failed = 0 /\ user = Named(token)
  \/ failed = 1 /\ user = Nobody /\ token # NoToken

\* Some may have registered before, from browsers not followed here.
Init ==
  /\ accounts \in SUBSET User
  /\ sessions = [t \in Token |-> Closed]
  /\ clock = 0
  /\ cookie = [b \in Browser |-> NoToken]
  /\ request = [r \in Request |-> Free]
  /\ menu = [p \in Page |-> Unloaded]
  /\ me = [p \in Page |-> Asked(NoToken, FALSE)]
  /\ opened = [t \in Token |-> Unused]
  /\ verified = {} /\ out = {} /\ astray = {} /\ faults = 0

-----------------------------------------------------------------------------
(* The server.                                                             *)

Go(r, record) == request' = [request EXCEPT ![r] = record]

\* The user is known and gets a session next.
Known(r) ==
  Go(r, [at |-> "known", page |-> request[r].page, user |-> request[r].user])

\* Handled: only the answer is left.
Done(r, at) == Go(r, [at |-> at, page |-> request[r].page])

\* withSession, before any handler, and never a refusal.
Arrive(r) ==
  /\ request[r].at = "sent"
  /\ \E failed \in {0, 1}, user \in User \cup {Nobody} :
       /\ Resolves(request[r].token, user, failed)
       /\ clock + faults + failed <= MaxEvents
       /\ faults' = faults + failed
       /\ Go(r, [request[r] EXCEPT
                  !.at = "handled", !.arrived = clock, !.late = request[r].token \in out,
                  !.actor = user])
  /\ UNCHANGED <<accounts, sessions, clock, cookie, menu, me, opened, verified, out, astray>>

Handles(r, kind) == request[r].at = "handled" /\ request[r].kind = kind

\* The unique index decides between two registrations of one address.
Register(r) ==
  /\ Handles(r, "register")
  /\ LET u == request[r].user
     IN IF u \in accounts
        THEN Done(r, "refused") /\ UNCHANGED <<accounts, verified>>
        ELSE /\ Known(r)
             /\ accounts' = accounts \cup {u}
             /\ verified' = verified \cup {<<BrowserOf[request[r].page], u>>}
  /\ UNCHANGED <<sessions, clock, cookie, menu, me, opened, out, astray, faults>>

\* Mutants: a missing account is not told from a matching one; the hash of the
\* password is read and not compared.
AnyAccount(u, right) == right
AddressAlone(u, right) == u \in accounts

Authenticates(u, right) == u \in accounts /\ right

\* The password sent is the account's, or it is not.
Login(r) ==
  /\ Handles(r, "login")
  /\ LET u == request[r].user
     IN \E right \in BOOLEAN :
          /\ IF Authenticates(u, right) THEN Known(r) ELSE Done(r, "refused")
          /\ verified' = IF u \in accounts /\ right
                         THEN verified \cup {<<BrowserOf[request[r].page], u>>} ELSE verified
  /\ UNCHANGED <<accounts, sessions, clock, cookie, menu, me, opened, out, astray, faults>>

\* Register and login end alike: a session under a new token, which is the
\* cookie of the answer.  Earlier sessions of the account go on.
StartSession(r, t) ==
  /\ request[r].at = "known"
  /\ opened[t] = Unused
  /\ sessions' = [sessions EXCEPT ![t] =
                    [user |-> request[r].user, expires |-> clock + Lifetime]]
  /\ opened' = [opened EXCEPT ![t] = clock]
  /\ Go(r, [at |-> "set", page |-> request[r].page, token |-> t])
  /\ UNCHANGED <<accounts, clock, cookie, menu, me, verified, out, astray, faults>>

\* Mutant: signing out only clears the cookie.
KeepSession(t) == sessions

DeleteSession(t) == [sessions EXCEPT ![t] = Closed]

\* Without a cookie there is nothing to delete, and the answer is the same.
Logout(r) ==
  /\ Handles(r, "logout")
  /\ LET t == request[r].token
     IN IF t = NoToken THEN UNCHANGED <<sessions, out>>
        ELSE sessions' = DeleteSession(t) /\ out' = out \cup {t}
  /\ Done(r, "clear")
  /\ UNCHANGED <<accounts, clock, cookie, menu, me, opened, verified, astray, faults>>

\* A write of a task: its event names the actor of the request.
Record(r) ==
  /\ Handles(r, "edit")
  /\ Done(r, "recorded")
  /\ UNCHANGED <<accounts, sessions, clock, cookie, menu, me, opened, verified, out, astray, faults>>

Tick ==
  /\ clock + faults < MaxEvents
  /\ clock' = clock + 1
  /\ UNCHANGED <<accounts, sessions, cookie, request, menu, me, opened, verified, out, astray, faults>>

-----------------------------------------------------------------------------
(* The browser.                                                            *)

\* A signed-in menu offers signing out, any other the two forms.
Offers(p, kind) ==
  CASE kind = "edit"   -> TRUE
    [] kind = "logout" -> menu[p] \in User
    [] OTHER           -> menu[p] \notin User

\* Bound: a sign-in is sent while a token is left for it.
TokenLeft ==
  LET signingIn == {r \in Request :
        \/ request[r].at = "known"
        \/ request[r].at \in {"sent", "handled"} /\ request[r].kind \in {"register", "login"}}
  IN Cardinality(signingIn) < Cardinality({t \in Token : opened[t] = Unused})

Send(r, p, kind, u) ==
  /\ request[r] = Free
  /\ kind \in {"register", "login"} => TokenLeft
  /\ Offers(p, kind)
  /\ \E token \in Carried(cookie[BrowserOf[p]]) :
       Go(r, [at |-> "sent", page |-> p, kind |-> kind, user |-> u, token |-> token,
              actor |-> Nobody, arrived |-> 0, late |-> FALSE])
  /\ UNCHANGED <<accounts, sessions, clock, cookie, menu, me, opened, verified, out, astray, faults>>

\* The account is fetched, or fetched again, with the cookie there is now.
AskMe(p, token, retried) ==
  \E t \in Carried(token) : me' = [me EXCEPT ![p] = Asked(t, retried)]

\* The other pages of the browser, which hear nothing of a new cookie.
Siblings(p) == {q \in Page \ {p} : BrowserOf[q] = BrowserOf[p]}

\* A first load has nothing to show yet, and is not given up for another.
Joins(p) == menu[p] = Unloaded /\ me[p] # NoFetch

\* Mutant: the fetch under way is never given up.
RefetchedUnlessFetching(p, token) ==
  /\ IF me[p] # NoFetch THEN UNCHANGED me ELSE AskMe(p, token, FALSE)
  /\ astray' = IF Joins(p) THEN astray \cup {p} \cup Siblings(p)
               ELSE (astray \ {p}) \cup Siblings(p)

\* The fetch of the current user under way is given up for a new one, except
\* for a first load.
Refetched(p, token) ==
  \/ /\ Joins(p)
     /\ UNCHANGED me
     /\ astray' = astray \cup {p} \cup Siblings(p)
  \/ /\ ~Joins(p)
     /\ AskMe(p, token, FALSE)
     /\ astray' = (astray \ {p}) \cup Siblings(p)

\* Mutant: only the tasks are fetched again.
AnswerTodosOnly(r) ==
  /\ request[r].at \in {"set", "clear"}
  /\ cookie' = [cookie EXCEPT ![BrowserOf[request[r].page]] =
                  IF request[r].at = "set" THEN request[r].token ELSE NoToken]
  /\ Go(r, Free)
  /\ UNCHANGED <<accounts, sessions, clock, menu, me, opened, verified, out, astray, faults>>

\* The answer arrives: its cookie is kept, and the account is fetched again.
Answer(r) ==
  /\ request[r].at \in {"set", "clear"}
  /\ LET p == request[r].page
         token == IF request[r].at = "set" THEN request[r].token ELSE NoToken
     IN cookie' = [cookie EXCEPT ![BrowserOf[p]] = token] /\ Refetched(p, token)
  /\ Go(r, Free)
  /\ UNCHANGED <<accounts, sessions, clock, menu, opened, verified, out, faults>>

\* An answer that moves neither the cookie nor the menu.
AnswerPlain(r) ==
  /\ request[r].at \in {"refused", "recorded"}
  /\ Go(r, Free)
  /\ UNCHANGED <<accounts, sessions, clock, cookie, menu, me, opened, verified, out, astray, faults>>

\* The connection is cut, or a statement fails: what is done stays done.
CutOff(r) ==
  /\ request[r] # Free /\ clock + faults < MaxEvents
  /\ Go(r, Free)
  /\ faults' = faults + 1
  /\ UNCHANGED <<accounts, sessions, clock, cookie, menu, me, opened, verified, out, astray>>

\* currentUser, whose answer is withSession's: null for nobody.
ReadMe(p) ==
  /\ me[p].at = "asked"
  /\ \E failed \in {0, 1}, user \in User \cup {Nobody} :
       /\ Resolves(me[p].token, user, failed)
       /\ clock + faults + failed <= MaxEvents
       /\ faults' = faults + failed
       /\ me' = [me EXCEPT ![p] = [at |-> "read", user |-> user, retried |-> @.retried]]
       /\ astray' = IF failed = 1 THEN astray \cup {p} ELSE astray
  /\ UNCHANGED <<accounts, sessions, clock, cookie, request, menu, opened, verified, out>>

ShowMe(p) ==
  /\ me[p].at = "read"
  /\ menu' = [menu EXCEPT ![p] = me[p].user]
  /\ me' = [me EXCEPT ![p] = NoFetch]
  /\ UNCHANGED <<accounts, sessions, clock, cookie, request, opened, verified, out, astray, faults>>

\* A fetch that fails is tried once more; when that fails too, of the same
\* fault, the menu stays as it is.
FailMe(p) ==
  /\ me[p].at \in {"asked", "read"}
  /\ \/ /\ ~me[p].retried /\ clock + faults < MaxEvents
        /\ faults' = faults + 1
        /\ me' = [me EXCEPT ![p] = Failed]
        /\ UNCHANGED astray
     \/ /\ me[p].retried
        /\ me' = [me EXCEPT ![p] = NoFetch]
        /\ astray' = astray \cup {p}
        /\ UNCHANGED faults
  /\ UNCHANGED <<accounts, sessions, clock, cookie, request, menu, opened, verified, out>>

RetryMe(p) ==
  /\ me[p] = Failed
  /\ AskMe(p, cookie[BrowserOf[p]], TRUE)
  /\ astray' = astray \ {p}
  /\ UNCHANGED <<accounts, sessions, clock, cookie, request, menu, opened, verified, out, faults>>

\* The network is back: a page that fetches nothing fetches the account.
Reconnect(p) ==
  /\ me[p] = NoFetch /\ clock + faults < MaxEvents
  /\ AskMe(p, cookie[BrowserOf[p]], FALSE)
  /\ astray' = astray \ {p}
  /\ faults' = faults + 1
  /\ UNCHANGED <<accounts, sessions, clock, cookie, request, menu, opened, verified, out>>

\* The page is loaded again: the fetches of the old one go, the cookie stays.
Reload(p) ==
  /\ clock + faults < MaxEvents
  /\ menu' = [menu EXCEPT ![p] = Unloaded]
  /\ AskMe(p, cookie[BrowserOf[p]], FALSE)
  /\ request' = [r \in Request |->
       IF request[r] # Free /\ request[r].page = p THEN Free ELSE request[r]]
  /\ astray' = astray \ {p}
  /\ faults' = faults + 1
  /\ UNCHANGED <<accounts, sessions, clock, cookie, opened, verified, out>>

Ask(r) ==
  \E p \in Page :
    \/ \E u \in User, kind \in {"register", "login"} : Send(r, p, kind, u)
    \/ \E kind \in {"logout", "edit"} : Send(r, p, kind, Nobody)

Handle(r) ==
  \/ Arrive(r) \/ Register(r) \/ Login(r) \/ Logout(r) \/ Record(r)
  \/ \E t \in Token : StartSession(r, t)

Fetch(p) == ReadMe(p) \/ ShowMe(p) \/ FailMe(p) \/ RetryMe(p) \/ Reconnect(p)

Next ==
  \/ \E r \in Request : Ask(r) \/ Handle(r) \/ Answer(r) \/ AnswerPlain(r) \/ CutOff(r)
  \/ \E p \in Page : Fetch(p) \/ Reload(p)
  \/ Tick

Spec == Init /\ [][Next]_vars

-----------------------------------------------------------------------------
(* Properties.                                                             *)

Requests ==
  {Free}
  \cup [at : {"sent", "handled"}, page : Page,
        kind : {"register", "login", "logout", "edit"}, user : User \cup {Nobody},
        token : Token \cup {NoToken}, actor : User \cup {Nobody}, arrived : Nat,
        late : BOOLEAN]
  \cup [at : {"known"}, page : Page, user : User]
  \cup [at : {"set"}, page : Page, token : Token]
  \cup [at : {"refused", "recorded", "clear"}, page : Page]

Fetches ==
  {NoFetch, Failed}
  \cup [at : {"asked"}, token : Token \cup {NoToken}, retried : BOOLEAN]
  \cup [at : {"read"}, user : User \cup {Nobody}, retried : BOOLEAN]

\* Types, and the foreign key: a session is an account's.
TypeOK ==
  /\ accounts \subseteq User
  /\ sessions \in [Token -> {Closed} \cup [user : accounts, expires : Nat]]
  /\ clock \in Nat /\ faults \in Nat /\ clock + faults <= MaxEvents
  /\ cookie \in [Browser -> Token \cup {NoToken}]
  /\ request \in [Request -> Requests]
  /\ menu \in [Page -> User \cup {Nobody, Unloaded}]
  /\ me \in [Page -> Fetches]
  /\ opened \in [Token -> Nat \cup {Unused}]
  /\ verified \subseteq Browser \X User /\ out \subseteq Token /\ astray \subseteq Page

\* Whoever the history names has given the password in the browser the write
\* came from: however registrations, logins and sign-outs overlap, a token
\* never ends up standing for another account or in another browser.
NamesOnlyVerified ==
  \A r \in Request :
    (request[r].at = "handled" /\ request[r].actor # Nobody) =>
      <<BrowserOf[request[r].page], request[r].actor>> \in verified

\* A login names its user for its lifetime and no longer: a write that names
\* somebody arrived less than Lifetime after the session was opened.
\* The request itself may go on longer.
NamesForALifetime ==
  \A r \in Request :
    (request[r].at = "handled" /\ request[r].actor # Nobody) =>
      request[r].arrived - opened[request[r].token] \in 0..(Lifetime - 1)

\* Signed out is signed out, also when the answer is lost and the browser
\* keeps its cookie: no request that arrives later with that token names
\* anybody.
SignedOutStaysOut ==
  \A r \in Request :
    (request[r].at = "handled" /\ request[r].late) =>
      request[r].actor = Nobody

\* A menu names only who has given the password in its browser.  Whenever
\* nothing is fetched for it, it shows whom the history will name, unless the
\* session it stands for has ended behind it, or the code has left the page
\* astray: a sign-in or sign-out was answered while it first loaded, or in
\* another page of the browser, its fetch was given up, or the lookup of its
\* session failed; until it fetches again.  Signing out is not behind its
\* back: without a cookie the menu shows nobody.
MenuTells ==
  \A p \in Page :
    LET token == cookie[BrowserOf[p]]
    IN /\ menu[p] \in User => <<BrowserOf[p], menu[p]>> \in verified
       /\ (me[p] = NoFetch /\ p \notin astray /\ menu[p] # Named(token)) =>
            menu[p] \in User /\ token # NoToken /\ Named(token) = Nobody
=============================================================================
