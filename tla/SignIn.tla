-------------------------------- MODULE SignIn --------------------------------
(***************************************************************************)
(* Sign-in, sessions and the life of an API request: SessionStore and      *)
(* FlowStore (auth/session.py), the auth routes (web/auth_routes.py), the  *)
(* api and whoami routes (web/app.py), and the idle timer of the page      *)
(* (web/static/app.js).                                                    *)
(*                                                                         *)
(* login, callback, logout and whoami never await, so on the one event     *)
(* loop each is a single step.  api awaits twice: the request body, and    *)
(* the handler, which runs in the threadpool.  Everything else may happen  *)
(* at those two points.                                                    *)
(*                                                                         *)
(* Data abstracted: a session id and a flow key are numbers never used     *)
(* twice; a token cache, the claims of a principal and the wording of a    *)
(* response are left out.  Time is a bounded count of ticks.  The cookies  *)
(* of a browser are shared by its pages.  The rate limiters only turn      *)
(* requests away; here that is the request not being made.                 *)
(***************************************************************************)
EXTENDS Integers, Sequences, FiniteSets, Functions

CONSTANTS
    Principals,     \* operators
    Browsers,       \* cookie jars
    Pages,          \* open copies of the page
    BrowserOf,      \* page -> browser
    MaxSessions,    \* MAX_SESSIONS
    PerPrincipal,   \* MAX_SESSIONS_PER_PRINCIPAL
    MaxPending,     \* MAX_PENDING_FLOWS
    IdleTTL,        \* IDLE_TTL_SECONDS, in ticks
    AbsoluteTTL,    \* ABSOLUTE_TTL_SECONDS
    FlowTTL,        \* FLOW_TTL_SECONDS
    MaxFlows,       \* bound: flows started
    MaxFailures,    \* bound: records that AuditTrail.write raised for
    MaxTime         \* bound: ticks

ASSUME SignInAssumption ==
    /\ BrowserOf \in [Pages -> Browsers]
    /\ MaxSessions \in Nat \ {0}
    /\ PerPrincipal \in Nat \ {0}
    /\ MaxPending \in Nat \ {0}
    /\ IdleTTL \in Nat /\ AbsoluteTTL \in Nat /\ FlowTTL \in Nat
    /\ MaxFlows \in Nat /\ MaxFailures \in Nat
    /\ MaxTime \in Nat \ {0}

VARIABLES
    now,            \* time.monotonic()
    sessions,       \* SessionStore._sessions: id -> session
    flows,          \* FlowStore._flows: key -> when it was stored
    begun,          \* flow keys given out so far: the latest one
    admitted,       \* sessions created so far, in order: whose, from which flow
    cookie,         \* browser -> session cookie, 0 when there is none
    flowCookie,     \* browser -> flow cookie, 0 when there is none
    away,           \* redirects of the identity platform a browser may follow
    trail,          \* the records these routes have written, as a set
    failures,       \* bound used up: records that raised
    signedOut,      \* history: sessions whose sign-out was answered
    page,           \* page -> signed in or not, and its idle deadline (0: none)
    req             \* page -> its API request: where it stands, its cookie

vars == <<now, sessions, flows, begun, admitted, cookie, flowCookie, away,
          trail, failures, signedOut, page, req>>

browser == <<cookie, flowCookie, away>>
record == <<trail, failures>>
history == <<admitted, signedOut>>

NoRequest == [at |-> "none", sid |-> 0]

-------------------------------------------------------------------------------
(* SessionStore and FlowStore.                                             *)

Expired(s) == now - s.created > AbsoluteTTL \/ now - s.seen > IdleTTL

Unexpired == {k \in DOMAIN sessions : ~Expired(sessions[k])}

\* What SessionStore.get answers: the session of this id is there and alive.
Found(sid) == sid \in Unexpired

\* What SessionStore.get leaves: an expired session is deleted, a live one has
\* been seen now.
Touched(sid) ==
    IF Found(sid) THEN [sessions EXCEPT ![sid].seen = now]
    ELSE Restrict(sessions, DOMAIN sessions \ {sid})

Mine(who) == {k \in Unexpired : sessions[k].who = who}

\* j outlives k when one of the two has to go: it was seen later, or stands
\* later in the store.
Outlives(j, k) ==
    \/ sessions[j].seen > sessions[k].seen
    \/ sessions[j].seen = sessions[k].seen /\ j > k

\* A slip: the oldest session of the whole store goes, as in the first version.
EvictsAnyone(who) ==
    {k \in Unexpired : Cardinality({j \in Unexpired : Outlives(j, k)}) >= MaxSessions - 1}

\* The operator's own least recently seen sessions, down to one below the cap.
Evicts(who) ==
    {k \in Mine(who) : Cardinality({j \in Mine(who) : Outlives(j, k)}) >= PerPrincipal - 1}

\* What create() keeps of the store before it admits or refuses.
Kept(who) == Unexpired \ Evicts(who)

\* A slip: the flow stays in the store when it is taken.
TakenStays(key) == flows

Pending == {k \in DOMAIN flows : now - flows[k] <= FlowTTL}

\* FlowStore.take: expired flows are dropped, and this one is removed.
Taken(key) == Restrict(flows, Pending \ {key})

-------------------------------------------------------------------------------
(* The auth routes.                                                        *)

Entry(act, out, sid, who) == [act |-> act, out |-> out, sid |-> sid, who |-> who]

\* AuditTrail.write returns, or it raises with the record stored or not.
Recorded(e) ==
    /\ trail' = trail \cup {e}
    /\ UNCHANGED failures

RecordFails(e) ==
    /\ failures < MaxFailures
    /\ failures' = failures + 1
    /\ trail' \in {trail, trail \cup {e}}

\* /auth/login starts a flow and sends the browser away with its key.
Login(b) ==
    /\ begun < MaxFlows
    /\ Cardinality(Pending) < MaxPending
    /\ begun' = begun + 1
    /\ flows' = [k \in Pending \cup {begun + 1} |->
                    IF k = begun + 1 THEN now ELSE flows[k]]
    /\ flowCookie' = [flowCookie EXCEPT ![b] = begun + 1]
    /\ away' = away \cup {[browser |-> b, flow |-> begun + 1]}
    /\ UNCHANGED <<now, sessions, history, cookie, record, page, req>>

\* The store of pending flows is full: 429, and nothing but expiry.
LoginRefused(b) ==
    /\ begun < MaxFlows
    /\ Cardinality(Pending) >= MaxPending
    /\ flows' = Restrict(flows, Pending)
    /\ UNCHANGED <<now, sessions, begun, history, browser, record, page, req>>

\* The identity platform sends b back, and the flow of its cookie is taken.
Returns(b) ==
    /\ \E a \in away : a.browser = b
    /\ flows' = IF flowCookie[b] = 0 THEN flows ELSE Taken(flowCookie[b])
    /\ UNCHANGED <<now, begun, away, signedOut, page, req>>

\* No such flow, an error or a state that is not the flow's: no session.
CallbackFails(b) ==
    /\ Returns(b)
    /\ UNCHANGED <<sessions, admitted, cookie, flowCookie, record>>

\* The flow is still pending, and the redirect that b follows is the flow's
\* own (MSAL compares the state), so the token is redeemed for principal who.
Redeems(b) ==
    /\ Returns(b)
    /\ flowCookie[b] \in Pending
    /\ [browser |-> b, flow |-> flowCookie[b]] \in away

\* The principal holds no role, or a scope it may not hold.
CallbackDenied(b, who) ==
    LET e == Entry("refused", "denied", 0, who) IN
    /\ Redeems(b)
    /\ Recorded(e) \/ RecordFails(e)
    /\ UNCHANGED <<sessions, admitted, cookie, flowCookie>>

\* create() refuses: the store is full of other people's sessions.
CallbackFull(b, who) ==
    LET e == Entry("sign-in", "denied", 0, who) IN
    /\ Redeems(b)
    /\ Cardinality(Kept(who)) >= MaxSessions
    /\ sessions' = Restrict(sessions, Kept(who))
    /\ Recorded(e) \/ RecordFails(e)
    /\ UNCHANGED <<admitted, cookie, flowCookie>>

\* create() admits a session, which is then recorded.
Admits(b, who) ==
    LET sid == Len(admitted) + 1 IN
    /\ Redeems(b)
    /\ Cardinality(Kept(who)) < MaxSessions
    /\ sessions' = [k \in Kept(who) \cup {sid} |->
                       IF k = sid THEN [who |-> who, created |-> now, seen |-> now]
                       ELSE sessions[k]]
    /\ admitted' = Append(admitted, [who |-> who, browser |-> b,
                                     flow |-> flowCookie[b]])

\* A slip: the cookie is set whether or not the sign-in could be recorded.
CallbackUnrecorded(b, who) ==
    /\ Admits(b, who)
    /\ RecordFails(Entry("sign-in", "ok", Len(admitted) + 1, who))
    /\ cookie' = [cookie EXCEPT ![b] = Len(admitted) + 1]
    /\ flowCookie' = [flowCookie EXCEPT ![b] = 0]

CallbackOk(b, who) ==
    /\ Admits(b, who)
    /\ Recorded(Entry("sign-in", "ok", Len(admitted) + 1, who))
    /\ cookie' = [cookie EXCEPT ![b] = Len(admitted) + 1]
    /\ flowCookie' = [flowCookie EXCEPT ![b] = 0]

\* The record cannot be written: 500 with the session in the store and its id
\* with nobody.
CallbackRaises(b, who) ==
    /\ Admits(b, who)
    /\ RecordFails(Entry("sign-in", "ok", Len(admitted) + 1, who))
    /\ UNCHANGED <<cookie, flowCookie>>

\* A slip: the cookie is cleared and the session stays in the store.
LoggedOutCookieOnly(b) ==
    /\ IF Found(cookie[b])
       THEN /\ Recorded(Entry("sign-out", "ok", cookie[b], sessions[cookie[b]].who))
            /\ signedOut' = signedOut \cup {cookie[b]}
       ELSE UNCHANGED <<record, signedOut>>
    /\ sessions' = Touched(cookie[b])
    /\ cookie' = [cookie EXCEPT ![b] = 0]

\* /auth/logout with b's cookie: recorded when it names a live session, then
\* removed from the store and from the browser.
LoggedOut(b) ==
    /\ IF Found(cookie[b])
       THEN /\ Recorded(Entry("sign-out", "ok", cookie[b], sessions[cookie[b]].who))
            /\ signedOut' = signedOut \cup {cookie[b]}
       ELSE UNCHANGED <<record, signedOut>>
    /\ sessions' = Restrict(sessions, DOMAIN sessions \ {cookie[b]})
    /\ cookie' = [cookie EXCEPT ![b] = 0]

\* The sign-out cannot be recorded: 500, and the session lives on.
LogoutRaises(b) ==
    /\ Found(cookie[b])
    /\ RecordFails(Entry("sign-out", "ok", cookie[b], sessions[cookie[b]].who))
    /\ sessions' = Touched(cookie[b])
    /\ UNCHANGED <<cookie, signedOut>>

-------------------------------------------------------------------------------
(* The page and its requests.                                              *)

Here(t) == cookie[BrowserOf[t]]

\* armIdleTimer.
Armed(t) == page' = [page EXCEPT ![t] = [on |-> TRUE, deadline |-> now + IdleTTL]]

\* renderSignedOut.
ClearedPage(t) == page' = [page EXCEPT ![t] = [on |-> FALSE, deadline |-> 0]]

\* The page is (re)loaded and asks /api/whoami.
Load(t) ==
    /\ req[t].at = "none"
    /\ sessions' = Touched(Here(t))
    /\ IF Found(Here(t)) THEN Armed(t) ELSE ClearedPage(t)
    /\ UNCHANGED <<now, flows, begun, history, browser, record, req>>

\* The head of an API request arrives; the session is looked up, and the
\* route awaits the body.
Arrives(t) ==
    /\ page[t].on
    /\ req[t].at = "none"
    /\ Found(Here(t))
    /\ sessions' = Touched(Here(t))
    /\ req' = [req EXCEPT ![t] = [at |-> "body", sid |-> Here(t)]]
    /\ UNCHANGED <<now, flows, begun, history, browser, record, page>>

\* 401: the page clears itself.
TurnedAway(t) ==
    /\ page[t].on
    /\ req[t].at = "none"
    /\ ~Found(Here(t))
    /\ sessions' = Touched(Here(t))
    /\ ClearedPage(t)
    /\ UNCHANGED <<now, flows, begun, history, browser, record, req>>

\* The body is there: the session is looked up again, for its services.
BodyRead(t) ==
    /\ req[t].at = "body"
    /\ sessions' = Touched(req[t].sid)
    /\ req' = [req EXCEPT ![t].at = IF Found(req[t].sid) THEN "handler" ELSE "raised"]
    /\ UNCHANGED <<now, flows, begun, history, browser, record, page>>

\* The answer reaches the page, which arms its timer on all but a 401.  A
\* request turned away by a limit, or for its size, is answered from "body".
Answered(t) ==
    /\ req[t].at # "none"
    /\ req' = [req EXCEPT ![t] = NoRequest]
    /\ page' = [page EXCEPT ![t].deadline = now + IdleTTL]
    /\ UNCHANGED <<now, sessions, flows, begun, history, browser, record>>

\* The handler answers 401 (the token needs a fresh sign-in).
AnsweredReauth(t) ==
    /\ req[t].at = "handler"
    /\ req' = [req EXCEPT ![t] = NoRequest]
    /\ ClearedPage(t)
    /\ UNCHANGED <<now, sessions, flows, begun, history, browser, record>>

\* The operator signs out.  The page clears itself whatever the answer is.
SignOut(t) ==
    /\ page[t].on
    /\ LoggedOut(BrowserOf[t]) \/ LogoutRaises(BrowserOf[t])
    /\ ClearedPage(t)
    /\ UNCHANGED <<now, flows, begun, admitted, flowCookie, away, req>>

\* The page's own timer: it posts a logout and clears itself.
IdleExpired(t) ==
    /\ page[t].deadline # 0
    /\ now >= page[t].deadline
    /\ \/ LoggedOut(BrowserOf[t])
       \/ LogoutRaises(BrowserOf[t])
       \/ UNCHANGED <<sessions, cookie, record, signedOut>>
    /\ ClearedPage(t)
    /\ UNCHANGED <<now, flows, begun, admitted, flowCookie, away, req>>

Tick ==
    /\ now < MaxTime
    /\ now' = now + 1
    /\ UNCHANGED <<sessions, flows, begun, history, browser, record, page, req>>

-------------------------------------------------------------------------------
Init ==
    /\ now = 1
    /\ sessions = <<>>
    /\ flows = <<>>
    /\ begun = 0
    /\ admitted = <<>>
    /\ cookie = [b \in Browsers |-> 0]
    /\ flowCookie = [b \in Browsers |-> 0]
    /\ away = {}
    /\ trail = {}
    /\ failures = 0
    /\ signedOut = {}
    /\ page = [t \in Pages |-> [on |-> FALSE, deadline |-> 0]]
    /\ req = [t \in Pages |-> NoRequest]

RouteStep(b) ==
    \/ Login(b)
    \/ LoginRefused(b)
    \/ CallbackFails(b)
    \/ \E who \in Principals :
          \/ CallbackDenied(b, who)
          \/ CallbackFull(b, who)
          \/ CallbackOk(b, who)
          \/ CallbackRaises(b, who)

PageStep(t) ==
    \/ Load(t)
    \/ Arrives(t)
    \/ TurnedAway(t)
    \/ BodyRead(t)
    \/ Answered(t)
    \/ AnsweredReauth(t)
    \/ IdleExpired(t)
    \/ SignOut(t)

Next ==
    \/ \E b \in Browsers : RouteStep(b)
    \/ \E t \in Pages : PageStep(t)
    \/ Tick

Spec == Init /\ [][Next]_vars

(***************************************************************************)
(* Properties.                                                             *)
(***************************************************************************)

\* Every variable has its type.
TypeOK ==
    /\ now \in 1..MaxTime
    /\ DOMAIN sessions \subseteq 1..Len(admitted)
    /\ \A k \in DOMAIN sessions :
          sessions[k] \in [who : Principals, created : 1..now, seen : 1..now]
    /\ DOMAIN flows \subseteq 1..begun
    /\ \A k \in DOMAIN flows : flows[k] \in 1..now
    /\ begun \in 0..MaxFlows
    /\ admitted \in Seq([who : Principals, browser : Browsers, flow : 1..begun])
    /\ cookie \in [Browsers -> 0..Len(admitted)]
    /\ flowCookie \in [Browsers -> 0..begun]
    /\ away \in SUBSET [browser : Browsers, flow : 1..begun]
    /\ trail \subseteq [act : {"refused", "sign-in", "sign-out"}, out : {"ok", "denied"},
                       sid : 0..Len(admitted), who : Principals]
    /\ failures \in 0..MaxFailures
    /\ signedOut \subseteq 1..Len(admitted)
    /\ page \in [Pages -> [on : BOOLEAN, deadline : Nat]]
    /\ req \in [Pages -> [at : {"none", "body", "handler", "raised"},
                          sid : 0..Len(admitted)]]

\* The store stays within both bounds: one operator's sessions, and all of them
\* (session.py, MAX_SESSIONS and MAX_SESSIONS_PER_PRINCIPAL).
WithinBounds ==
    /\ Cardinality(DOMAIN sessions) <= MaxSessions
    /\ \A who \in Principals :
          Cardinality({k \in DOMAIN sessions : sessions[k].who = who}) <= PerPrincipal

\* A session only goes when it has expired, when its own browser signs out, or
\* when its own operator is admitted once more: one operator's sign-ins never
\* sign out a colleague (session.py, SessionStore.create).
NoBystander ==
    [][\A k \in DOMAIN sessions \ DOMAIN sessions' :
          \/ Expired(sessions[k])
          \/ \E b \in Browsers : cookie[b] = k /\ cookie'[b] = 0
          \/ /\ Len(admitted') > Len(admitted)
             /\ admitted'[Len(admitted')].who = sessions[k].who]_vars

\* A pending flow opens at most one session, and for the browser that began
\* it, however callbacks are replayed and the flow cookie overwritten.
RedeemedOnce ==
    \A i, j \in DOMAIN admitted :
        /\ admitted[i].flow = admitted[j].flow => i = j
        /\ [browser |-> admitted[i].browser, flow |-> admitted[i].flow] \in away

\* Whoever holds a session's cookie has a recorded sign-in, under the session's
\* own name; and the trail claims no sign-in that was then refused.
SignInIsRecorded ==
    /\ \A b \in Browsers :
          cookie[b] # 0 =>
              Entry("sign-in", "ok", cookie[b], admitted[cookie[b]].who) \in trail
    /\ \A e \in trail : e.out = "ok" => e.who = admitted[e.sid].who

\* A request whose head arrived before a sign-out, and whose body arrived after
\* it, is not handed to a handler (web/app.py, the second lookup in api).
NotServedAfterSignOut ==
    [][\A t \in Pages :
          req[t].at = "body" /\ req'[t].at = "handler"
             => req[t].sid \notin signedOut]_vars

\* The assertion in api: the session that current_principal resolved is still
\* there once the body has been read (web/app.py).
SessionStillThere == \A t \in Pages : req[t].at # "raised"
===============================================================================
