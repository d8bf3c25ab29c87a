------------------------------ MODULE SignInProofs ------------------------------
(***************************************************************************)
(* Proofs about SignIn.tla, for every number of operators, browsers and    *)
(* pages, for every limit and lifetime: the stores' bounds, what may end a *)
(* session, the redemption of a flow, and what is recorded of a sign-in.   *)
(*                                                                         *)
(* A session is admitted by one step of one route; every other step can    *)
(* only drop sessions or note that they were seen (OnlyDrops).  Most of    *)
(* what is said of the store lives through that, so that each invariant is *)
(* about admission.                                                        *)
(***************************************************************************)
EXTENDS SignIn, FiniteSetTheorems, TLAPS

Session(t) == [who : Principals, created : 1..t, seen : 1..t]

-------------------------------------------------------------------------------
(* The type invariant.                                                     *)

LEMMA InitTyped == Init => TypeOK
  <1>1. ASSUME Init
        PROVE  TypeOK
    <2>1. now = 1 /\ now \in 1..MaxTime
      BY <1>1, SignInAssumption DEF Init
    <2>2. DOMAIN sessions = {} /\ DOMAIN flows = {} /\ Len(admitted) = 0
      BY <1>1 DEF Init
    <2>3. admitted \in Seq([who : Principals, browser : Browsers, flow : 1..begun])
      BY <1>1 DEF Init
    <2>4. begun \in 0..MaxFlows /\ failures \in 0..MaxFailures
      BY <1>1, SignInAssumption DEF Init
    <2>5. /\ cookie \in [Browsers -> 0..Len(admitted)]
          /\ flowCookie \in [Browsers -> 0..begun]
      BY <1>1, <2>2, <2>4 DEF Init
    <2>6. page \in [Pages -> [on : BOOLEAN, deadline : Nat]]
      BY <1>1 DEF Init
    <2>7. req \in [Pages -> [at : {"none", "body", "handler", "raised"},
                             sid : 0..Len(admitted)]]
      BY <1>1, <2>2 DEF Init, NoRequest
    <2>8. away = {} /\ trail = {} /\ signedOut = {}
      BY <1>1 DEF Init
    <2>9. QED
      BY <2>1, <2>2, <2>3, <2>4, <2>5, <2>6, <2>7, <2>8 DEF TypeOK
  <1>2. QED
    BY <1>1

\* Numbers that the routes compare and count with.
LEMMA Counts ==
  ASSUME TypeOK
  PROVE  /\ now \in Nat /\ now >= 1 /\ begun \in Nat /\ Len(admitted) \in Nat
         /\ DOMAIN admitted = 1..Len(admitted)
         /\ IdleTTL \in Nat /\ AbsoluteTTL \in Nat
         /\ DOMAIN sessions \subseteq 1..Len(admitted)
         /\ \A k \in DOMAIN sessions : sessions[k] \in Session(now)
         /\ \A b \in Browsers : cookie[b] \in Nat /\ flowCookie[b] \in Nat
  BY SignInAssumption DEF TypeOK, Session

\* What a step that admits nobody does to the store: it drops some sessions,
\* and the others keep their operator and their type.
OnlyDrops ==
    /\ DOMAIN sessions' \subseteq DOMAIN sessions
    /\ \A k \in DOMAIN sessions' : /\ sessions'[k] \in Session(now)
                                   /\ sessions'[k].who = sessions[k].who

\* SessionStore.get drops nothing but a session that has expired.
LEMMA GetDrops ==
  ASSUME TypeOK, NEW sid, sessions' = Touched(sid)
  PROVE  /\ OnlyDrops
         /\ \A k \in DOMAIN sessions \ DOMAIN sessions' : Expired(sessions[k])
  <1>1. CASE Found(sid)
    <2>1. sid \in DOMAIN sessions
      BY <1>1 DEF Found, Unexpired
    <2>2. /\ DOMAIN sessions' = DOMAIN sessions
          /\ \A k \in DOMAIN sessions : k # sid => sessions'[k] = sessions[k]
          /\ sessions'[sid] = [sessions[sid] EXCEPT !.seen = now]
      BY <1>1, <2>1 DEF Touched
    <2>3. now \in 1..now
      BY Counts
    <2>4. sessions'[sid] \in Session(now) /\ sessions'[sid].who = sessions[sid].who
      BY <2>1, <2>2, <2>3, Counts DEF Session
    <2>5. QED
      BY <2>2, <2>4, Counts DEF OnlyDrops
  <1>2. CASE ~Found(sid)
    <2>1. /\ DOMAIN sessions' = DOMAIN sessions \ {sid}
          /\ \A k \in DOMAIN sessions' : sessions'[k] = sessions[k]
      BY <1>2 DEF Touched, Restrict
    <2>2. OnlyDrops
      BY <2>1, Counts DEF OnlyDrops
    <2>3. \A k \in DOMAIN sessions \ DOMAIN sessions' : Expired(sessions[k])
      BY <1>2, <2>1 DEF Found, Unexpired
    <2>4. QED
      BY <2>2, <2>3
  <1>3. QED
    BY <1>1, <1>2

\* So does removing a set of sessions.
LEMMA RemovalDrops ==
  ASSUME TypeOK, NEW S \in SUBSET DOMAIN sessions, sessions' = Restrict(sessions, S)
  PROVE  OnlyDrops /\ DOMAIN sessions' = S
  BY Counts DEF Restrict, OnlyDrops

\* A step that leaves the store alone.
LEMMA NothingDrops ==
  ASSUME TypeOK, UNCHANGED sessions
  PROVE  OnlyDrops
  BY Counts DEF OnlyDrops

\* A sign-out takes the session of the cookie, if it does not fail.
LEMMA SignOutDrops ==
  ASSUME TypeOK, NEW b \in Browsers, LoggedOut(b) \/ LogoutRaises(b)
  PROVE  /\ OnlyDrops
         /\ \A k \in DOMAIN sessions \ DOMAIN sessions' :
               Expired(sessions[k]) \/ (cookie[b] = k /\ cookie'[b] = 0)
  <1>1. CASE LoggedOut(b)
    <2>1. OnlyDrops /\ DOMAIN sessions' = DOMAIN sessions \ {cookie[b]}
      BY <1>1, RemovalDrops DEF LoggedOut
    <2>2. cookie \in [Browsers -> 0..Len(admitted)]
      BY DEF TypeOK
    <2>3. cookie'[b] = 0
      BY <1>1, <2>2 DEF LoggedOut
    <2>4. QED
      BY <2>1, <2>3
  <1>2. CASE LogoutRaises(b)
    BY <1>2, GetDrops DEF LogoutRaises
  <1>3. QED
    BY <1>1, <1>2

\* What admission does to the store.
LEMMA AdmissionAdds ==
  ASSUME TypeOK, NEW b \in Browsers, NEW who \in Principals, Admits(b, who)
  PROVE  LET sid == Len(admitted) + 1 IN
         /\ sid \notin DOMAIN sessions
         /\ DOMAIN sessions' = Kept(who) \cup {sid}
         /\ \A k \in Kept(who) : sessions'[k] = sessions[k]
         /\ sessions'[sid] = [who |-> who, created |-> now, seen |-> now]
         /\ Len(admitted') = sid
         /\ \A k \in 1..Len(admitted) : admitted'[k] = admitted[k]
         /\ admitted'[sid] = [who |-> who, browser |-> b, flow |-> flowCookie[b]]
  <1> DEFINE sid == Len(admitted) + 1
  <1>1. Len(admitted) \in Nat /\ sid \notin DOMAIN sessions
    BY Counts
  <1>2. Kept(who) \subseteq DOMAIN sessions
    BY DEF Kept, Unexpired
  <1>3. /\ DOMAIN sessions' = Kept(who) \cup {sid}
        /\ \A k \in Kept(who) : sessions'[k] = sessions[k]
        /\ sessions'[sid] = [who |-> who, created |-> now, seen |-> now]
    BY <1>1, <1>2 DEF Admits
  <1>4. admitted \in Seq([who : Principals, browser : Browsers, flow : 1..begun])
    BY DEF TypeOK
  <1>5. admitted' = Append(admitted, [who |-> who, browser |-> b, flow |-> flowCookie[b]])
    BY DEF Admits
  <1>6. /\ Len(admitted') = sid
        /\ \A k \in 1..Len(admitted) : admitted'[k] = admitted[k]
        /\ admitted'[sid] = [who |-> who, browser |-> b, flow |-> flowCookie[b]]
    BY <1>4, <1>5
  <1>7. QED
    BY <1>1, <1>3, <1>6

\* A redemption is of a flow that is in the store, by the browser it was given
\* to, and the flow is in the store no more.
LEMMA RedemptionTakes ==
  ASSUME TypeOK, NEW b \in Browsers, Redeems(b)
  PROVE  /\ flowCookie[b] \in DOMAIN flows
         /\ flowCookie[b] \in 1..begun
         /\ [browser |-> b, flow |-> flowCookie[b]] \in away
         /\ DOMAIN flows' \subseteq DOMAIN flows \ {flowCookie[b]}
         /\ \A k \in DOMAIN flows' : flows'[k] = flows[k]
  <1>1. flowCookie[b] \in DOMAIN flows
    BY DEF Redeems, Pending
  <1>2. flowCookie[b] \in 1..begun
    BY <1>1 DEF TypeOK
  <1>3. flowCookie[b] # 0
    BY <1>2
  <1>4. flows' = Restrict(flows, Pending \ {flowCookie[b]})
    BY <1>3 DEF Redeems, Returns, Taken
  <1>5. QED
    BY <1>1, <1>2, <1>4 DEF Redeems, Restrict, Pending

\* The parts of TypeOK that more than one action has to restore.
StoreTyped ==
    /\ DOMAIN sessions \subseteq 1..Len(admitted)
    /\ \A k \in DOMAIN sessions : sessions[k] \in Session(now)

FlowsTyped == DOMAIN flows \subseteq 1..begun /\ \A k \in DOMAIN flows : flows[k] \in 1..now

Entries == [act : {"refused", "sign-in", "sign-out"}, out : {"ok", "denied"},
            sid : 0..Len(admitted), who : Principals]

TrailTyped == trail \subseteq Entries /\ failures \in 0..MaxFailures

Admission == [who : Principals, browser : Browsers, flow : 1..begun]

BrowserTyped ==
    /\ cookie \in [Browsers -> 0..Len(admitted)]
    /\ flowCookie \in [Browsers -> 0..begun]
    /\ away \in SUBSET [browser : Browsers, flow : 1..begun]

PageTyped ==
    /\ page \in [Pages -> [on : BOOLEAN, deadline : Nat]]
    /\ req \in [Pages -> [at : {"none", "body", "handler", "raised"},
                          sid : 0..Len(admitted)]]

Typed ==
    /\ now \in 1..MaxTime
    /\ StoreTyped
    /\ FlowsTyped
    /\ begun \in 0..MaxFlows
    /\ admitted \in Seq(Admission)
    /\ BrowserTyped
    /\ TrailTyped
    /\ signedOut \subseteq 1..Len(admitted)
    /\ PageTyped

LEMMA TypeParts == (TypeOK <=> Typed) /\ (TypeOK' <=> Typed')
  <1>1. TypeOK <=> Typed
    BY DEF Typed, TypeOK, StoreTyped, FlowsTyped, Admission, BrowserTyped, TrailTyped,
           Entries, PageTyped, Session
  <1>2. TypeOK' <=> Typed'
    BY DEF Typed, TypeOK, StoreTyped, FlowsTyped, Admission, BrowserTyped, TrailTyped,
           Entries, PageTyped, Session
  <1>3. QED
    BY <1>1, <1>2

LEMMA StoreKept ==
  ASSUME TypeOK, OnlyDrops, UNCHANGED <<now, admitted>>
  PROVE  StoreTyped'
  BY TypeParts DEF Typed, OnlyDrops, StoreTyped, Session

\* A record that is written, or is not.
LEMMA TrailKept ==
  ASSUME TypeOK, NEW e \in Entries', Recorded(e) \/ RecordFails(e),
         Len(admitted') \in {Len(admitted), Len(admitted) + 1}
  PROVE  TrailTyped'
  <1>1. Entries \subseteq Entries'
    BY Counts DEF Entries
  <1>2. trail' \subseteq Entries'
    BY <1>1, TypeParts DEF Typed, Recorded, RecordFails, TrailTyped
  <1>3. failures' \in 0..MaxFailures
    BY SignInAssumption, TypeParts DEF Typed, Recorded, RecordFails, TrailTyped
  <1>4. QED
    BY <1>2, <1>3 DEF TrailTyped

LEMMA FlowsReturn ==
  ASSUME TypeOK, NEW b \in Browsers, Returns(b)
  PROVE  FlowsTyped'
  BY TypeParts DEF Typed, Returns, Taken, Restrict, Pending, FlowsTyped

LEMMA RouteTyped ==
  ASSUME TypeOK, NEW b \in Browsers, RouteStep(b)
  PROVE  TypeOK'
  <1> USE TypeParts DEF Typed
  <1>1. CASE Login(b)
    <2>1. begun + 1 \in 1..MaxFlows /\ begun' = begun + 1 /\ now \in 1..now
      BY <1>1, Counts, SignInAssumption DEF Login
    <2>2. FlowsTyped'
      BY <1>1, <2>1, Counts DEF Login, FlowsTyped, Pending
    <2>3. BrowserTyped'
      BY <1>1, <2>1, Counts DEF Login, BrowserTyped, history
    <2>4. admitted' \in Seq(Admission') /\ begun' \in 0..MaxFlows
      <3>1. Admission \subseteq Admission'
        BY <2>1, Counts DEF Admission
      <3>2. Seq(Admission) \subseteq Seq(Admission')
        BY <3>1
      <3>3. QED
        BY <1>1, <2>1, <3>2 DEF Login, history
    <2>5. StoreTyped' /\ TrailTyped' /\ PageTyped'
      BY <1>1 DEF Login, StoreTyped, TrailTyped, Entries, PageTyped, history, record, Session
    <2>6. QED
      BY <1>1, <2>2, <2>3, <2>4, <2>5 DEF Login, history
  <1>2. CASE LoginRefused(b)
    <2>1. FlowsTyped'
      BY <1>2, Counts DEF LoginRefused, FlowsTyped, Pending, Restrict
    <2>2. QED
      BY <1>2, <2>1
      DEF LoginRefused, StoreTyped, TrailTyped, Entries, PageTyped, BrowserTyped, Admission,
          history, browser, record, Session
  <1>3. ASSUME Returns(b), StoreTyped', TrailTyped', BrowserTyped', admitted' \in Seq(Admission),
               Len(admitted') \in {Len(admitted), Len(admitted) + 1}
        PROVE  TypeOK'
    <2>1. FlowsTyped'
      BY <1>3, FlowsReturn
    <2>2. admitted' \in Seq(Admission') /\ begun' \in 0..MaxFlows
      BY <1>3 DEF Returns, Admission
    <2>3. signedOut' \subseteq 1..Len(admitted')
      BY <1>3, Counts DEF Returns
    <2>4. PageTyped'
      BY <1>3, Counts DEF Returns, PageTyped
    <2>5. QED
      BY <1>3, <2>1, <2>2, <2>3, <2>4 DEF Returns
  <1>4. CASE CallbackFails(b)
    <2>1. StoreTyped' /\ TrailTyped' /\ BrowserTyped'
      BY <1>4 DEF CallbackFails, Returns, StoreTyped, TrailTyped, Entries, BrowserTyped,
                  record, Session
    <2>2. QED
      BY <1>3, <1>4, <2>1 DEF CallbackFails
  <1>5. ASSUME NEW who \in Principals, CallbackDenied(b, who)
        PROVE  TypeOK'
    <2>1. Entry("refused", "denied", 0, who) \in Entries'
      BY <1>5, Counts DEF Entry, Entries, CallbackDenied
    <2>2. TrailTyped'
      BY <1>5, <2>1, TrailKept DEF CallbackDenied
    <2>3. StoreTyped' /\ BrowserTyped'
      BY <1>5 DEF CallbackDenied, Redeems, Returns, StoreTyped, BrowserTyped, Session
    <2>4. QED
      BY <1>3, <1>5, <2>2, <2>3 DEF CallbackDenied, Redeems
  <1>6. ASSUME NEW who \in Principals, CallbackFull(b, who)
        PROVE  TypeOK'
    <2>1. Entry("sign-in", "denied", 0, who) \in Entries'
      BY <1>6, Counts DEF Entry, Entries, CallbackFull
    <2>2. TrailTyped'
      BY <1>6, <2>1, TrailKept DEF CallbackFull
    <2>3. OnlyDrops
      BY <1>6, RemovalDrops DEF CallbackFull, Kept, Unexpired
    <2>4. StoreTyped'
      BY <1>6, <2>3, StoreKept DEF CallbackFull, Redeems, Returns
    <2>5. BrowserTyped'
      BY <1>6 DEF CallbackFull, Redeems, Returns, BrowserTyped
    <2>6. QED
      BY <1>3, <1>6, <2>2, <2>4, <2>5 DEF CallbackFull, Redeems
  <1>7. ASSUME NEW who \in Principals, CallbackOk(b, who) \/ CallbackRaises(b, who)
        PROVE  TypeOK'
    <2> DEFINE sid == Len(admitted) + 1
    <2>1. Admits(b, who)
      BY <1>7 DEF CallbackOk, CallbackRaises
    <2>2. Redeems(b) /\ Returns(b) /\ flowCookie[b] \in 1..begun
      BY <2>1, RedemptionTakes DEF Admits, Redeems
    <2>3. Len(admitted') = sid /\ admitted' \in Seq(Admission)
      BY <2>1, <2>2, AdmissionAdds DEF Admits, Admission
    <2>4. Entry("sign-in", "ok", sid, who) \in Entries'
      BY <2>3, Counts DEF Entry, Entries
    <2>5. TrailTyped'
      BY <1>7, <2>3, <2>4, TrailKept DEF CallbackOk, CallbackRaises
    <2>6. StoreTyped'
      <3>1. Kept(who) \subseteq DOMAIN sessions
        BY DEF Kept, Unexpired
      <3>2. DOMAIN sessions' = Kept(who) \cup {sid}
        BY <2>1, AdmissionAdds
      <3>3. DOMAIN sessions' \subseteq 1..Len(admitted')
        BY <2>3, <3>1, <3>2, Counts
      <3>4. now' = now /\ now \in 1..now
        BY <2>2, Counts DEF Returns
      <3>5. sessions'[sid] \in Session(now)
        <4>1. sessions'[sid] = [who |-> who, created |-> now, seen |-> now]
          BY <2>1, AdmissionAdds
        <4>2. QED
          BY <3>4, <4>1 DEF Session
      <3>6. \A k \in Kept(who) : sessions'[k] \in Session(now)
        BY <2>1, <3>1, AdmissionAdds, Counts
      <3>7. QED
        BY <3>2, <3>3, <3>4, <3>5, <3>6 DEF StoreTyped, Session
    <2>7. BrowserTyped'
      <3>1. /\ begun' = begun /\ away' = away
            /\ cookie \in [Browsers -> 0..Len(admitted)]
            /\ 0..Len(admitted) \subseteq 0..Len(admitted') /\ sid \in 0..Len(admitted')
            /\ 0 \in 0..begun
        BY <2>2, <2>3, Counts DEF Returns, BrowserTyped
      <3>2. CASE CallbackOk(b, who)
        BY <3>1, <3>2 DEF CallbackOk, BrowserTyped
      <3>3. CASE CallbackRaises(b, who)
        BY <3>1, <3>3 DEF CallbackRaises, BrowserTyped
      <3>4. QED
        BY <1>7, <3>2, <3>3
    <2>8. QED
      BY <1>3, <2>2, <2>3, <2>5, <2>6, <2>7
  <1>8. QED
    BY <1>1, <1>2, <1>4, <1>5, <1>6, <1>7 DEF RouteStep

\* A page signs out, or its timer does.
LEMMA SignOutTyped ==
  ASSUME TypeOK, NEW b \in Browsers, LoggedOut(b) \/ LogoutRaises(b),
         UNCHANGED <<now, flows, begun, admitted, flowCookie, away>>, PageTyped'
  PROVE  TypeOK'
  <1> USE TypeParts DEF Typed
  <1>1. StoreTyped'
    BY SignOutDrops, StoreKept
  <1>2. Found(cookie[b]) => /\ cookie[b] \in 1..Len(admitted)
                            /\ sessions[cookie[b]].who \in Principals
    BY Counts DEF Found, Unexpired, Session
  <1>3. signedOut' \subseteq 1..Len(admitted')
    BY <1>2 DEF LoggedOut, LogoutRaises
  <1>4. BrowserTyped'
    <2>1. cookie \in [Browsers -> 0..Len(admitted)] /\ 0 \in 0..Len(admitted)
      BY Counts DEF BrowserTyped
    <2>2. cookie' \in [Browsers -> 0..Len(admitted)]
      <3>1. cookie' = [cookie EXCEPT ![b] = 0] \/ cookie' = cookie
        BY DEF LoggedOut, LogoutRaises
      <3>2. QED
        BY <2>1, <3>1
    <2>3. QED
      BY <2>2 DEF BrowserTyped
  <1>5. TrailTyped'
    <2>1. CASE Found(cookie[b])
      <3>1. Entry("sign-out", "ok", cookie[b], sessions[cookie[b]].who) \in Entries'
        BY <1>2, <2>1 DEF Entry, Entries
      <3>2. QED
        BY <2>1, <3>1, TrailKept DEF LoggedOut, LogoutRaises
    <2>2. CASE ~Found(cookie[b])
      BY <2>2 DEF LoggedOut, LogoutRaises, record, TrailTyped, Entries
    <2>3. QED
      BY <2>1, <2>2
  <1>6. QED
    BY <1>1, <1>3, <1>4, <1>5 DEF FlowsTyped, Admission

\* What Login, the callbacks and the sign-out own is left alone.
LEMMA PageOnlyTyped ==
  ASSUME TypeOK, OnlyDrops, PageTyped', UNCHANGED <<now, flows, begun, history, browser, record>>
  PROVE  TypeOK'
  BY TypeParts, StoreKept
  DEF Typed, FlowsTyped, Admission, BrowserTyped, TrailTyped, Entries, history, browser, record

LEMMA PageStepTyped ==
  ASSUME TypeOK, NEW t \in Pages, PageStep(t)
  PROVE  TypeOK'
  <1> USE TypeParts DEF Typed
  <1>1. BrowserOf[t] \in Browsers /\ Here(t) \in 0..Len(admitted) /\ now + IdleTTL \in Nat
    BY Counts, SignInAssumption DEF Here, BrowserTyped
  <1>2. CASE Load(t)
    <2>1. PageTyped'
      <3>1. page' \in {[page EXCEPT ![t] = [on |-> TRUE, deadline |-> now + IdleTTL]],
                       [page EXCEPT ![t] = [on |-> FALSE, deadline |-> 0]]}
        BY <1>2 DEF Load, Armed, ClearedPage
      <3>2. /\ [on |-> TRUE, deadline |-> now + IdleTTL] \in [on : BOOLEAN, deadline : Nat]
            /\ [on |-> FALSE, deadline |-> 0] \in [on : BOOLEAN, deadline : Nat]
        BY <1>1
      <3>3. page' \in [Pages -> [on : BOOLEAN, deadline : Nat]]
        BY <3>1, <3>2 DEF PageTyped
      <3>4. QED
        BY <1>2, <3>3 DEF Load, PageTyped, history
    <2>2. QED
      BY <1>2, <2>1, GetDrops, PageOnlyTyped DEF Load
  <1>3. CASE Arrives(t)
    <2>1. PageTyped'
      BY <1>1, <1>3 DEF Arrives, PageTyped, history
    <2>2. QED
      BY <1>3, <2>1, GetDrops, PageOnlyTyped DEF Arrives
  <1>4. CASE TurnedAway(t)
    <2>1. PageTyped'
      BY <1>4 DEF TurnedAway, ClearedPage, PageTyped, history
    <2>2. QED
      BY <1>4, <2>1, GetDrops, PageOnlyTyped DEF TurnedAway
  <1>5. CASE BodyRead(t)
    <2>1. PageTyped'
      BY <1>5 DEF BodyRead, PageTyped, history
    <2>2. QED
      BY <1>5, <2>1, GetDrops, PageOnlyTyped DEF BodyRead
  <1>6. CASE Answered(t)
    <2>1. PageTyped'
      <3>1. NoRequest \in [at : {"none", "body", "handler", "raised"}, sid : 0..Len(admitted)]
        BY Counts DEF NoRequest
      <3>2. page' \in [Pages -> [on : BOOLEAN, deadline : Nat]]
        BY <1>1, <1>6 DEF Answered, PageTyped
      <3>3. QED
        BY <1>6, <3>1, <3>2 DEF Answered, PageTyped, history
    <2>2. QED
      BY <1>6, <2>1, NothingDrops, PageOnlyTyped DEF Answered
  <1>7. CASE AnsweredReauth(t)
    <2>1. PageTyped'
      BY <1>7, Counts DEF AnsweredReauth, ClearedPage, NoRequest, PageTyped, history
    <2>2. QED
      BY <1>7, <2>1, NothingDrops, PageOnlyTyped DEF AnsweredReauth
  <1>8. CASE SignOut(t)
    <2>1. PageTyped'
      BY <1>8 DEF SignOut, ClearedPage, PageTyped
    <2>2. QED
      BY <1>1, <1>8, <2>1, SignOutTyped DEF SignOut
  <1>9. CASE IdleExpired(t)
    <2>1. PageTyped'
      BY <1>9 DEF IdleExpired, ClearedPage, PageTyped
    <2>2. CASE UNCHANGED <<sessions, cookie, record, signedOut>>
      BY <1>9, <2>1, <2>2, NothingDrops, PageOnlyTyped DEF IdleExpired, history, browser
    <2>3. CASE LoggedOut(BrowserOf[t]) \/ LogoutRaises(BrowserOf[t])
      BY <1>1, <1>9, <2>1, <2>3, SignOutTyped DEF IdleExpired
    <2>4. QED
      BY <1>9, <2>2, <2>3 DEF IdleExpired
  <1>10. QED
    BY <1>2, <1>3, <1>4, <1>5, <1>6, <1>7, <1>8, <1>9 DEF PageStep

LEMMA TickTyped ==
  ASSUME TypeOK, Tick
  PROVE  TypeOK'
  <1>1. now' \in 1..MaxTime /\ 1..now \subseteq 1..now'
    BY Counts, SignInAssumption DEF Tick
  <1>2. StoreTyped'
    BY <1>1, TypeParts DEF Typed, Tick, StoreTyped, Session, history
  <1>3. FlowsTyped'
    BY <1>1, TypeParts DEF Typed, Tick, FlowsTyped
  <1>4. QED
    BY <1>1, <1>2, <1>3, TypeParts
    DEF Typed, Tick, BrowserTyped, TrailTyped, Entries, PageTyped, Admission, history, browser, record

LEMMA TypeStep == TypeOK /\ [Next]_vars => TypeOK'
  <1>1. ASSUME TypeOK, UNCHANGED vars
        PROVE  TypeOK'
    BY <1>1 DEF vars, TypeOK
  <1>2. QED
    BY <1>1, RouteTyped, PageStepTyped, TickTyped DEF Next

\* Every variable has its type, for every number of operators, browsers and
\* pages, and for all limits and lifetimes.
THEOREM SignInTyped == Spec => []TypeOK
  BY InitTyped, TypeStep, PTL DEF Spec

-------------------------------------------------------------------------------
(* The bounds of the store.                                                *)

\* The place of a session among its operator's, the one seen last being first.
Place(who, k) == Cardinality({j \in Mine(who) : Outlives(j, k)})

\* Of two sessions one outlives the other, and whatever outlives the first then
\* outlives the second: their places differ.
LEMMA PlacesDiffer ==
  ASSUME TypeOK, NEW who \in Principals, NEW j \in Mine(who), NEW k \in Mine(who), j # k
  PROVE  Place(who, j) # Place(who, k)
  <1>1. /\ IsFiniteSet(Mine(who))
        /\ \A i \in Mine(who) : i \in Nat /\ sessions[i].seen \in Nat
    <2>1. Mine(who) \subseteq DOMAIN sessions
      BY DEF Mine, Unexpired
    <2>2. IsFiniteSet(1..Len(admitted)) /\ Mine(who) \in SUBSET (1..Len(admitted))
      BY <2>1, Counts, FS_Interval
    <2>3. QED
      BY <2>1, <2>2, Counts, FS_Subset DEF Session
  <1>2. ASSUME NEW x \in Mine(who), NEW y \in Mine(who), Outlives(x, y)
        PROVE  Place(who, x) # Place(who, y)
    <2> DEFINE above == {i \in Mine(who) : Outlives(i, x)}
               below == {i \in Mine(who) : Outlives(i, y)}
    <2>1. \A i \in above : i \in below
      BY <1>1, <1>2 DEF Outlives
    <2>2. x \in below /\ x \notin above
      BY <1>1, <1>2 DEF Outlives
    <2>3. IsFiniteSet(below)
      BY <1>1, FS_Subset
    <2>4. Cardinality(above) # Cardinality(below)
      BY <2>1, <2>2, <2>3, FS_Subset
    <2>5. QED
      BY <2>4 DEF Place
  <1>3. Outlives(j, k) \/ Outlives(k, j)
    BY <1>1 DEF Outlives
  <1>4. QED
    BY <1>2, <1>3

\* At most one fewer than PerPrincipal of an operator's sessions are kept.
LEMMA FewKept ==
  ASSUME TypeOK, NEW who \in Principals
  PROVE  /\ IsFiniteSet(Mine(who) \ Evicts(who))
         /\ Cardinality(Mine(who) \ Evicts(who)) <= PerPrincipal - 1
  <1> DEFINE S == Mine(who) \ Evicts(who)
             n == PerPrincipal - 1
             f == [k \in S |-> Place(who, k)]
  <1>1. n \in Nat
    BY SignInAssumption
  <1>2. IsFiniteSet(Mine(who)) /\ IsFiniteSet(S)
    <2>1. Mine(who) \subseteq DOMAIN sessions
      BY DEF Mine, Unexpired
    <2>2. IsFiniteSet(1..Len(admitted)) /\ Mine(who) \in SUBSET (1..Len(admitted))
      BY <2>1, Counts, FS_Interval
    <2>3. QED
      BY <2>2, FS_Subset
  <1>3. \A k \in S : Place(who, k) \in 0..(n - 1)
    <2>1. TAKE k \in S
    <2>2. IsFiniteSet({j \in Mine(who) : Outlives(j, k)})
      BY <1>2, FS_Subset
    <2>3. Place(who, k) \in Nat
      BY <2>2, FS_CardinalityType DEF Place
    <2>4. ~(Place(who, k) >= n)
      BY DEF Evicts, Place
    <2>5. QED
      BY <1>1, <2>3, <2>4
  <1>4. f \in [S -> 0..(n - 1)]
    BY <1>3
  <1>5. IsFiniteSet(0..(n - 1)) /\ Cardinality(0..(n - 1)) = n
    BY <1>1, FS_Interval
  <1>6. ~(n < Cardinality(S))
    <2>1. SUFFICES ASSUME n < Cardinality(S)
                   PROVE  FALSE
      OBVIOUS
    <2> DEFINE T == 0..(n - 1)
    <2>2. IsFiniteSet(T) /\ Cardinality(T) < Cardinality(S) /\ f \in [S -> T]
      BY <1>4, <1>5, <2>1
    <2>3. \E x, y \in S : x # y /\ f[x] = f[y]
      <3> HIDE DEF f, S, T
      <3>1. QED
        BY <1>2, <2>2, FS_PigeonHole
    <2>4. PICK x, y \in S : x # y /\ f[x] = f[y]
      BY <2>3
    <2>5. QED
      BY <2>4, PlacesDiffer
  <1>7. Cardinality(S) \in Nat
    BY <1>2, FS_CardinalityType
  <1>8. QED
    BY <1>1, <1>2, <1>6, <1>7

LEMMA StoreIsFinite == ASSUME TypeOK PROVE IsFiniteSet(DOMAIN sessions)
  <1>1. IsFiniteSet(1..Len(admitted)) /\ DOMAIN sessions \in SUBSET (1..Len(admitted))
    BY Counts, FS_Interval
  <1>2. QED
    BY <1>1, FS_Subset

\* Who holds the sessions of a store that only loses some.
LEMMA DropsStayWithin ==
  ASSUME TypeOK, WithinBounds, OnlyDrops
  PROVE  WithinBounds'
  <1>1. IsFiniteSet(DOMAIN sessions)
    BY StoreIsFinite
  <1>2. /\ DOMAIN sessions' \in SUBSET DOMAIN sessions
        /\ IsFiniteSet(DOMAIN sessions')
        /\ Cardinality(DOMAIN sessions') \in Nat
        /\ Cardinality(DOMAIN sessions) \in Nat
        /\ Cardinality(DOMAIN sessions') <= Cardinality(DOMAIN sessions)
    BY <1>1, FS_Subset, FS_CardinalityType DEF OnlyDrops
  <1>3. ASSUME NEW who \in Principals
        PROVE  Cardinality({k \in DOMAIN sessions' : sessions'[k].who = who}) <= PerPrincipal
    <2> DEFINE S == {k \in DOMAIN sessions : sessions[k].who = who}
               T == {k \in DOMAIN sessions' : sessions'[k].who = who}
    <2>1. IsFiniteSet(S) /\ T \in SUBSET S
      BY <1>1, FS_Subset DEF OnlyDrops
    <2>2. IsFiniteSet(T) /\ Cardinality(T) <= Cardinality(S)
      BY <2>1, FS_Subset
    <2>3. Cardinality(S) \in Nat /\ Cardinality(T) \in Nat
      BY <2>1, <2>2, FS_CardinalityType
    <2>4. Cardinality(S) <= PerPrincipal
      BY DEF WithinBounds
    <2>5. QED
      BY <2>2, <2>3, <2>4, SignInAssumption
  <1>4. QED
    BY <1>2, <1>3, SignInAssumption DEF WithinBounds

\* Admission makes room first: in the store of the operator's own sessions, and
\* in the whole store only if there is room.
LEMMA AdmissionStaysWithin ==
  ASSUME TypeOK, WithinBounds, NEW b \in Browsers, NEW who \in Principals, Admits(b, who)
  PROVE  WithinBounds'
  <1> DEFINE sid == Len(admitted) + 1
  <1>1. /\ sid \notin DOMAIN sessions
        /\ DOMAIN sessions' = Kept(who) \cup {sid}
        /\ \A k \in Kept(who) : sessions'[k] = sessions[k]
        /\ sessions'[sid].who = who
    <2>1. /\ sid \notin DOMAIN sessions
          /\ DOMAIN sessions' = Kept(who) \cup {sid}
          /\ \A k \in Kept(who) : sessions'[k] = sessions[k]
          /\ sessions'[sid] = [who |-> who, created |-> now, seen |-> now]
      BY AdmissionAdds
    <2>2. QED
      BY <2>1
  <1>2. Kept(who) \subseteq DOMAIN sessions /\ IsFiniteSet(Kept(who))
    BY StoreIsFinite, FS_Subset DEF Kept, Unexpired
  <1>3. Cardinality(DOMAIN sessions') <= MaxSessions
    <2>1. Cardinality(Kept(who)) < MaxSessions /\ Cardinality(Kept(who)) \in Nat
      BY <1>2, FS_CardinalityType DEF Admits
    <2>2. Cardinality(Kept(who) \cup {sid}) = Cardinality(Kept(who)) + 1
      BY <1>1, <1>2, FS_AddElement
    <2>3. QED
      BY <1>1, <2>1, <2>2, SignInAssumption
  <1>4. ASSUME NEW p \in Principals
        PROVE  Cardinality({k \in DOMAIN sessions' : sessions'[k].who = p}) <= PerPrincipal
    <2> DEFINE T == {k \in DOMAIN sessions' : sessions'[k].who = p}
    <2>1. CASE p = who
      <3> DEFINE S == Mine(who) \ Evicts(who)
      <3>1. T = S \cup {sid}
        BY <1>1, <2>1 DEF Kept, Mine
      <3>2. IsFiniteSet(S) /\ Cardinality(S) <= PerPrincipal - 1 /\ Cardinality(S) \in Nat
        BY FewKept, FS_CardinalityType
      <3>3. Cardinality(T) \in {Cardinality(S), Cardinality(S) + 1}
        <4> HIDE DEF S, T
        <4>1. QED
          BY <3>1, <3>2, FS_AddElement
      <3>4. QED
        BY <3>2, <3>3, SignInAssumption
    <2>2. CASE p # who
      <3> DEFINE S == {k \in DOMAIN sessions : sessions[k].who = p}
      <3>1. IsFiniteSet(S) /\ T \in SUBSET S
        BY <1>1, <1>2, <2>2, StoreIsFinite, FS_Subset
      <3>2. /\ Cardinality(T) <= Cardinality(S)
            /\ Cardinality(S) \in Nat /\ Cardinality(T) \in Nat
        BY <3>1, FS_Subset, FS_CardinalityType
      <3>3. Cardinality(S) <= PerPrincipal
        BY DEF WithinBounds
      <3>4. QED
        BY <3>2, <3>3, SignInAssumption
    <2>3. QED
      BY <2>1, <2>2
  <1>5. QED
    BY <1>3, <1>4 DEF WithinBounds

-------------------------------------------------------------------------------
(* The steps, as the store sees them.                                      *)

\* A step that admits nobody.
Quiet == OnlyDrops /\ UNCHANGED admitted

LEMMA RouteKinds ==
  ASSUME TypeOK, NEW b \in Browsers, RouteStep(b)
  PROVE  \/ Quiet
         \/ \E who \in Principals : CallbackOk(b, who) \/ CallbackRaises(b, who)
  <1>1. CASE Login(b) \/ LoginRefused(b) \/ CallbackFails(b)
    BY <1>1, NothingDrops DEF Login, LoginRefused, CallbackFails, Returns, history, Quiet
  <1>2. ASSUME NEW who \in Principals, CallbackDenied(b, who)
        PROVE  Quiet
    BY <1>2, NothingDrops DEF CallbackDenied, Quiet
  <1>3. ASSUME NEW who \in Principals, CallbackFull(b, who)
        PROVE  Quiet
    BY <1>3, RemovalDrops DEF CallbackFull, Kept, Unexpired, Quiet
  <1>4. QED
    BY <1>1, <1>2, <1>3 DEF RouteStep

LEMMA PageKinds ==
  ASSUME TypeOK, NEW t \in Pages, PageStep(t)
  PROVE  Quiet
  <1>1. BrowserOf[t] \in Browsers
    BY SignInAssumption
  <1>2. CASE Load(t) \/ Arrives(t) \/ TurnedAway(t) \/ BodyRead(t)
    BY <1>2, GetDrops DEF Load, Arrives, TurnedAway, BodyRead, history, Quiet
  <1>3. CASE Answered(t) \/ AnsweredReauth(t)
    BY <1>3, NothingDrops DEF Answered, AnsweredReauth, history, Quiet
  <1>4. CASE SignOut(t)
    BY <1>1, <1>4, SignOutDrops DEF SignOut, Quiet
  <1>5. CASE IdleExpired(t)
    BY <1>1, <1>5, SignOutDrops, NothingDrops DEF IdleExpired, Quiet
  <1>6. QED
    BY <1>2, <1>3, <1>4, <1>5 DEF PageStep

LEMMA Kinds ==
  ASSUME TypeOK, [Next]_vars
  PROVE  \/ Quiet
         \/ \E b \in Browsers, who \in Principals : CallbackOk(b, who) \/ CallbackRaises(b, who)
  <1>1. CASE Tick \/ UNCHANGED vars
    BY <1>1, NothingDrops DEF Tick, vars, history, Quiet
  <1>2. QED
    BY <1>1, RouteKinds, PageKinds DEF Next

LEMMA WithinStep == TypeOK /\ WithinBounds /\ [Next]_vars => WithinBounds'
  BY Kinds, DropsStayWithin, AdmissionStaysWithin DEF CallbackOk, CallbackRaises, Quiet

\* The store of sessions keeps both of its bounds, whoever signs in however often.
THEOREM StoreIsBounded == Spec => []WithinBounds
  <1>1. Init => WithinBounds
    <2>1. SUFFICES ASSUME Init
                   PROVE  WithinBounds
      OBVIOUS
    <2>2. DOMAIN sessions = {}
      BY <2>1 DEF Init
    <2>3. \A who \in Principals : {k \in DOMAIN sessions : sessions[k].who = who} = {}
      BY <2>2
    <2>4. QED
      BY <2>2, <2>3, FS_EmptySet, SignInAssumption DEF WithinBounds
  <1>2. QED
    BY <1>1, WithinStep, SignInTyped, PTL DEF Spec

-------------------------------------------------------------------------------
(* What may end a session.                                                 *)

\* A store that is full of what is kept has lost nobody: had one of the
\* operator's own sessions gone, there would be room.
LEMMA FullKeepsAll ==
  ASSUME TypeOK, WithinBounds, NEW who \in Principals, Cardinality(Kept(who)) >= MaxSessions
  PROVE  Kept(who) = DOMAIN sessions
  <1>1. IsFiniteSet(DOMAIN sessions) /\ Kept(who) \in SUBSET DOMAIN sessions
    BY StoreIsFinite DEF Kept, Unexpired
  <1>2. /\ Cardinality(Kept(who)) <= Cardinality(DOMAIN sessions)
        /\ Cardinality(Kept(who)) \in Nat /\ Cardinality(DOMAIN sessions) \in Nat
    BY <1>1, FS_Subset, FS_CardinalityType
  <1>3. Cardinality(DOMAIN sessions) <= MaxSessions
    BY DEF WithinBounds
  <1>4. Cardinality(Kept(who)) = Cardinality(DOMAIN sessions)
    BY <1>2, <1>3, SignInAssumption
  <1>5. QED
    BY <1>1, <1>4, FS_Subset

\* Whoever is gone had expired, has signed out in the browser that held the
\* session, or made room for a session of the same operator.
Blameless ==
    \A k \in DOMAIN sessions \ DOMAIN sessions' :
        \/ Expired(sessions[k])
        \/ \E b \in Browsers : cookie[b] = k /\ cookie'[b] = 0
        \/ /\ Len(admitted') > Len(admitted)
           /\ admitted'[Len(admitted')].who = sessions[k].who

LEMMA RouteIsBlameless ==
  ASSUME TypeOK, WithinBounds, NEW b \in Browsers, RouteStep(b)
  PROVE  Blameless
  <1>1. CASE Login(b) \/ LoginRefused(b) \/ CallbackFails(b)
    BY <1>1 DEF Login, LoginRefused, CallbackFails, Blameless
  <1>2. ASSUME NEW who \in Principals, CallbackDenied(b, who)
        PROVE  Blameless
    BY <1>2 DEF CallbackDenied, Blameless
  <1>3. ASSUME NEW who \in Principals, CallbackFull(b, who)
        PROVE  Blameless
    <2>1. Kept(who) = DOMAIN sessions
      BY <1>3, FullKeepsAll DEF CallbackFull
    <2>2. DOMAIN sessions' = DOMAIN sessions
      BY <1>3, <2>1 DEF CallbackFull, Restrict
    <2>3. QED
      BY <2>2 DEF Blameless
  <1>4. ASSUME NEW who \in Principals, CallbackOk(b, who) \/ CallbackRaises(b, who)
        PROVE  Blameless
    <2> DEFINE sid == Len(admitted) + 1
    <2>1. /\ DOMAIN sessions' = Kept(who) \cup {sid}
          /\ Len(admitted') = sid
          /\ admitted'[sid] = [who |-> who, browser |-> b, flow |-> flowCookie[b]]
      BY <1>4, AdmissionAdds DEF CallbackOk, CallbackRaises
    <2>2. Len(admitted') > Len(admitted) /\ admitted'[Len(admitted')].who = who
      BY <2>1, Counts
    <2>3. ASSUME NEW k \in DOMAIN sessions \ DOMAIN sessions'
          PROVE  Expired(sessions[k]) \/ sessions[k].who = who
      <3>1. k \notin Kept(who)
        BY <2>1, <2>3
      <3>2. k \notin Unexpired \/ k \in Mine(who)
        BY <3>1 DEF Kept, Evicts
      <3>3. QED
        BY <2>3, <3>2 DEF Unexpired, Mine
    <2>4. QED
      BY <2>2, <2>3 DEF Blameless
  <1>5. QED
    BY <1>1, <1>2, <1>3, <1>4 DEF RouteStep

LEMMA PageIsBlameless ==
  ASSUME TypeOK, NEW t \in Pages, PageStep(t)
  PROVE  Blameless
  <1>1. BrowserOf[t] \in Browsers
    BY SignInAssumption
  <1>2. CASE Load(t) \/ Arrives(t) \/ TurnedAway(t) \/ BodyRead(t)
    BY <1>2, GetDrops DEF Load, Arrives, TurnedAway, BodyRead, Blameless
  <1>3. CASE Answered(t) \/ AnsweredReauth(t)
    BY <1>3 DEF Answered, AnsweredReauth, Blameless
  <1>4. CASE SignOut(t)
    BY <1>1, <1>4, SignOutDrops DEF SignOut, Blameless
  <1>5. CASE IdleExpired(t)
    BY <1>1, <1>5, SignOutDrops DEF IdleExpired, Blameless
  <1>6. QED
    BY <1>2, <1>3, <1>4, <1>5 DEF PageStep

\* One operator's sign-ins never sign out another, with stores of any size.  The
\* case that needs the bounds is a sign-in that is refused for want of room: it
\* has already dropped what it would make room with, and that must be nothing.
THEOREM BystandersStay == Spec => NoBystander
  <1>1. TypeOK /\ WithinBounds /\ [Next]_vars => [Blameless]_vars
    <2>1. ASSUME TypeOK, Tick
          PROVE  Blameless
      BY <2>1 DEF Tick, Blameless
    <2>2. QED
      BY <2>1, RouteIsBlameless, PageIsBlameless DEF Next
  <1>2. QED
    BY <1>1, SignInTyped, StoreIsBounded, PTL DEF Spec, NoBystander, Blameless

-------------------------------------------------------------------------------
(* The redemption of flows.                                                *)

\* A flow that opened a session was given to that browser, and is in the store
\* no more; no key is given out twice, so it never will be.
FlowsSpent ==
    \A i \in DOMAIN admitted :
        /\ admitted[i].flow \notin DOMAIN flows
        /\ [browser |-> admitted[i].browser, flow |-> admitted[i].flow] \in away

LEMMA SpentStep == TypeOK /\ FlowsSpent /\ RedeemedOnce /\ [Next]_vars
                      => FlowsSpent' /\ RedeemedOnce'
  <1> SUFFICES ASSUME TypeOK, FlowsSpent, RedeemedOnce, [Next]_vars
               PROVE  FlowsSpent' /\ RedeemedOnce'
    OBVIOUS
  <1>1. \A i \in DOMAIN admitted : admitted[i].flow \in 1..begun
    <2>1. admitted \in Seq(Admission)
      BY TypeParts DEF Typed
    <2>2. \A i \in DOMAIN admitted : admitted[i] \in Admission
      BY <2>1
    <2>3. QED
      BY <2>2 DEF Admission
  <1>2. ASSUME admitted' = admitted, away \subseteq away',
               DOMAIN flows' \subseteq DOMAIN flows \cup {begun + 1}
        PROVE  FlowsSpent' /\ RedeemedOnce'
    BY <1>1, <1>2, Counts DEF FlowsSpent, RedeemedOnce
  <1>3. ASSUME NEW b \in Browsers, NEW who \in Principals, Admits(b, who), away' = away
        PROVE  FlowsSpent' /\ RedeemedOnce'
    <2> DEFINE sid == Len(admitted) + 1
    <2>1. /\ flowCookie[b] \in DOMAIN flows
          /\ [browser |-> b, flow |-> flowCookie[b]] \in away
          /\ DOMAIN flows' \subseteq DOMAIN flows \ {flowCookie[b]}
      BY <1>3, RedemptionTakes DEF Admits
    <2>2. /\ Len(admitted') = sid
          /\ \A k \in 1..Len(admitted) : admitted'[k] = admitted[k]
          /\ admitted'[sid] = [who |-> who, browser |-> b, flow |-> flowCookie[b]]
      BY <1>3, AdmissionAdds
    <2>3. DOMAIN admitted' = DOMAIN admitted \cup {sid} /\ DOMAIN admitted = 1..Len(admitted)
      <3>1. admitted \in Seq([who : Principals, browser : Browsers, flow : 1..begun])
        BY DEF TypeOK
      <3>2. admitted' = Append(admitted, [who |-> who, browser |-> b, flow |-> flowCookie[b]])
        BY <1>3 DEF Admits
      <3>3. QED
        BY <3>1, <3>2
    <2>4. \A i \in DOMAIN admitted : admitted'[i] = admitted[i]
                                   /\ admitted[i].flow # flowCookie[b]
      BY <2>1, <2>2, <2>3 DEF FlowsSpent
    <2>5. admitted'[sid].flow = flowCookie[b] /\ admitted'[sid].browser = b
      BY <2>2
    <2>6. FlowsSpent'
      BY <1>3, <2>1, <2>3, <2>4, <2>5 DEF FlowsSpent
    <2>7. RedeemedOnce'
      BY <1>3, <2>1, <2>3, <2>4, <2>5 DEF FlowsSpent, RedeemedOnce
    <2>8. QED
      BY <2>6, <2>7
  <1>4. CASE UNCHANGED vars
    BY <1>2, <1>4 DEF vars
  <1>5. CASE Tick
    BY <1>2, <1>5 DEF Tick, history, browser
  <1>6. ASSUME NEW t \in Pages, PageStep(t)
        PROVE  FlowsSpent' /\ RedeemedOnce'
    <2>1. admitted' = admitted /\ away' = away /\ flows' = flows
      BY <1>6 DEF PageStep, Load, Arrives, TurnedAway, BodyRead, Answered, AnsweredReauth,
                  SignOut, IdleExpired, history, browser
    <2>2. QED
      BY <1>2, <2>1
  <1>7. ASSUME NEW b \in Browsers, RouteStep(b)
        PROVE  FlowsSpent' /\ RedeemedOnce'
    <2>1. ASSUME NEW who \in Principals, CallbackOk(b, who) \/ CallbackRaises(b, who)
          PROVE  FlowsSpent' /\ RedeemedOnce'
      <3>1. Admits(b, who) /\ away' = away
        BY <2>1 DEF CallbackOk, CallbackRaises, Admits, Redeems, Returns
      <3>2. QED
        BY <1>3, <3>1
    <2>2. CASE Login(b)
      <3>1. DOMAIN flows' \subseteq DOMAIN flows \cup {begun + 1}
        BY <2>2 DEF Login, Pending
      <3>2. QED
        BY <1>2, <2>2, <3>1 DEF Login, history
    <2>3. CASE LoginRefused(b)
      <3>1. DOMAIN flows' \subseteq DOMAIN flows
        BY <2>3 DEF LoginRefused, Pending, Restrict
      <3>2. QED
        BY <1>2, <2>3, <3>1 DEF LoginRefused, history, browser
    <2>4. ASSUME Returns(b), admitted' = admitted
          PROVE  FlowsSpent' /\ RedeemedOnce'
      <3>1. DOMAIN flows' \subseteq DOMAIN flows /\ away' = away
        BY <2>4 DEF Returns, Taken, Pending, Restrict
      <3>2. QED
        BY <1>2, <2>4, <3>1
    <2>5. CASE CallbackFails(b)
      BY <2>4, <2>5 DEF CallbackFails
    <2>6. ASSUME NEW who \in Principals, CallbackDenied(b, who) \/ CallbackFull(b, who)
          PROVE  FlowsSpent' /\ RedeemedOnce'
      BY <2>4, <2>6 DEF CallbackDenied, CallbackFull, Redeems
    <2>7. QED
      BY <1>7, <2>1, <2>2, <2>3, <2>5, <2>6 DEF RouteStep
  <1>8. QED
    BY <1>4, <1>5, <1>6, <1>7 DEF Next

\* However many logins are begun in however many browsers, and however callbacks
\* are replayed, a flow opens one session at most, for the browser it was given to.
THEOREM FlowsOpenOnce == Spec => []RedeemedOnce
  <1>1. Init => FlowsSpent /\ RedeemedOnce
    BY DEF Init, FlowsSpent, RedeemedOnce
  <1>2. QED
    BY <1>1, SpentStep, SignInTyped, PTL DEF Spec

-------------------------------------------------------------------------------
(* What is recorded of a sign-in.                                          *)

\* A session is known by the operator it was admitted for, and so is every
\* record of one.
NamesAgree ==
    /\ \A k \in DOMAIN sessions : sessions[k].who = admitted[k].who
    /\ \A e \in trail : e.out = "ok" => /\ e.sid \in 1..Len(admitted)
                                       /\ e.who = admitted[e.sid].who

CookiesRecorded ==
    \A b \in Browsers :
        cookie[b] # 0 => Entry("sign-in", "ok", cookie[b], admitted[cookie[b]].who) \in trail

LEMMA RecordsNeeded == TypeOK /\ NamesAgree /\ CookiesRecorded => SignInIsRecorded
  BY DEF NamesAgree, CookiesRecorded, SignInIsRecorded

\* A step that admits nobody, adds only true records and hands out no cookie.
LEMMA QuietRecords ==
  ASSUME TypeOK, NamesAgree, CookiesRecorded, Quiet, trail \subseteq trail',
         \A b \in Browsers : cookie'[b] \in {0, cookie[b]},
         \A e \in trail' \ trail :
            e.out = "ok" => e.sid \in 1..Len(admitted) /\ e.who = admitted[e.sid].who
  PROVE  NamesAgree' /\ CookiesRecorded'
  BY DEF NamesAgree, CookiesRecorded, Quiet, OnlyDrops, Entry

LEMMA SignOutRecords ==
  ASSUME TypeOK, NamesAgree, CookiesRecorded, NEW b \in Browsers,
         LoggedOut(b) \/ LogoutRaises(b), UNCHANGED admitted
  PROVE  NamesAgree' /\ CookiesRecorded'
  <1> DEFINE e == Entry("sign-out", "ok", cookie[b], sessions[cookie[b]].who)
  <1>1. Found(cookie[b]) => cookie[b] \in 1..Len(admitted) /\ cookie[b] \in DOMAIN sessions
    BY Counts DEF Found, Unexpired
  <1>2. Found(cookie[b]) => e.sid \in 1..Len(admitted) /\ e.who = admitted[e.sid].who
    BY <1>1 DEF Entry, NamesAgree
  <1>3. trail' = trail \/ (Found(cookie[b]) /\ trail' = trail \cup {e})
    BY DEF LoggedOut, LogoutRaises, Recorded, RecordFails, record
  <1>4. \A c \in Browsers : cookie'[c] \in {0, cookie[c]}
    <2>1. cookie \in [Browsers -> 0..Len(admitted)]
      BY DEF TypeOK
    <2>2. cookie' = cookie \/ cookie' = [cookie EXCEPT ![b] = 0]
      BY DEF LoggedOut, LogoutRaises
    <2>3. QED
      BY <2>1, <2>2
  <1>5. Quiet
    BY SignOutDrops DEF Quiet
  <1>6. QED
    BY <1>2, <1>3, <1>4, <1>5, QuietRecords

LEMMA AdmissionRecords ==
  ASSUME TypeOK, NamesAgree, CookiesRecorded, NEW b \in Browsers, NEW who \in Principals,
         CallbackOk(b, who) \/ CallbackRaises(b, who)
  PROVE  NamesAgree' /\ CookiesRecorded'
  <1> DEFINE sid == Len(admitted) + 1
             e == Entry("sign-in", "ok", sid, who)
  <1>1. /\ DOMAIN sessions' = Kept(who) \cup {sid}
        /\ \A k \in Kept(who) : sessions'[k] = sessions[k]
        /\ sessions'[sid] = [who |-> who, created |-> now, seen |-> now]
        /\ Len(admitted') = sid
        /\ \A k \in 1..Len(admitted) : admitted'[k] = admitted[k]
        /\ admitted'[sid] = [who |-> who, browser |-> b, flow |-> flowCookie[b]]
    BY AdmissionAdds DEF CallbackOk, CallbackRaises
  <1>2. /\ sessions'[sid].who = who /\ admitted'[sid].who = who
        /\ e.sid = sid /\ e.who = who
    BY <1>1 DEF Entry
  <1>3. Kept(who) \subseteq DOMAIN sessions /\ DOMAIN sessions \subseteq 1..Len(admitted)
    BY Counts DEF Kept, Unexpired
  <1>4. trail' \in {trail, trail \cup {e}}
    BY DEF CallbackOk, CallbackRaises, Recorded, RecordFails
  <1>5. NamesAgree'
    <2>1. \A k \in DOMAIN sessions' : sessions'[k].who = admitted'[k].who
      BY <1>1, <1>2, <1>3 DEF NamesAgree
    <2>2. \A x \in trail' : x.out = "ok" => /\ x.sid \in 1..Len(admitted')
                                          /\ x.who = admitted'[x.sid].who
      BY <1>1, <1>2, <1>4, Counts DEF NamesAgree
    <2>3. QED
      BY <2>1, <2>2 DEF NamesAgree
  <1>6. CookiesRecorded'
    <2>1. cookie \in [Browsers -> 0..Len(admitted)]
      BY DEF TypeOK
    <2>2. ASSUME NEW c \in Browsers, cookie'[c] = cookie[c], cookie'[c] # 0
          PROVE  Entry("sign-in", "ok", cookie'[c], admitted'[cookie'[c]].who) \in trail'
      <3>1. cookie[c] \in 1..Len(admitted)
        BY <2>1, <2>2, Counts
      <3>2. QED
        BY <1>1, <1>4, <2>2, <3>1 DEF CookiesRecorded
    <2>3. ASSUME NEW c \in Browsers, cookie'[c] # cookie[c]
          PROVE  cookie'[c] = sid /\ trail' = trail \cup {e}
      BY <2>1, <2>3 DEF CallbackOk, CallbackRaises, Recorded
    <2>4. QED
      BY <1>2, <2>2, <2>3 DEF CookiesRecorded
  <1>7. QED
    BY <1>5, <1>6

LEMMA RecordsStep == TypeOK /\ NamesAgree /\ CookiesRecorded /\ [Next]_vars
                        => NamesAgree' /\ CookiesRecorded'
  <1> SUFFICES ASSUME TypeOK, NamesAgree, CookiesRecorded, [Next]_vars
               PROVE  NamesAgree' /\ CookiesRecorded'
    OBVIOUS
  <1>1. ASSUME Quiet, UNCHANGED <<cookie, trail>>
        PROVE  NamesAgree' /\ CookiesRecorded'
    BY <1>1, QuietRecords
  <1>2. CASE Tick \/ UNCHANGED vars
    BY <1>1, <1>2, NothingDrops DEF Tick, vars, history, browser, record, Quiet
  <1>3. ASSUME NEW t \in Pages, PageStep(t)
        PROVE  NamesAgree' /\ CookiesRecorded'
    <2>1. BrowserOf[t] \in Browsers /\ Quiet
      BY <1>3, PageKinds, SignInAssumption
    <2>2. CASE Load(t) \/ Arrives(t) \/ TurnedAway(t) \/ BodyRead(t) \/ Answered(t)
               \/ AnsweredReauth(t)
      BY <1>1, <2>1, <2>2 DEF Load, Arrives, TurnedAway, BodyRead, Answered, AnsweredReauth,
                              browser, record
    <2>3. CASE SignOut(t)
      BY <2>1, <2>3, SignOutRecords DEF SignOut
    <2>4. CASE IdleExpired(t)
      BY <1>1, <2>1, <2>4, SignOutRecords DEF IdleExpired, record
    <2>5. QED
      BY <1>3, <2>2, <2>3, <2>4 DEF PageStep
  <1>4. ASSUME NEW b \in Browsers, RouteStep(b)
        PROVE  NamesAgree' /\ CookiesRecorded'
    <2>1. CASE Login(b) \/ LoginRefused(b) \/ CallbackFails(b)
      BY <1>1, <2>1, NothingDrops
      DEF Login, LoginRefused, CallbackFails, Returns, history, browser, record, Quiet
    <2>2. ASSUME NEW who \in Principals, CallbackDenied(b, who) \/ CallbackFull(b, who)
          PROVE  NamesAgree' /\ CookiesRecorded'
      <3>1. Quiet
        BY <2>2, NothingDrops, RemovalDrops
        DEF CallbackDenied, CallbackFull, Kept, Unexpired, Quiet
      <3>2. PICK act \in {"refused", "sign-in"} :
                   trail' \in {trail, trail \cup {Entry(act, "denied", 0, who)}}
        BY <2>2 DEF CallbackDenied, CallbackFull, Recorded, RecordFails
      <3>3. Entry(act, "denied", 0, who).out = "denied"
        BY DEF Entry
      <3>4. cookie' = cookie
        BY <2>2 DEF CallbackDenied, CallbackFull
      <3>5. QED
        BY <3>1, <3>2, <3>3, <3>4, QuietRecords
    <2>3. QED
      BY <1>4, <2>1, <2>2, AdmissionRecords DEF RouteStep
  <1>5. QED
    BY <1>2, <1>3, <1>4 DEF Next

\* Whoever holds the cookie of a session has a recorded sign-in under the
\* session's own name, although the record is written after the session is
\* admitted and may fail; and no record claims what was refused.
THEOREM SignInsAreRecorded == Spec => []SignInIsRecorded
  <1>1. Init => NamesAgree /\ CookiesRecorded
    BY DEF Init, NamesAgree, CookiesRecorded
  <1>2. QED
    BY <1>1, RecordsStep, RecordsNeeded, SignInTyped, PTL DEF Spec

-------------------------------------------------------------------------------
(* What a request is served on.                                            *)

\* A session that was signed out of is not in the store, and never again is:
\* ids are not used twice.
GoneForGood == signedOut \cap DOMAIN sessions = {}

LEMMA GoneStep == TypeOK /\ GoneForGood /\ [Next]_vars => GoneForGood'
  <1> SUFFICES ASSUME TypeOK, GoneForGood, [Next]_vars
               PROVE  GoneForGood'
    OBVIOUS
  <1>1. signedOut \subseteq 1..Len(admitted)
    BY DEF TypeOK
  <1>2. ASSUME OnlyDrops, signedOut' = signedOut
        PROVE  GoneForGood'
    BY <1>2 DEF OnlyDrops, GoneForGood
  <1>3. ASSUME NEW b \in Browsers, LoggedOut(b) \/ LogoutRaises(b)
        PROVE  GoneForGood'
    <2>1. CASE LoggedOut(b)
      <3>1. DOMAIN sessions' = DOMAIN sessions \ {cookie[b]}
        BY <2>1 DEF LoggedOut, Restrict
      <3>2. signedOut' \subseteq signedOut \cup {cookie[b]}
        BY <2>1 DEF LoggedOut
      <3>3. QED
        BY <3>1, <3>2 DEF GoneForGood
    <2>2. CASE LogoutRaises(b)
      BY <1>2, <2>2, SignOutDrops DEF LogoutRaises
    <2>3. QED
      BY <1>3, <2>1, <2>2
  <1>4. ASSUME NEW b \in Browsers, NEW who \in Principals,
               CallbackOk(b, who) \/ CallbackRaises(b, who)
        PROVE  GoneForGood'
    <2>1. DOMAIN sessions' = Kept(who) \cup {Len(admitted) + 1}
      BY <1>4, AdmissionAdds DEF CallbackOk, CallbackRaises
    <2>2. Kept(who) \subseteq DOMAIN sessions
      BY DEF Kept, Unexpired
    <2>3. signedOut' = signedOut
      BY <1>4 DEF CallbackOk, CallbackRaises, Admits, Redeems, Returns
    <2>4. Len(admitted) + 1 \notin signedOut
      BY <1>1, Counts
    <2>5. QED
      BY <2>1, <2>2, <2>3, <2>4 DEF GoneForGood
  <1>5. ASSUME NEW t \in Pages, PageStep(t)
        PROVE  GoneForGood'
    <2>1. BrowserOf[t] \in Browsers /\ OnlyDrops
      BY <1>5, PageKinds, SignInAssumption DEF Quiet
    <2>2. signedOut' = signedOut \/ LoggedOut(BrowserOf[t]) \/ LogoutRaises(BrowserOf[t])
      BY <1>5 DEF PageStep, Load, Arrives, TurnedAway, BodyRead, Answered, AnsweredReauth,
                  SignOut, IdleExpired, history
    <2>3. QED
      BY <1>2, <1>3, <2>1, <2>2
  <1>6. CASE Tick \/ UNCHANGED vars
    BY <1>2, <1>6, NothingDrops DEF Tick, vars, history
  <1>7. ASSUME NEW b \in Browsers, RouteStep(b)
        PROVE  GoneForGood'
    <2>1. Quiet => signedOut' = signedOut
      BY <1>7 DEF RouteStep, Login, LoginRefused, CallbackFails, CallbackDenied, CallbackFull,
                  CallbackOk, CallbackRaises, Admits, Redeems, Returns, history
    <2>2. QED
      BY <1>2, <1>4, <1>7, <2>1, RouteKinds DEF Quiet
  <1>8. QED
    BY <1>5, <1>6, <1>7 DEF Next

\* Request t goes from its body to its handler.
Handed(t) == req[t].at = "body" /\ req'[t].at = "handler"

\* Only the second lookup hands a request on, and only on a live session.
LEMMA HandedOnLive ==
  ASSUME TypeOK, [Next]_vars, NEW t \in Pages, Handed(t)
  PROVE  req[t].sid \in DOMAIN sessions /\ ~Expired(sessions[req[t].sid])
  <1>1. req' # req
    BY DEF Handed
  <1>2. PICK u \in Pages : PageStep(u)
    <2>1. \A b \in Browsers : RouteStep(b) => req' = req
      BY DEF RouteStep, Login, LoginRefused, CallbackFails, CallbackDenied, CallbackFull,
             CallbackOk, CallbackRaises, Admits, Redeems, Returns
    <2>2. QED
      BY <1>1, <2>1 DEF Next, Tick, vars
  <1>3. req \in [Pages -> [at : {"none", "body", "handler", "raised"}, sid : 0..Len(admitted)]]
    BY DEF TypeOK
  <1>4. u = t
    BY <1>2, <1>3 DEF Handed, PageStep, Load, Arrives, TurnedAway, BodyRead, Answered,
                      AnsweredReauth, SignOut, IdleExpired
  <1>5. BodyRead(t)
    BY <1>2, <1>3, <1>4 DEF Handed, PageStep, Load, Arrives, TurnedAway, Answered,
                            AnsweredReauth, SignOut, IdleExpired, NoRequest
  <1>6. Found(req[t].sid)
    BY <1>3, <1>5 DEF BodyRead, Handed
  <1>7. QED
    BY <1>6 DEF Found, Unexpired

\* Nothing is handed to a handler on a session that was signed out of while the
\* body arrived.
THEOREM SignedOutIsNotServed == Spec => NotServedAfterSignOut
  <1>1. Init => GoneForGood
    BY DEF Init, GoneForGood
  <1>2. TypeOK /\ GoneForGood /\ [Next]_vars
           => [\A t \in Pages : Handed(t) => req[t].sid \notin signedOut]_vars
    BY HandedOnLive DEF GoneForGood
  <1>3. QED
    BY <1>1, <1>2, GoneStep, SignInTyped, PTL DEF Spec, NotServedAfterSignOut, Handed
===============================================================================
