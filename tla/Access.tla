--------------------------------- MODULE Access ---------------------------------
(***************************************************************************)
(* An API request on its way to Graph: the rate limit and the poll floor   *)
(* (web/app.py api), the token of the operator's session                   *)
(* (auth/desktop.py, over MSAL), the assertion a hosted server redeems it  *)
(* with (auth/managed_identity.py), and the request itself with its one    *)
(* retry after a claims challenge (graph/client.py).                       *)
(*                                                                         *)
(* Handlers run in a threadpool: two requests of one session ask for a     *)
(* token at once, and the provider's lock orders them.                     *)
(*                                                                         *)
(* Data abstracted: an operator has one session; a token is the number of  *)
(* its redemption and its expiry.  What Graph, Entra and the identity      *)
(* endpoint answer is anything they may answer.                            *)
(***************************************************************************)
EXTENDS Limits

CONSTANTS
    Asking,         \* the callers whose requests go on to Graph
    Threads,        \* of the pool
    Free,           \* the lock of a provider that nobody holds
    Lifetime,       \* of an access token
    Skew,           \* _EXPIRY_SKEW_SECONDS
    IdentityLives,  \* how long the identity's tokens may live
    MaxRequests     \* bound: requests allowed

ASSUME AccessAssumption ==
    /\ {Lifetime, Skew, MaxRequests} \subseteq Nat /\ IdentityLives \subseteq Nat
    /\ Free \notin Threads
    /\ Asking \subseteq Callers
    /\ \A p \in Polls : p[1] \in Callers

VARIABLES
    thread,     \* thread -> the request it serves
    lock,       \* operator -> who holds the lock of its provider
    cache,      \* operator -> its access token
    redeemed,   \* history: operator -> when each of its tokens was redeemed, and why
    identity,   \* operator -> the assertion that is cached: its expiry as believed
                \* and as it is, when it was minted, and whether the endpoint's
                \* expires_on could be read
    requests    \* bound used up

tokens == <<lock, cache, redeemed, identity>>
vars == <<now, rates, floors, thread, tokens, requests>>

NoPoll == <<>>

NoAssertion == [believed |-> 0, expires |-> 0, minted |-> 0, readable |-> TRUE]

Idle == [pc |-> "idle", op |-> Free, claims |-> FALSE, retried |-> FALSE,
         token |-> 0, refused |-> 0, sends |-> 0, asked |-> 0, asserted |-> NoAssertion]

Goes(th, t) == thread' = [thread EXCEPT ![th] = t]
At(th, pc) == thread[th].pc = pc
Op(th) == thread[th].op

-------------------------------------------------------------------------------
\* A request comes in; the rate limiter refuses it.
Limited(c) ==
    /\ Checks(c, FALSE)
    /\ UNCHANGED <<now, floors, thread, tokens, requests>>

Counts == requests < MaxRequests /\ requests' = requests + 1

\* It is let through, and so by the poll floor if what it asks for is polled.
Passes(c, p) ==
    /\ Checks(c, TRUE)
    /\ IF p = NoPoll THEN UNCHANGED floors ELSE p[1] = c /\ Spaces(p, TRUE)
    /\ Counts

\* The handler runs in a thread and asks for a token.
Arrives(th, c, p) ==
    /\ c \in Asking /\ At(th, "idle")
    /\ Passes(c, p)
    /\ Goes(th, [Idle EXCEPT !.pc = "wants", !.op = c])
    /\ UNCHANGED <<now, tokens>>

\* The handler needs no token (a template, who one is), or answers from the
\* read cache.
Local(c, p) ==
    /\ Passes(c, p)
    /\ UNCHANGED <<now, thread, tokens>>

\* The poll floor refuses it, and the limiter has counted it.
TooSoon(p) ==
    /\ Checks(p[1], TRUE)
    /\ Spaces(p, FALSE)
    /\ Counts
    /\ UNCHANGED <<now, thread, tokens>>

-------------------------------------------------------------------------------
(* get_token: with self._lock, MSAL's silent acquisition.                  *)

\* A slip: the provider has no lock.
NoLock(th) == TRUE

Unlocked(th) == lock[Op(th)] = Free

\* The cached token is served while it lives, unless claims are asked for.
Servable(th) == cache[Op(th)].expires > now /\ ~thread[th].claims

\* The token goes out with the request to Graph, and no assertion is held any more.
Sends(th, n) ==
    Goes(th, [thread[th] EXCEPT !.pc = "sent", !.token = n, !.sends = @ + 1,
                                !.asked = 0, !.asserted = NoAssertion])

Cached(th) ==
    /\ At(th, "wants") /\ Unlocked(th) /\ Servable(th)
    /\ Sends(th, cache[Op(th)].n)
    /\ UNCHANGED <<now, rates, floors, tokens, requests>>

Misses(th) ==
    /\ At(th, "wants") /\ Unlocked(th) /\ ~Servable(th)
    /\ lock' = [lock EXCEPT ![Op(th)] = th]
    /\ Goes(th, [thread[th] EXCEPT !.pc = "asserts"])
    /\ UNCHANGED <<now, rates, floors, cache, redeemed, identity, requests>>

LetsGo(th) == lock' = [lock EXCEPT ![Op(th)] = Free]

\* A slip: a lifetime is guessed that is far in the future.
BelievedFar(expires, readable) == IF readable THEN expires ELSE now + 2 * Skew + Lifetime

\* _parse: what is believed of a new token's expiry.
Believed(expires, readable) == IF readable THEN expires ELSE now + 2 * Skew

\* _mint: a token of any life is taken, and its expires_on may be unreadable.
Minted(life, readable) ==
    [believed |-> Believed(now + life, readable), expires |-> now + life,
     minted |-> now, readable |-> readable]

\* ManagedIdentityToken.__call__: the cached assertion, or a new one.
Asserts(th) ==
    LET c == Op(th)
        given(a) == [thread[th] EXCEPT !.pc = "redeems", !.asked = now, !.asserted = a]
        serves == now < identity[c].believed - Skew
    IN  /\ At(th, "asserts")
        /\ \/ serves /\ UNCHANGED identity /\ Goes(th, given(identity[c]))
           \/ /\ ~serves
              /\ \E life \in IdentityLives, readable \in BOOLEAN :
                    /\ identity' = [identity EXCEPT ![c] = Minted(life, readable)]
                    /\ Goes(th, given(Minted(life, readable)))
        /\ UNCHANGED <<now, rates, floors, lock, cache, redeemed, requests>>

\* Entra redeems the refresh token.
Redeems(th) ==
    LET c == Op(th)
        n == Len(redeemed[c]) + 1
    IN  /\ At(th, "redeems")
        /\ cache' = [cache EXCEPT ![c] = [n |-> n, expires |-> now + Lifetime]]
        /\ redeemed' = [redeemed EXCEPT ![c] =
              Append(@, [at |-> now, claims |-> thread[th].claims])]
        /\ LetsGo(th)
        /\ Sends(th, n)
        /\ UNCHANGED <<now, rates, floors, identity, requests>>

\* No assertion, or Entra refuses: ReauthRequired or ClaimsChallenge.
AcquireFails(th) ==
    /\ At(th, "asserts") \/ At(th, "redeems")
    /\ LetsGo(th)
    /\ Goes(th, Idle)
    /\ UNCHANGED <<now, rates, floors, cache, redeemed, identity, requests>>

-------------------------------------------------------------------------------
(* GraphClient.request.                                                    *)

\* An answer that ends the request: anything but a 401 with a challenge, or
\* none at all.
Answered(th) ==
    /\ At(th, "sent")
    /\ Goes(th, Idle)
    /\ UNCHANGED <<now, rates, floors, tokens, requests>>

\* A slip: a challenge is always worth a try.
AlwaysRetries(th) == TRUE

Retries(th) == ~thread[th].retried

\* A claims challenge: once more, with a token for the claims; the second is
\* raised as ClaimsChallenge.
Challenged(th) ==
    /\ At(th, "sent")
    /\ Goes(th, IF Retries(th)
                THEN [thread[th] EXCEPT !.pc = "wants", !.claims = TRUE,
                                        !.retried = TRUE, !.refused = thread[th].token]
                ELSE Idle)
    /\ UNCHANGED <<now, rates, floors, tokens, requests>>

Tick ==
    /\ now < MaxTime
    /\ now' = now + 1
    /\ UNCHANGED <<rates, floors, thread, tokens, requests>>

-------------------------------------------------------------------------------
Init ==
    /\ LimitsInit
    /\ thread = [th \in Threads |-> Idle]
    /\ lock = [c \in Callers |-> Free]
    /\ cache = [c \in Callers |-> [n |-> 1, expires |-> Lifetime]]
    /\ redeemed = [c \in Callers |-> <<[at |-> 0, claims |-> FALSE]>>]
    /\ identity = [c \in Callers |-> NoAssertion]
    /\ requests = 0

Acts(th) ==
    \/ Cached(th) \/ Misses(th) \/ Asserts(th) \/ Redeems(th) \/ AcquireFails(th)
    \/ Answered(th) \/ Challenged(th)

Next ==
    \/ \E c \in Callers : Limited(c)
    \/ \E p \in Polls : TooSoon(p)
    \/ \E c \in Callers, p \in Polls \cup {NoPoll} :
          Local(c, p) \/ \E th \in Threads : Arrives(th, c, p)
    \/ \E th \in Threads : Acts(th)
    \/ Tick

Spec == Init /\ [][Next]_vars

-------------------------------------------------------------------------------
\* A refresh token is redeemed for an access token that has expired, or for a
\* challenge, and not twice for one expiry, however many requests find the
\* token expired at once (desktop.py:41).
OnePerExpiry ==
    \A c \in Callers : \A i \in 2..Len(redeemed[c]) :
        redeemed[c][i].claims \/ redeemed[c][i].at >= redeemed[c][i - 1].at + Lifetime

\* A request goes to Graph at most twice, and the second time with a token that
\* was redeemed after the one that was refused (graph/client.py:116).
RetriedOnceAndFresh ==
    \A th \in Threads :
        /\ thread[th].sends <= 2
        /\ At(th, "sent") /\ thread[th].sends = 2 =>
              /\ thread[th].claims
              /\ thread[th].token > thread[th].refused

\* Assertion a as it is given to Entra at time t.
HasLife(a, t) ==
    \/ t = a.minted
    \/ a.expires - t > Skew
    \/ ~a.readable /\ a.expires - a.minted < 2 * Skew

\* An assertion that is given to Entra again later has more than the skew left of
\* its life (managed_identity.py:62), also when the expires_on that came with it
\* could not be read, if it had twice the skew to live then.  One that is given
\* as it was minted has whatever life the endpoint gave it.
AssertionLives ==
    \A th \in Threads : At(th, "redeems") => HasLife(thread[th].asserted, thread[th].asked)
===============================================================================
