--------------------------------- MODULE Limits ---------------------------------
(***************************************************************************)
(* The two limiters of web/limits.py: RateLimiter, which lets a caller do  *)
(* so many things in a window of time, and MinInterval, which keeps two    *)
(* reads of one target apart.  Both forget everything when they track too  *)
(* many callers.                                                           *)
(*                                                                         *)
(* Data abstracted: time is counted in units; a caller that is not tracked *)
(* has no events.  Each check holds its limiter's lock from its reading of *)
(* the events to its last write, and the clock it reads first only goes up *)
(* while it waits: it is one step.                                         *)
(***************************************************************************)
EXTENDS Integers, Sequences, FiniteSets

CONSTANTS
    Callers,        \* keys of the rate limiter: operators
    Polls,          \* keys of the poll floor: by whom, and what is polled
    Limit, Window,  \* how many events in how much time
    Floor,          \* least time between two reads
    MaxKeys,        \* callers tracked
    MaxTime         \* bound: the clock

ASSUME LimitsAssumption ==
    /\ {Limit, Window, Floor, MaxKeys, MaxTime} \subseteq Nat
    /\ Limit > 0

VARIABLES
    now,
    tracked,    \* the keys of RateLimiter._events
    events,     \* caller -> the times of its events
    last,       \* poll -> MinInterval._last, or Never
    allowed,    \* history: caller -> when it was allowed, since all was forgotten
    polled      \* history: poll -> when it was allowed, since all was forgotten

rates == <<tracked, events, allowed>>
floors == <<last, polled>>

Never == -1

\* An event is dropped once it is more than the window old.
Stale(t) == now - t > Window

\* The events left once the stale ones are dropped from the front.
Recent(s) ==
    LET k == CHOOSE k \in 1..(Len(s) + 1) :
                /\ \A i \in 1..(k - 1) : Stale(s[i])
                /\ k = Len(s) + 1 \/ ~Stale(s[k])
    IN  SubSeq(s, k, Len(s))

\* _evict_locked: too many keys, so the stale ones go, or else all of them.
TooMany == Cardinality(tracked) > MaxKeys
Live == {c \in tracked : events[c] # <<>> /\ ~Stale(events[c][Len(events[c])])}
Forgets == TooMany /\ Cardinality(Live) > MaxKeys
Kept == IF ~TooMany THEN tracked ELSE IF Forgets THEN {} ELSE Live

\* A slip: a caller is let through once more than the limit.
RefusedLate(s) == Len(s) > Limit

Refused(s) == Len(s) >= Limit

\* What the limiter still knows of c when it checks it.
Mine(c) == Recent(IF c \in Kept THEN events[c] ELSE <<>>)

\* RateLimiter.check(c), with the answer `ok`.
Checks(c, ok) ==
    /\ ok = ~Refused(Mine(c))
    /\ tracked' = Kept \cup {c}
    /\ events' = [d \in Callers |->
                    IF d = c THEN IF ok THEN Append(Mine(c), now) ELSE Mine(c)
                    ELSE IF d \in Kept THEN events[d] ELSE <<>>]
    /\ allowed' = [d \in Callers |->
                     LET before == IF Forgets THEN <<>> ELSE allowed[d]
                     IN  IF d = c /\ ok THEN Append(before, now) ELSE before]

\* MinInterval.check(p), with the answer `ok`.
Spaces(p, ok) ==
    LET full == Cardinality({q \in Polls : last[q] # Never}) > MaxKeys
        kept == IF full THEN [q \in Polls |-> Never] ELSE last
    IN  /\ ok = ~(kept[p] # Never /\ now - kept[p] < Floor)
        /\ last' = IF ok THEN [kept EXCEPT ![p] = now] ELSE kept
        /\ polled' = [q \in Polls |->
                        LET before == IF full THEN <<>> ELSE polled[q]
                        IN  IF q = p /\ ok THEN Append(before, now) ELSE before]

LimitsInit ==
    /\ now = 0
    /\ tracked = {} /\ events = [c \in Callers |-> <<>>]
    /\ last = [p \in Polls |-> Never]
    /\ allowed = [c \in Callers |-> <<>>] /\ polled = [p \in Polls |-> <<>>]

\* In no window is a caller allowed more than the limit, unless everything was
\* forgotten in it: of any Limit + 1 allowances in a row, the last is more than
\* the window later than the first (limits.py:58).  limits.py:19 grants twice
\* the limit across a boundary; the code has no boundary.
WithinLimit ==
    \A c \in Callers : \A i \in 1..(Len(allowed[c]) - Limit) :
        allowed[c][i + Limit] - allowed[c][i] > Window

\* Two reads of one target are let through a floor apart, unless everything was
\* forgotten between them (limits.py POLL_FLOOR_SECONDS).
FloorHolds ==
    \A p \in Polls : \A i \in 1..(Len(polled[p]) - 1) :
        polled[p][i + 1] - polled[p][i] >= Floor
===============================================================================
