------------------------------ MODULE AccessProofs ------------------------------
(***************************************************************************)
(* The rate limit holds in every window, for every limit, window and       *)
(* number of callers, however the requests fall in time; reads of one      *)
(* target are a floor apart; and Entra is given an assertion that lives.   *)
(***************************************************************************)
EXTENDS Access, TLAPS, WellFoundedInduction

Times == Seq(Int)

LEMMA LeastNat == ASSUME NEW T \in SUBSET Nat, T # {}
                  PROVE  \E n \in T : \A m \in T : n <= m
<1>1. PICK n \in T : \A m \in T : ~(<<m, n>> \in OpToRel(<, Nat))
  BY WFMin, NatLessThanWellFounded
<1>2. \A m \in T : ~(m < n) BY <1>1 DEF OpToRel
<1> QED BY <1>2

LEMMA RecentIs ==
    ASSUME NEW s \in Times, now \in Int
    PROVE  \E k \in 1..(Len(s) + 1) :
             /\ Recent(s) = SubSeq(s, k, Len(s))
             /\ \A i \in 1..(k - 1) : Stale(s[i])
             /\ k = Len(s) + 1 \/ ~Stale(s[k])
<1> DEFINE T == {k \in 1..(Len(s) + 1) : k = Len(s) + 1 \/ ~Stale(s[k])}
<1>1. Len(s) \in Nat BY DEF Times
<1>2. Len(s) + 1 \in T /\ T \subseteq Nat BY <1>1
<1>3. PICK k \in T : \A m \in T : k <= m BY <1>2, LeastNat
<1>4. k \in 1..(Len(s) + 1) /\ (k = Len(s) + 1 \/ ~Stale(s[k])) BY <1>3
<1>5. ASSUME NEW i \in 1..(k - 1) PROVE Stale(s[i])
  <2>1. i \in 1..(Len(s) + 1) /\ i < k /\ k \in Nat BY <1>4, <1>1
  <2>2. i \notin T BY <2>1, <1>3, <1>2
  <2> QED BY <2>1, <2>2
<1>6. \E j \in 1..(Len(s) + 1) : /\ \A i \in 1..(j - 1) : Stale(s[i])
                                 /\ j = Len(s) + 1 \/ ~Stale(s[j])
  BY <1>4, <1>5
<1> QED BY <1>6 DEF Recent

-------------------------------------------------------------------------------
\* The events e are the last of the allowances a, and those before them are
\* more than the window old at time t.
IsTail(e, a, t) ==
    /\ Len(e) <= Len(a)
    /\ \A j \in 1..Len(e) : e[j] = a[Len(a) - Len(e) + j]
    /\ \A i \in 1..(Len(a) - Len(e)) : t - a[i] > Window

Apart(a) == \A i \in 1..(Len(a) - Limit) : a[i + Limit] - a[i] > Window

OrderedUpTo(a, t) ==
    /\ \A i, j \in 1..Len(a) : i <= j => a[i] <= a[j]
    /\ \A i \in 1..Len(a) : a[i] <= t

LTypes ==
    /\ now \in Int
    /\ events \in [Callers -> Times]
    /\ allowed \in [Callers -> Times]

LInv ==
    /\ LTypes
    /\ \A c \in Callers :
          /\ c \notin tracked => events[c] = <<>>
          /\ IsTail(events[c], allowed[c], now)
          /\ OrderedUpTo(allowed[c], now)
          /\ Apart(allowed[c])

LEMMA Consts == Limit \in Nat /\ Window \in Nat /\ Limit > 0
BY LimitsAssumption

LEMMA EmptyTail ==
    ASSUME NEW t \in Int
    PROVE  IsTail(<<>>, <<>>, t) /\ OrderedUpTo(<<>>, t) /\ Apart(<<>>)
BY Consts DEF IsTail, OrderedUpTo, Apart

\* Dropping the stale events leaves a tail.
LEMMA RecentTail ==
    ASSUME NEW e \in Times, NEW a \in Times, now \in Int, IsTail(e, a, now)
    PROVE  Recent(e) \in Times /\ IsTail(Recent(e), a, now)
<1>1. PICK k \in 1..(Len(e) + 1) : /\ Recent(e) = SubSeq(e, k, Len(e))
                                   /\ \A i \in 1..(k - 1) : Stale(e[i])
  BY RecentIs
<1> DEFINE r == Recent(e)
           m == Len(a) - Len(e)
<1>2. Len(e) \in Nat /\ Len(a) \in Nat /\ k \in Nat /\ m \in Nat /\ k <= Len(e) + 1
  BY DEF Times, IsTail
<1>3. r \in Times /\ Len(r) = Len(e) - k + 1
  BY <1>1, <1>2 DEF Times
<1>4. ASSUME NEW j \in 1..Len(r) PROVE r[j] = a[Len(a) - Len(r) + j]
  <2>1. r[j] = e[k + j - 1]
    <3>1. j \in 1..(Len(e) - k + 1) BY <1>3
    <3>2. SubSeq(e, k, Len(e))[j] = e[k + j - 1] BY <3>1, <1>2 DEF Times
    <3> QED BY <3>2, <1>1
  <2>2. k + j - 1 \in 1..Len(e) BY <1>2, <1>3
  <2>3. e[k + j - 1] = a[m + (k + j - 1)] BY <2>2 DEF IsTail
  <2>4. m + (k + j - 1) = Len(a) - Len(r) + j BY <1>2, <1>3
  <2> QED BY <2>1, <2>3, <2>4
<1>5. ASSUME NEW i \in 1..(Len(a) - Len(r)) PROVE now - a[i] > Window
  <2>1. CASE i <= m BY <2>1, <1>2, <1>3 DEF IsTail
  <2>2. CASE i > m
    <3>1. i - m \in 1..(k - 1) BY <2>2, <1>2, <1>3
    <3>2. Stale(e[i - m]) BY <3>1, <1>1
    <3>3. e[i - m] = a[m + (i - m)] BY <3>1, <1>2 DEF IsTail
    <3>4. m + (i - m) = i BY <1>2, <1>3
    <3> QED BY <3>2, <3>3, <3>4 DEF Stale
  <2> QED BY <2>1, <2>2, <1>2, <1>3
<1>6. Len(r) <= Len(a) BY <1>2, <1>3
<1> QED BY <1>3, <1>4, <1>5, <1>6 DEF IsTail

\* An allowance is added to both.
LEMMA TailGrows ==
    ASSUME NEW e \in Times, NEW a \in Times, NEW t \in Int, IsTail(e, a, t)
    PROVE  IsTail(Append(e, t), Append(a, t), t)
<1> DEFINE f == Append(e, t)
           b == Append(a, t)
<1>1. Len(f) = Len(e) + 1 /\ Len(b) = Len(a) + 1 /\ Len(e) \in Nat /\ Len(a) \in Nat
      /\ Len(e) <= Len(a)
  BY DEF Times, IsTail
<1>2. \A j \in 1..Len(e) : f[j] = e[j] BY DEF Times
<1>3. \A j \in 1..Len(a) : b[j] = a[j] BY DEF Times
<1>4. f[Len(e) + 1] = t /\ b[Len(a) + 1] = t BY DEF Times
<1> HIDE DEF f, b
<1>5. ASSUME NEW j \in 1..Len(f) PROVE f[j] = b[Len(b) - Len(f) + j]
  <2>1. CASE j = Len(f) BY <2>1, <1>1, <1>4
  <2>2. CASE j # Len(f)
    <3>1. j \in 1..Len(e) /\ Len(a) - Len(e) + j \in 1..Len(a) BY <2>2, <1>1
    <3>2. e[j] = a[Len(a) - Len(e) + j] BY <3>1 DEF IsTail
    <3>3. Len(b) - Len(f) + j = Len(a) - Len(e) + j BY <1>1
    <3> QED BY <3>1, <3>2, <3>3, <1>2, <1>3
  <2> QED BY <2>1, <2>2
<1>6. ASSUME NEW i \in 1..(Len(b) - Len(f)) PROVE t - b[i] > Window
  <2>1. i \in 1..(Len(a) - Len(e)) /\ i \in 1..Len(a) BY <1>1
  <2> QED BY <2>1, <1>3 DEF IsTail
<1>7. IsTail(f, b, t) BY <1>1, <1>5, <1>6 DEF IsTail
<1> QED BY <1>7 DEF f, b

\* Fewer events than the limit: the allowance a limit before is too old.
LEMMA ApartGrows ==
    ASSUME NEW e \in Times, NEW a \in Times, NEW t \in Int, IsTail(e, a, t),
           OrderedUpTo(a, t), Apart(a), Len(e) < Limit
    PROVE  Apart(Append(a, t)) /\ OrderedUpTo(Append(a, t), t)
<1> DEFINE b == Append(a, t)
<1>1. Len(b) = Len(a) + 1 /\ Len(e) \in Nat /\ Len(a) \in Nat /\ Len(e) <= Len(a)
  BY DEF Times, IsTail
<1>2. \A j \in 1..Len(a) : b[j] = a[j] /\ a[j] \in Int BY DEF Times
<1>3. b[Len(a) + 1] = t BY DEF Times
<1> HIDE DEF b
<1>4. ASSUME NEW i \in 1..(Len(b) - Limit) PROVE b[i + Limit] - b[i] > Window
  <2>1. CASE i + Limit = Len(a) + 1
    <3>1. i \in 1..(Len(a) - Len(e)) /\ i \in 1..Len(a) BY <2>1, <1>1, Consts
    <3>2. t - a[i] > Window BY <3>1 DEF IsTail
    <3> QED BY <2>1, <3>1, <3>2, <1>2, <1>3
  <2>2. CASE i + Limit # Len(a) + 1
    <3>1. i \in 1..(Len(a) - Limit) /\ i \in 1..Len(a) /\ i + Limit \in 1..Len(a)
      BY <2>2, <1>1, Consts
    <3> QED BY <3>1, <1>2 DEF Apart
  <2> QED BY <2>1, <2>2
<1>5. Apart(b) BY <1>4 DEF Apart
<1>6. ASSUME NEW i \in 1..Len(b), NEW j \in 1..Len(b), i <= j
      PROVE  b[i] <= b[j] /\ b[j] <= t
  BY <1>1, <1>2, <1>3, <1>6 DEF OrderedUpTo
<1>7. OrderedUpTo(b, t) BY <1>6, <1>1 DEF OrderedUpTo
<1> QED BY <1>5, <1>7 DEF b

-------------------------------------------------------------------------------
\* What the limiter keeps of a caller, when it does not forget everything.
LEMMA KeptTail ==
    ASSUME LInv, NEW c \in Callers, ~Forgets
    PROVE  /\ (IF c \in Kept THEN events[c] ELSE <<>>) \in Times
           /\ IsTail(IF c \in Kept THEN events[c] ELSE <<>>, allowed[c], now)
<1> DEFINE a == allowed[c]
           e == events[c]
<1>1. now \in Int /\ a \in Times /\ e \in Times /\ <<>> \in Times
      /\ IsTail(e, a, now) /\ OrderedUpTo(a, now)
  BY DEF LInv, LTypes, Times
<1>2. CASE c \in Kept BY <1>1, <1>2
<1>3. CASE c \notin Kept
  <2>1. e = <<>> \/ (e # <<>> /\ Stale(e[Len(e)]))
    BY <1>3 DEF Kept, Live, LInv
  <2>2. Len(a) \in Nat /\ Len(e) \in Nat BY <1>1 DEF Times
  <2>3. ASSUME NEW i \in 1..Len(a) PROVE now - a[i] > Window
    <3>1. CASE e = <<>>
      <4>1. Len(e) = 0 BY <3>1
      <4> QED BY <4>1, <1>1, <2>2 DEF IsTail
    <3>2. CASE e # <<>> /\ Stale(e[Len(e)])
      <4>1. Len(e) \in 1..Len(e) /\ Len(a) \in 1..Len(a) BY <3>2, <2>2, <1>1 DEF Times, IsTail
      <4>2. e[Len(e)] = a[Len(a) - Len(e) + Len(e)] BY <4>1, <1>1 DEF IsTail
      <4>3. e[Len(e)] = a[Len(a)] BY <4>2, <2>2
      <4>4. a[i] <= a[Len(a)] BY <4>1, <2>2, <1>1 DEF OrderedUpTo
      <4>5. a[i] \in Int /\ a[Len(a)] \in Int BY <4>1, <1>1 DEF Times
      <4> QED BY <3>2, <4>3, <4>4, <4>5, <1>1, Consts DEF Stale
    <3> QED BY <2>1, <3>1, <3>2
  <2>4. IsTail(<<>>, a, now) BY <2>2, <2>3 DEF IsTail
  <2> QED BY <1>1, <1>3, <2>4
<1> QED BY <1>2, <1>3

\* One check of the rate limiter.
LEMMA ChecksKeeps ==
    ASSUME LInv, NEW c \in Callers, NEW ok \in BOOLEAN, Checks(c, ok), now' = now
    PROVE  LInv'
<1> DEFINE kept(d) == IF d \in Kept THEN events[d] ELSE <<>>
           before(d) == IF Forgets THEN <<>> ELSE allowed[d]
<1>1. now \in Int /\ Forgets \in BOOLEAN BY DEF LInv, LTypes, Forgets, TooMany
<1>2. ASSUME NEW d \in Callers
      PROVE  /\ kept(d) \in Times /\ before(d) \in Times
             /\ IsTail(kept(d), before(d), now)
             /\ OrderedUpTo(before(d), now) /\ Apart(before(d))
  <2>1. CASE Forgets
    <3>1. kept(d) = <<>> /\ before(d) = <<>> BY <2>1 DEF Kept, Forgets
    <3>2. <<>> \in Times BY DEF Times
    <3>3. IsTail(<<>>, <<>>, now) /\ OrderedUpTo(<<>>, now) /\ Apart(<<>>)
      BY <1>1, EmptyTail
    <3> HIDE DEF kept, before
    <3> QED BY <3>1, <3>2, <3>3
  <2>2. CASE ~Forgets BY <2>2, KeptTail DEF LInv, LTypes
  <2> QED BY <2>1, <2>2
<1>3. Mine(c) = Recent(kept(c)) BY DEF Mine
<1>4. Mine(c) \in Times /\ IsTail(Mine(c), before(c), now)
  BY <1>1, <1>2, <1>3, RecentTail
<1>5. tracked' = Kept \cup {c}
      /\ events' = [d \in Callers |->
                    IF d = c THEN IF ok THEN Append(Mine(c), now) ELSE Mine(c)
                    ELSE kept(d)]
      /\ allowed' = [d \in Callers |->
                       IF d = c /\ ok THEN Append(before(d), now) ELSE before(d)]
      /\ (ok = ~Refused(Mine(c)))
  BY DEF Checks
<1> HIDE DEF kept, before
<1>6. ASSUME NEW d \in Callers
      PROVE  /\ events'[d] \in Times /\ allowed'[d] \in Times
             /\ IsTail(events'[d], allowed'[d], now)
             /\ OrderedUpTo(allowed'[d], now)
             /\ Apart(allowed'[d])
  <2>1. CASE d = c /\ ok
    <3>1. events'[d] = Append(Mine(c), now) /\ allowed'[d] = Append(before(c), now)
      BY <2>1, <1>5
    <3>2. Len(Mine(c)) < Limit
      <4>1. ~(Len(Mine(c)) >= Limit) BY <2>1, <1>5 DEF Refused
      <4>2. Len(Mine(c)) \in Nat BY <1>4 DEF Times
      <4> QED BY <4>1, <4>2, Consts
    <3>3. IsTail(Append(Mine(c), now), Append(before(c), now), now)
      BY <1>1, <1>2, <1>4, TailGrows
    <3>4. Apart(Append(before(c), now)) /\ OrderedUpTo(Append(before(c), now), now)
      BY <1>1, <1>2, <1>4, <3>2, ApartGrows
    <3>5. Append(Mine(c), now) \in Times /\ Append(before(c), now) \in Times
      BY <1>1, <1>2, <1>4 DEF Times
    <3> QED BY <2>1, <3>1, <3>3, <3>4, <3>5
  <2>2. CASE d = c /\ ~ok
    <3>1. events'[d] = Mine(c) /\ allowed'[d] = before(c) BY <2>2, <1>5
    <3> QED BY <3>1, <1>2, <1>4
  <2>3. CASE d # c
    <3>1. events'[d] = kept(d) /\ allowed'[d] = before(d) BY <2>3, <1>5
    <3> QED BY <3>1, <1>2
  <2> QED BY <2>1, <2>2, <2>3
<1>7. events' = [d \in Callers |-> events'[d]] /\ allowed' = [d \in Callers |-> allowed'[d]]
  BY <1>5
<1>8. events' \in [Callers -> Times] /\ allowed' \in [Callers -> Times]
  BY <1>6, <1>7
<1>9. \A d \in Callers : d \notin tracked' => events'[d] = <<>>
  BY <1>5 DEF kept
<1> QED BY <1>1, <1>6, <1>8, <1>9 DEF LInv, LTypes

LEMMA TickKeeps == ASSUME LInv, Tick PROVE LInv'
<1>1. now' = now + 1 /\ UNCHANGED <<tracked, events, allowed>> BY DEF Tick, rates
<1>2. now \in Int /\ now' \in Int BY <1>1 DEF LInv, LTypes
<1>3. ASSUME NEW c \in Callers
      PROVE  IsTail(events[c], allowed[c], now') /\ OrderedUpTo(allowed[c], now')
  <2> DEFINE a == allowed[c]
  <2>1. IsTail(events[c], a, now) /\ OrderedUpTo(a, now) /\ a \in Times /\ events[c] \in Times
    BY DEF LInv, LTypes
  <2>2. Len(a) \in Nat /\ Len(events[c]) \in Nat /\ \A i \in 1..Len(a) : a[i] \in Int
    BY <2>1 DEF Times
  <2> HIDE DEF a
  <2>3. ASSUME NEW i \in 1..(Len(a) - Len(events[c])) PROVE now' - a[i] > Window
    <3>1. i \in 1..Len(a) BY <2>2
    <3> QED BY <3>1, <2>1, <2>2, <1>1, <1>2, Consts DEF IsTail
  <2>4. \A i \in 1..Len(a) : a[i] <= now'
    BY <2>1, <2>2, <1>1, <1>2 DEF OrderedUpTo
  <2>5. IsTail(events[c], a, now') BY <2>1, <2>3 DEF IsTail
  <2>6. OrderedUpTo(a, now') BY <2>1, <2>4 DEF OrderedUpTo
  <2> QED BY <2>5, <2>6 DEF a
<1> QED BY <1>1, <1>2, <1>3 DEF LInv, LTypes

LEMMA LStep == LInv /\ [Next]_vars => LInv'
<1> SUFFICES ASSUME LInv, [Next]_vars PROVE LInv' OBVIOUS
<1>1. ASSUME NEW c \in Callers, NEW ok \in BOOLEAN, Checks(c, ok), now' = now PROVE LInv'
  BY <1>1, ChecksKeeps
<1>2. ASSUME UNCHANGED <<now, rates>> PROVE LInv'
  BY <1>2 DEF rates, LInv, LTypes
<1>3. ASSUME NEW c \in Callers, Limited(c) PROVE LInv' BY <1>1, <1>3 DEF Limited
<1>4. ASSUME NEW p \in Polls, TooSoon(p) PROVE LInv'
  BY <1>1, <1>4, AccessAssumption DEF TooSoon
<1>5. ASSUME NEW c \in Callers, NEW p, NEW th,
             Local(c, p) \/ Arrives(th, c, p)
      PROVE  LInv'
  BY <1>1, <1>5 DEF Local, Arrives, Passes
<1>6. ASSUME NEW th \in Threads, Acts(th) PROVE LInv'
  BY <1>2, <1>6 DEF Acts, Cached, Misses, Asserts, Redeems, AcquireFails, Answered,
                    Challenged
<1>7. CASE Tick BY <1>7, TickKeeps
<1>8. CASE UNCHANGED vars BY <1>8, <1>2 DEF vars
<1> QED BY <1>3, <1>4, <1>5, <1>6, <1>7, <1>8 DEF Next

LEMMA LInit == Init => LInv
<1> SUFFICES ASSUME Init PROVE LInv OBVIOUS
<1>1. /\ now = 0 /\ events = [c \in Callers |-> <<>>]
      /\ allowed = [c \in Callers |-> <<>>]
  BY DEF Init, LimitsInit
<1>2. \A c \in Callers : /\ IsTail(<<>>, <<>>, now) /\ OrderedUpTo(<<>>, now)
                         /\ Apart(<<>>)
  BY <1>1, EmptyTail
<1> QED BY <1>1, <1>2 DEF LInv, LTypes, Times

\* No caller is ever let through more often than the limit in a window, for any
\* limit, window and number of callers, unless the limiter has forgotten all of
\* them in between (limits.py:58).
THEOREM RateIsLimited == Spec => []WithinLimit
<1>1. LInv => WithinLimit BY DEF LInv, WithinLimit, Apart
<1> QED BY <1>1, LInit, LStep, PTL DEF Spec

-------------------------------------------------------------------------------
(* The poll floor.                                                         *)

Spaced(s) == \A i \in 1..(Len(s) - 1) : s[i + 1] - s[i] >= Floor

\* What the floor knows of a target is its last allowance since all was forgotten.
Remembers(l, s) == s # <<>> => l # Never /\ l = s[Len(s)]

FInv ==
    /\ now \in Nat
    /\ last \in [Polls -> Int] /\ polled \in [Polls -> Times]
    /\ \A p \in Polls : Remembers(last[p], polled[p]) /\ Spaced(polled[p])

LEMMA SpacesKeeps ==
    ASSUME FInv, NEW p \in Polls, NEW ok \in BOOLEAN, Spaces(p, ok), now' = now
    PROVE  FInv'
<1> DEFINE full == Cardinality({q \in Polls : last[q] # Never}) > MaxKeys
           kept == IF full THEN [q \in Polls |-> Never] ELSE last
           before(q) == IF full THEN <<>> ELSE polled[q]
<1>1. ASSUME NEW q \in Polls
      PROVE  /\ kept[q] \in Int /\ before(q) \in Times
             /\ Remembers(kept[q], before(q)) /\ Spaced(before(q))
  <2>1. CASE full
    BY <2>1 DEF Remembers, Spaced, Times, Never
  <2>2. CASE ~full
    BY <2>2 DEF FInv
  <2> QED BY <2>1, <2>2
<1>2. /\ ok = ~(kept[p] # Never /\ now - kept[p] < Floor)
      /\ last' = IF ok THEN [kept EXCEPT ![p] = now] ELSE kept
      /\ polled' = [q \in Polls |-> IF q = p /\ ok THEN Append(before(q), now) ELSE before(q)]
  BY DEF Spaces
<1>3. kept \in [Polls -> Int] BY <1>1 DEF FInv
<1>4. now \in Nat /\ Floor \in Nat BY LimitsAssumption DEF FInv
<1> HIDE DEF full, kept, before
<1>5. ASSUME NEW q \in Polls
      PROVE  /\ last'[q] \in Int /\ polled'[q] \in Times
             /\ Remembers(last'[q], polled'[q]) /\ Spaced(polled'[q])
  <2>1. CASE q = p /\ ok
    <3> DEFINE s == before(p)
               b == Append(s, now)
    <3>1. last'[q] = now /\ polled'[q] = b BY <2>1, <1>2, <1>3
    <3>2. s \in Times /\ Len(s) \in Nat /\ Spaced(s) /\ Remembers(kept[p], s)
      BY <1>1 DEF Times
    <3>3. /\ b \in Times /\ b # <<>> /\ Len(b) = Len(s) + 1 /\ b[Len(s) + 1] = now
          /\ \A j \in 1..Len(s) : b[j] = s[j]
      BY <3>2, <1>4 DEF Times
    <3> HIDE DEF s, b
    <3>4. ASSUME NEW i \in 1..(Len(b) - 1) PROVE b[i + 1] - b[i] >= Floor
      <4>1. CASE i = Len(s)
        <5>1. s # <<>> /\ i \in 1..Len(s) BY <4>1, <3>2, <3>3
        <5>2. kept[p] # Never /\ kept[p] = s[Len(s)] BY <5>1, <3>2 DEF Remembers
        <5>3. ~(now - kept[p] < Floor) /\ kept[p] \in Int BY <5>2, <2>1, <1>2, <1>1
        <5> QED BY <4>1, <5>1, <5>2, <5>3, <3>3, <1>4
      <4>2. CASE i # Len(s)
        <5>1. i \in 1..(Len(s) - 1) /\ i \in 1..Len(s) /\ i + 1 \in 1..Len(s)
          BY <4>2, <3>2, <3>3
        <5> QED BY <5>1, <3>2, <3>3 DEF Spaced
      <4> QED BY <4>1, <4>2
    <3>5. Spaced(b) BY <3>4 DEF Spaced
    <3>6. now # Never BY <1>4 DEF Never
    <3>7. Remembers(now, b) BY <3>2, <3>3, <3>6 DEF Remembers
    <3> QED BY <3>1, <3>3, <3>5, <3>7, <1>4
  <2>2. CASE ~(q = p /\ ok)
    <3>1. last'[q] = kept[q] BY <2>2, <1>2, <1>3
    <3>2. polled'[q] = before(q) BY <2>2, <1>2
    <3> QED BY <3>1, <3>2, <1>1
  <2> QED BY <2>1, <2>2
<1>6. last' = [q \in Polls |-> last'[q]] /\ polled' = [q \in Polls |-> polled'[q]]
  BY <1>2, <1>3
<1>7. last' \in [Polls -> Int] /\ polled' \in [Polls -> Times] BY <1>5, <1>6
<1> QED BY <1>4, <1>5, <1>7 DEF FInv

LEMMA FStep == FInv /\ [Next]_vars => FInv'
<1> SUFFICES ASSUME FInv, [Next]_vars PROVE FInv' OBVIOUS
<1>1. ASSUME NEW p \in Polls, NEW ok \in BOOLEAN, Spaces(p, ok), now' = now PROVE FInv'
  BY <1>1, SpacesKeeps
<1>2. ASSUME UNCHANGED floors, now' = now \/ now' = now + 1 PROVE FInv'
  BY <1>2 DEF floors, FInv
<1>3. ASSUME NEW c \in Callers, Limited(c) PROVE FInv' BY <1>2, <1>3 DEF Limited
<1>4. ASSUME NEW p \in Polls, TooSoon(p) PROVE FInv' BY <1>1, <1>4 DEF TooSoon
<1>5. ASSUME NEW c \in Callers, NEW p \in Polls \cup {NoPoll}, NEW th,
             Local(c, p) \/ Arrives(th, c, p)
      PROVE  FInv'
  <2>1. Passes(c, p) /\ now' = now BY <1>5 DEF Local, Arrives
  <2>2. CASE p = NoPoll BY <2>1, <2>2, <1>2 DEF Passes
  <2>3. CASE p # NoPoll BY <2>1, <2>3, <1>1 DEF Passes
  <2> QED BY <2>2, <2>3
<1>6. ASSUME NEW th \in Threads, Acts(th) PROVE FInv'
  BY <1>2, <1>6 DEF Acts, Cached, Misses, Asserts, Redeems, AcquireFails, Answered,
                    Challenged
<1>7. CASE Tick BY <1>7, <1>2 DEF Tick
<1>8. CASE UNCHANGED vars BY <1>8, <1>2 DEF vars
<1> QED BY <1>3, <1>4, <1>5, <1>6, <1>7, <1>8 DEF Next

\* Two reads of one target are let through a floor apart, for any floor and any
\* number of targets, unless all of them were forgotten in between
\* (limits.py:92).
THEOREM FloorIsKept == Spec => []FloorHolds
<1>1. Init => FInv
  BY DEF Init, LimitsInit, FInv, Remembers, Spaced, Times, Never
<1>2. FInv => FloorHolds BY DEF FInv, FloorHolds, Spaced
<1> QED BY <1>1, <1>2, FStep, PTL DEF Spec

-------------------------------------------------------------------------------
(* The assertion.                                                          *)

Pcs == {"idle", "wants", "asserts", "redeems", "sent"}

Assertions == [believed : Int, expires : Int, minted : Int, readable : BOOLEAN]

Flights == [pc : Pcs, op : Callers \cup {Free}, claims : BOOLEAN, retried : BOOLEAN,
            token : Int, refused : Int, sends : Int, asked : Int, asserted : Assertions]

ATypes ==
    /\ now \in Int
    /\ thread \in [Threads -> Flights]
    /\ \A th \in Threads : At(th, "idle") \/ Op(th) \in Callers
    /\ cache \in [Callers -> [n : Int, expires : Int]]
    /\ redeemed \in [Callers -> Seq([at : Int, claims : BOOLEAN])]
    /\ identity \in [Callers -> Assertions]

\* What is believed of an assertion: its expiry, or twice the skew.
Cautious(a) == a.believed <= IF a.readable THEN a.expires ELSE a.minted + 2 * Skew

AInv ==
    /\ ATypes
    /\ \A c \in Callers : Cautious(identity[c])
    /\ AssertionLives

\* A step of one thread that leaves the assertions alone.
LEMMA GoesOn ==
    ASSUME AInv, NEW th \in Threads, NEW t \in Flights, Goes(th, t),
           t.pc = "idle" \/ t.op \in Callers,
           t.pc = "redeems" => HasLife(t.asserted, t.asked),
           UNCHANGED <<now, identity>>,
           cache' \in [Callers -> [n : Int, expires : Int]],
           redeemed' \in [Callers -> Seq([at : Int, claims : BOOLEAN])]
    PROVE  AInv'
<1>1. thread' = [thread EXCEPT ![th] = t] /\ thread' \in [Threads -> Flights]
      /\ \A u \in Threads : thread'[u] = IF u = th THEN t ELSE thread[u]
  BY DEF AInv, ATypes, Goes
<1>2. \A u \in Threads : At(u, "idle")' \/ Op(u)' \in Callers
  BY <1>1 DEF AInv, ATypes, At, Op
<1>3. AssertionLives'
  BY <1>1 DEF AInv, AssertionLives, At
<1> QED BY <1>1, <1>2, <1>3 DEF AInv, ATypes

LEMMA IdleFlies == Idle \in Flights /\ Idle.pc = "idle"
BY DEF Idle, Flights, Pcs, NoAssertion, Assertions

LEMMA MintedIs ==
    ASSUME now \in Int, NEW life \in IdentityLives, NEW readable \in BOOLEAN
    PROVE  LET a == Minted(life, readable)
           IN  a \in Assertions /\ Cautious(a) /\ HasLife(a, now)
BY AccessAssumption DEF Minted, Believed, Assertions, Cautious, HasLife

LEMMA ServedHasLife ==
    ASSUME now \in Int, NEW a \in Assertions, Cautious(a), now < a.believed - Skew
    PROVE  HasLife(a, now)
<1> Skew \in Nat BY AccessAssumption
<1>1. CASE a.readable BY <1>1 DEF Assertions, Cautious, HasLife
<1>2. CASE ~a.readable BY <1>2 DEF Assertions, Cautious, HasLife
<1> QED BY <1>1, <1>2 DEF Assertions

LEMMA SentFlies ==
    ASSUME NEW t \in Flights, NEW n \in Int
    PROVE  LET u == [t EXCEPT !.pc = "sent", !.token = n, !.sends = @ + 1,
                              !.asked = 0, !.asserted = NoAssertion]
           IN  u \in Flights /\ u.pc = "sent" /\ u.op = t.op
<1>1. t.sends \in Int /\ t.sends + 1 \in Int BY DEF Flights
<1> DEFINE k == t.sends + 1
<1> HIDE DEF k
<1>2. ASSUME NEW m \in Int, NEW i \in Int, NEW a \in Assertions
      PROVE  LET v == [t EXCEPT !.pc = "sent", !.token = n, !.sends = m]
                 u == [v EXCEPT !.asked = i, !.asserted = a]
             IN  u \in Flights /\ u.pc = "sent" /\ u.op = t.op
  <2> DEFINE v == [t EXCEPT !.pc = "sent", !.token = n, !.sends = m]
             u == [v EXCEPT !.asked = i, !.asserted = a]
  <2>1. v \in Flights /\ v.pc = "sent" /\ v.op = t.op BY DEF Flights, Pcs
  <2> HIDE DEF v
  <2>2. u \in Flights /\ u.pc = v.pc /\ u.op = v.op BY <2>1 DEF Flights
  <2> QED BY <2>1, <2>2 DEF v
<1>3. NoAssertion \in Assertions /\ 0 \in Int BY DEF NoAssertion, Assertions
<1>4. [t EXCEPT !.pc = "sent", !.token = n, !.sends = @ + 1,
                !.asked = 0, !.asserted = NoAssertion]
      = [[t EXCEPT !.pc = "sent", !.token = n, !.sends = t.sends + 1]
            EXCEPT !.asked = 0, !.asserted = NoAssertion]
  BY DEF Flights
<1> QED BY <1>1, <1>2, <1>3, <1>4

LEMMA AStep == AInv /\ [Next]_vars => AInv'
<1> SUFFICES ASSUME AInv, [Next]_vars PROVE AInv' OBVIOUS
<1>1. ASSUME UNCHANGED <<thread, tokens>>, now' \in Int PROVE AInv'
  BY <1>1 DEF tokens, AInv, ATypes, AssertionLives, At, Op
<1>2. now \in Int /\ now + 1 \in Int /\ Lifetime \in Nat /\ Skew \in Nat
      /\ IdentityLives \subseteq Nat
  BY AccessAssumption DEF AInv, ATypes
<1>3. ASSUME NEW th \in Threads, Acts(th) PROVE AInv'
  <2> DEFINE t == thread[th]
             c == Op(th)
  <2>1. /\ t \in Flights
        /\ cache \in [Callers -> [n : Int, expires : Int]]
        /\ redeemed \in [Callers -> Seq([at : Int, claims : BOOLEAN])]
        /\ identity \in [Callers -> Assertions]
    BY DEF AInv, ATypes
  <2>2. \A pc : At(th, pc) /\ pc # "idle" => c \in Callers
    BY DEF AInv, ATypes, At
  <2>3. CASE Cached(th)
    <3>1. c \in Callers BY <2>2, <2>3 DEF Cached
    <3> DEFINE u == [t EXCEPT !.pc = "sent", !.token = cache[c].n, !.sends = @ + 1,
                              !.asked = 0, !.asserted = NoAssertion]
    <3>2. u \in Flights /\ u.pc = "sent" /\ u.op = c
      BY <3>1, <2>1, SentFlies DEF Op
    <3>3. Goes(th, u) /\ UNCHANGED <<now, identity, cache, redeemed>>
      BY <2>3 DEF Cached, Sends, tokens
    <3> HIDE DEF u
    <3> QED BY <3>1, <3>2, <3>3, <2>1, GoesOn
  <2>4. CASE Misses(th)
    <3>1. c \in Callers BY <2>2, <2>4 DEF Misses
    <3> DEFINE u == [t EXCEPT !.pc = "asserts"]
    <3>2. u \in Flights /\ u.pc = "asserts" /\ u.op = c BY <3>1, <2>1 DEF Flights, Pcs, Op
    <3>3. Goes(th, u) /\ UNCHANGED <<now, identity, cache, redeemed>> BY <2>4 DEF Misses
    <3> HIDE DEF u
    <3> QED BY <3>1, <3>2, <3>3, <2>1, GoesOn
  <2>5. CASE Asserts(th)
    <3>1. c \in Callers BY <2>2, <2>5 DEF Asserts
    <3> DEFINE given(a) == [t EXCEPT !.pc = "redeems", !.asked = now, !.asserted = a]
    <3>2. ASSUME NEW a \in Assertions
          PROVE  given(a) \in Flights /\ given(a).op = c /\ given(a).asserted = a
                 /\ given(a).asked = now
      BY <3>1, <2>1, <1>2 DEF Flights, Pcs, Op
    <3>3. CASE /\ now < identity[c].believed - Skew
               /\ Goes(th, given(identity[c]))
               /\ UNCHANGED identity
      <4> DEFINE a == identity[c]
      <4>1. a \in Assertions /\ Cautious(a) BY <3>1, <2>1 DEF AInv
      <4>2. HasLife(a, now) BY <4>1, <3>3, <1>2, ServedHasLife
      <4>3. UNCHANGED <<now, cache, redeemed>> BY <2>5 DEF Asserts
      <4>4. Goes(th, given(a)) /\ UNCHANGED identity BY <3>3
      <4>5. given(a) \in Flights /\ given(a).op = c /\ given(a).asserted = a
            /\ given(a).asked = now
        BY <4>1, <3>2
      <4> HIDE DEF a, given
      <4> QED BY <4>2, <4>3, <4>4, <4>5, <3>1, <2>1, GoesOn
    <3>4. ASSUME NEW life \in IdentityLives, NEW readable \in BOOLEAN,
                 identity' = [identity EXCEPT ![c] = Minted(life, readable)],
                 Goes(th, given(Minted(life, readable)))
          PROVE  AInv'
      <4> DEFINE a == Minted(life, readable)
                 u == given(a)
      <4>1. a \in Assertions /\ Cautious(a) /\ HasLife(a, now) BY <1>2, MintedIs
      <4>2. u \in Flights /\ u.op = c /\ u.asserted = a /\ u.asked = now
        BY <4>1, <3>2
      <4>3. UNCHANGED <<now, cache, redeemed>> BY <2>5 DEF Asserts
      <4>4. thread' = [thread EXCEPT ![th] = u] /\ identity' = [identity EXCEPT ![c] = a]
        BY <3>4 DEF Goes
      <4> HIDE DEF a, u
      <4>5. thread' \in [Threads -> Flights]
            /\ \A v \in Threads : thread'[v] = IF v = th THEN u ELSE thread[v]
        BY <4>2, <4>4 DEF AInv, ATypes
      <4>6. identity' \in [Callers -> Assertions]
            /\ \A d \in Callers : Cautious(identity'[d])
        BY <4>1, <4>4, <2>1, <3>1 DEF AInv
      <4>7. \A v \in Threads : At(v, "idle")' \/ Op(v)' \in Callers
        BY <4>2, <4>5, <3>1 DEF AInv, ATypes, At, Op
      <4>8. AssertionLives'
        BY <4>1, <4>2, <4>5 DEF AInv, AssertionLives, At
      <4> QED BY <4>3, <4>5, <4>6, <4>7, <4>8, <2>1, <1>2 DEF AInv, ATypes
    <3> QED BY <2>5, <3>3, <3>4 DEF Asserts
  <2>6. CASE Redeems(th)
    <3>1. c \in Callers BY <2>2, <2>6 DEF Redeems
    <3> DEFINE n == Len(redeemed[c]) + 1
               u == [t EXCEPT !.pc = "sent", !.token = n, !.sends = @ + 1,
                              !.asked = 0, !.asserted = NoAssertion]
    <3>2. n \in Int BY <3>1, <2>1
    <3>3. /\ cache' = [cache EXCEPT ![c] = [n |-> n, expires |-> now + Lifetime]]
          /\ redeemed' = [redeemed EXCEPT ![c] =
                Append(redeemed[c], [at |-> now, claims |-> t.claims])]
          /\ Goes(th, u) /\ UNCHANGED <<now, identity>>
      BY <2>6 DEF Redeems, Sends
    <3> HIDE DEF n
    <3>4. u \in Flights /\ u.pc = "sent" /\ u.op = c
      BY <3>2, <2>1, SentFlies DEF Op
    <3>5. cache' \in [Callers -> [n : Int, expires : Int]]
      BY <3>1, <3>2, <3>3, <2>1, <1>2
    <3>6. [at |-> now, claims |-> t.claims] \in [at : Int, claims : BOOLEAN]
      BY <2>1, <1>2 DEF Flights
    <3>7. Append(redeemed[c], [at |-> now, claims |-> t.claims])
             \in Seq([at : Int, claims : BOOLEAN])
      BY <3>1, <3>6, <2>1
    <3>8. redeemed' \in [Callers -> Seq([at : Int, claims : BOOLEAN])]
      BY <3>1, <3>3, <3>7, <2>1
    <3> HIDE DEF u
    <3> QED BY <3>1, <3>3, <3>4, <3>5, <3>8, GoesOn
  <2>7. CASE AcquireFails(th) \/ Answered(th)
    <3>1. Goes(th, Idle) /\ UNCHANGED <<now, identity, cache, redeemed>>
      BY <2>7 DEF AcquireFails, Answered, tokens
    <3> QED BY <3>1, <2>1, IdleFlies, GoesOn
  <2>8. CASE Challenged(th)
    <3>1. c \in Callers BY <2>2, <2>8 DEF Challenged
    <3> DEFINE u == [t EXCEPT !.pc = "wants", !.claims = TRUE, !.retried = TRUE,
                              !.refused = t.token]
    <3>2. u \in Flights /\ u.pc = "wants" /\ u.op = c
      BY <3>1, <2>1 DEF Flights, Pcs, Op
    <3>3. (Goes(th, u) \/ Goes(th, Idle)) /\ UNCHANGED <<now, identity, cache, redeemed>>
      BY <2>8 DEF Challenged, tokens
    <3> HIDE DEF u
    <3> QED BY <3>1, <3>2, <3>3, <2>1, IdleFlies, GoesOn
  <2> QED BY <1>3, <2>3, <2>4, <2>5, <2>6, <2>7, <2>8 DEF Acts
<1>4. ASSUME NEW c \in Callers, Limited(c) PROVE AInv' BY <1>1, <1>2, <1>4 DEF Limited
<1>5. ASSUME NEW p \in Polls, TooSoon(p) PROVE AInv' BY <1>1, <1>2, <1>5 DEF TooSoon
<1>6. ASSUME NEW c \in Callers, NEW p, Local(c, p) PROVE AInv'
  BY <1>1, <1>2, <1>6 DEF Local
<1>7. ASSUME NEW c \in Callers, NEW p, NEW th \in Threads, Arrives(th, c, p) PROVE AInv'
  <2> DEFINE u == [Idle EXCEPT !.pc = "wants", !.op = c]
  <2>1. u \in Flights /\ u.pc = "wants" /\ u.op = c
    <3>1. [Idle EXCEPT !.pc = "wants"] \in Flights /\ c \in Callers \cup {Free}
      BY IdleFlies DEF Flights, Pcs
    <3>2. \A t \in Flights : [t EXCEPT !.op = c] \in Flights
                            /\ [t EXCEPT !.op = c].op = c
                            /\ [t EXCEPT !.op = c].pc = t.pc
      BY <3>1 DEF Flights
    <3>3. [Idle EXCEPT !.pc = "wants"].pc = "wants" BY IdleFlies DEF Flights
    <3>4. u = [[Idle EXCEPT !.pc = "wants"] EXCEPT !.op = c] OBVIOUS
    <3> QED BY <3>1, <3>2, <3>3, <3>4
  <2>2. Goes(th, u) /\ UNCHANGED <<now, identity, cache, redeemed>>
    BY <1>7 DEF Arrives, tokens
  <2>3. /\ cache \in [Callers -> [n : Int, expires : Int]]
        /\ redeemed \in [Callers -> Seq([at : Int, claims : BOOLEAN])]
    BY DEF AInv, ATypes
  <2> HIDE DEF u
  <2> QED BY <2>1, <2>2, <2>3, GoesOn
<1>8. CASE Tick BY <1>1, <1>2, <1>8 DEF Tick
<1>9. CASE UNCHANGED vars BY <1>1, <1>2, <1>9 DEF vars
<1> QED BY <1>3, <1>4, <1>5, <1>6, <1>7, <1>8, <1>9 DEF Next

LEMMA AInitially == Init => AInv
<1> SUFFICES ASSUME Init PROVE AInv OBVIOUS
<1>1. /\ now = 0 /\ thread = [th \in Threads |-> Idle]
      /\ cache = [c \in Callers |-> [n |-> 1, expires |-> Lifetime]]
      /\ redeemed = [c \in Callers |-> <<[at |-> 0, claims |-> FALSE]>>]
      /\ identity = [c \in Callers |-> NoAssertion]
  BY DEF Init, LimitsInit
<1>2. Lifetime \in Nat BY AccessAssumption
<1>3. thread \in [Threads -> Flights] /\ \A th \in Threads : At(th, "idle")
  BY <1>1, IdleFlies DEF At
<1>4. \A th \in Threads : ~At(th, "redeems") BY <1>1 DEF At, Idle
<1>5. redeemed \in [Callers -> Seq([at : Int, claims : BOOLEAN])] BY <1>1
<1>6. cache \in [Callers -> [n : Int, expires : Int]] BY <1>1, <1>2
<1>7. /\ identity \in [Callers -> Assertions]
      /\ \A c \in Callers : Cautious(identity[c])
  BY <1>1 DEF NoAssertion, Assertions, Cautious
<1> QED BY <1>1, <1>3, <1>4, <1>5, <1>6, <1>7 DEF AInv, ATypes, AssertionLives

\* An assertion that is given to Entra again later has more than the skew left of
\* its life, for any skew and any lives that the identity's tokens may have, also
\* when its expiry could not be read, unless it had less than twice the skew to
\* live when it was minted (managed_identity.py:62).
THEOREM AssertionsLive == Spec => []AssertionLives
<1>1. AInv => AssertionLives BY DEF AInv
<1> QED BY <1>1, AInitially, AStep, PTL DEF Spec

-------------------------------------------------------------------------------
(* The tokens.                                                             *)

\* The cache holds the last token that was redeemed.
LastCached(c) ==
    LET n == Len(redeemed[c])
    IN  n >= 1 /\ cache[c].n = n /\ cache[c].expires = redeemed[c][n].at + Lifetime

\* Who acquires a token holds the lock, and has no use for the one that is cached.
HasReason(th) ==
    At(th, "asserts") \/ At(th, "redeems") =>
        lock[Op(th)] = th /\ (thread[th].claims \/ cache[Op(th)].expires <= now)

\* A request t of an operator who has been given n tokens: what it has sent,
\* and the tokens it has seen.
Tried(t, n) ==
    /\ t.claims = t.retried
    /\ t.token <= n /\ t.refused <= n
    /\ t.sends = (IF t.retried THEN 1 ELSE 0) + (IF t.pc = "sent" THEN 1 ELSE 0)
    /\ t.pc = "sent" /\ t.retried => t.token > t.refused

Redemptions == [at : Int, claims : BOOLEAN]

TInv ==
    /\ AInv
    /\ lock \in [Callers -> Threads \cup {Free}]
    /\ \A c \in Callers : LastCached(c)
    /\ \A th \in Threads :
          /\ HasReason(th)
          /\ At(th, "idle") => thread[th].sends = 0
          /\ ~At(th, "idle") => Tried(thread[th], Len(redeemed[Op(th)]))
    /\ OnePerExpiry

\* A step of one thread that redeems nothing: its new state t is as it should be.
LEMMA TMoves ==
    ASSUME TInv, AInv', NEW th \in Threads, NEW t \in Flights, Goes(th, t),
           UNCHANGED <<now, cache, redeemed>>,
           t.pc = "idle" \/ t.op = Op(th), t.pc = "idle" => t.sends = 0,
           t.pc # "idle" => ~At(th, "idle") /\ Tried(t, Len(redeemed[t.op])),
           lock' \in [Callers -> Threads \cup {Free}],
           \A u \in Threads \ {th} : lock[Op(u)] = u => lock'[Op(u)] = u,
           t.pc \in {"asserts", "redeems"} =>
              lock'[t.op] = th /\ (t.claims \/ cache[t.op].expires <= now)
    PROVE  TInv'
<1>1. \A u \in Threads : thread'[u] = IF u = th THEN t ELSE thread[u]
  BY DEF TInv, AInv, ATypes, Goes
<1>2. ASSUME NEW u \in Threads
      PROVE  /\ HasReason(u)' /\ (At(u, "idle")' => thread'[u].sends = 0)
             /\ ~At(u, "idle")' => Tried(thread'[u], Len(redeemed'[Op(u)']))
  <2>1. CASE u = th BY <2>1, <1>1 DEF HasReason, At, Op
  <2>2. CASE u # th BY <2>2, <1>1 DEF TInv, HasReason, At, Op
  <2> QED BY <2>1, <2>2
<1>3. \A c \in Callers : LastCached(c)' BY DEF TInv, LastCached
<1>4. OnePerExpiry' BY DEF TInv, OnePerExpiry
<1> QED BY <1>2, <1>3, <1>4 DEF TInv

LEMMA TStep == TInv /\ [Next]_vars => TInv'
<1> SUFFICES ASSUME TInv, [Next]_vars PROVE TInv' OBVIOUS
<1>0. AInv' BY AStep DEF TInv
<1>1. ASSUME UNCHANGED <<thread, tokens>>, now' = now \/ now' = now + 1 PROVE TInv'
  <2>1. now \in Int BY DEF TInv, AInv, ATypes
  <2>2. ASSUME NEW th \in Threads PROVE HasReason(th)'
    <3>1. At(th, "asserts") \/ At(th, "redeems") => cache[Op(th)].expires \in Int
      BY DEF TInv, AInv, ATypes, At, Op
    <3> QED BY <1>1, <2>1, <3>1 DEF TInv, HasReason, At, Op, tokens
  <2> QED BY <1>0, <1>1, <2>2 DEF TInv, LastCached, OnePerExpiry, At, Op, tokens
<1>2. ASSUME NEW th \in Threads, Acts(th) PROVE TInv'
  <2> DEFINE t == thread[th]
             c == Op(th)
  <2>1. /\ t \in Flights /\ Lifetime \in Nat /\ Free \notin Threads
        /\ now \in Int
        /\ lock \in [Callers -> Threads \cup {Free}]
        /\ cache \in [Callers -> [n : Int, expires : Int]]
        /\ redeemed \in [Callers -> Seq(Redemptions)]
    BY AccessAssumption DEF TInv, AInv, ATypes, Redemptions
  <2>2. ~At(th, "idle") =>
            /\ c \in Callers /\ LastCached(c) /\ HasReason(th) /\ c = t.op
            /\ Tried(t, Len(redeemed[c])) /\ Len(redeemed[c]) \in Nat
    BY <2>1 DEF TInv, AInv, ATypes, Op
  <2>3. CASE Cached(th)
    <3>1. ~At(th, "idle") /\ At(th, "wants") /\ Servable(th) BY <2>3 DEF Cached, At
    <3> DEFINE n == cache[c].n
               u == [t EXCEPT !.pc = "sent", !.token = n, !.sends = @ + 1,
                              !.asked = 0, !.asserted = NoAssertion]
    <3>2. n \in Int /\ n <= Len(redeemed[c]) BY <2>1, <2>2, <3>1 DEF LastCached
    <3>3. Goes(th, u) /\ UNCHANGED <<now, lock, cache, redeemed>>
      BY <2>3 DEF Cached, Sends, tokens
    <3> HIDE DEF n
    <3>4. u \in Flights /\ u.pc = "sent" /\ u.op = c BY <3>2, <2>1, SentFlies DEF Op
    <3>5. /\ u.token = n /\ u.sends = t.sends + 1 /\ u.claims = t.claims
          /\ u.retried = t.retried /\ u.refused = t.refused
      BY <2>1 DEF Flights
    <3> HIDE DEF u
    <3>6. ~t.claims /\ t.pc = "wants" BY <3>1 DEF Servable, At
    <3>7. Tried(u, Len(redeemed[u.op]))
      BY <3>1, <3>2, <3>4, <3>5, <3>6, <2>1, <2>2 DEF Tried, Flights
    <3> QED BY <1>0, <2>1, <3>1, <3>3, <3>4, <3>7, TMoves
  <2>4. CASE Misses(th)
    <3>1. ~At(th, "idle") /\ At(th, "wants") /\ Unlocked(th) /\ ~Servable(th)
      BY <2>4 DEF Misses, At
    <3> DEFINE u == [t EXCEPT !.pc = "asserts"]
    <3>2. /\ u \in Flights /\ u.pc = "asserts" /\ u.op = c
          /\ u.token = t.token /\ u.sends = t.sends /\ u.claims = t.claims
          /\ u.retried = t.retried /\ u.refused = t.refused
      BY <2>1 DEF Flights, Pcs, Op
    <3>3. /\ Goes(th, u) /\ UNCHANGED <<now, cache, redeemed>>
          /\ lock' = [lock EXCEPT ![c] = th]
      BY <2>4 DEF Misses
    <3> HIDE DEF u
    <3>4. Tried(u, Len(redeemed[u.op])) BY <3>1, <3>2, <2>2 DEF Tried, At
    <3>5. lock' \in [Callers -> Threads \cup {Free}] /\ lock'[c] = th
      BY <3>1, <3>3, <2>1, <2>2
    <3>6. ASSUME NEW v \in Threads \ {th}, lock[Op(v)] = v PROVE lock'[Op(v)] = v
      BY <3>1, <3>3, <3>6, <2>1 DEF Unlocked
    <3>7. u.claims \/ cache[u.op].expires <= now
      BY <3>1, <3>2, <2>1, <2>2 DEF Servable
    <3> QED BY <1>0, <2>1, <3>1, <3>2, <3>3, <3>4, <3>5, <3>6, <3>7, TMoves
  <2>5. CASE Asserts(th)
    <3>1. ~At(th, "idle") /\ At(th, "asserts") BY <2>5 DEF Asserts, At
    <3> DEFINE given(a) == [t EXCEPT !.pc = "redeems", !.asked = now, !.asserted = a]
    <3>2. PICK a \in Assertions : Goes(th, given(a))
      <4>1. CASE Goes(th, given(identity[c]))
        <5>1. identity[c] \in Assertions BY <2>2, <3>1 DEF TInv, AInv, ATypes
        <5> QED BY <4>1, <5>1
      <4>2. ASSUME NEW life \in IdentityLives, NEW readable \in BOOLEAN,
                   Goes(th, given(Minted(life, readable)))
            PROVE  \E a \in Assertions : Goes(th, given(a))
        <5>1. Minted(life, readable) \in Assertions BY <2>1, MintedIs
        <5> QED BY <4>2, <5>1
      <4> QED BY <2>5, <4>1, <4>2 DEF Asserts
    <3> DEFINE u == given(a)
    <3>3. /\ u \in Flights /\ u.pc = "redeems" /\ u.op = c
          /\ u.token = t.token /\ u.sends = t.sends /\ u.claims = t.claims
          /\ u.retried = t.retried /\ u.refused = t.refused
      BY <2>1 DEF Flights, Pcs, Op
    <3>4. Goes(th, u) /\ UNCHANGED <<now, lock, cache, redeemed>> BY <2>5, <3>2 DEF Asserts
    <3> HIDE DEF u
    <3>5. Tried(u, Len(redeemed[u.op])) BY <3>1, <3>3, <2>2 DEF Tried, At
    <3>6. lock[u.op] = th /\ (u.claims \/ cache[u.op].expires <= now)
      BY <3>1, <3>3, <2>2 DEF HasReason
    <3> QED BY <1>0, <2>1, <3>1, <3>3, <3>4, <3>5, <3>6, TMoves
  <2>6. CASE Redeems(th)
    <3>1. ~At(th, "idle") /\ At(th, "redeems") BY <2>6 DEF Redeems, At
    <3> DEFINE s == redeemed[c]
               n == Len(s) + 1
               r == [at |-> now, claims |-> t.claims]
               u == [t EXCEPT !.pc = "sent", !.token = n, !.sends = @ + 1,
                              !.asked = 0, !.asserted = NoAssertion]
    <3>2. n \in Int /\ c \in Callers /\ n >= 2 BY <2>1, <2>2, <3>1 DEF LastCached
    <3>3. /\ cache' = [cache EXCEPT ![c] = [n |-> n, expires |-> now + Lifetime]]
          /\ redeemed' = [redeemed EXCEPT ![c] = Append(s, r)]
          /\ Goes(th, u) /\ now' = now /\ lock' = [lock EXCEPT ![c] = Free]
      BY <2>6 DEF Redeems, Sends, LetsGo
    <3>4. u \in Flights /\ u.pc = "sent" /\ u.op = c
      <4> HIDE DEF n
      <4> QED BY <3>2, <2>1, SentFlies DEF Op
    <3>5. /\ u.token = n /\ u.sends = t.sends + 1 /\ u.claims = t.claims
          /\ u.retried = t.retried /\ u.refused = t.refused
      BY <2>1 DEF Flights
    <3> HIDE DEF u
    <3>6. s \in Seq(Redemptions) /\ r \in Redemptions /\ r.at = now /\ r.claims = t.claims
      BY <2>1, <3>2 DEF Redemptions, Flights
    <3>7. s[n - 1].at \in Int /\ cache[c].expires = s[n - 1].at + Lifetime
          /\ n - 1 \in 1..Len(s)
      <4>1. Len(s) \in Nat /\ Len(s) >= 1 /\ n - 1 = Len(s) /\ n = Len(s) + 1
        BY <3>1, <3>6, <2>2 DEF LastCached
      <4>2. cache[c].expires = s[Len(s)].at + Lifetime BY <3>1, <2>2 DEF LastCached
      <4> HIDE DEF s, n
      <4>3. s[Len(s)] \in Redemptions BY <4>1, <3>6
      <4> QED BY <4>1, <4>2, <4>3 DEF Redemptions
    <3>18. Len(s) \in Nat /\ n = Len(s) + 1 BY <3>6
    <3> HIDE DEF r, s
    <3>8. /\ Append(s, r) \in Seq(Redemptions) /\ Len(Append(s, r)) = n
          /\ Append(s, r)[n] = r /\ \A i \in 1..Len(s) : Append(s, r)[i] = s[i]
      BY <3>6
    <3>9. \A d \in Callers : redeemed'[d] = IF d = c THEN Append(s, r) ELSE redeemed[d]
      BY <3>2, <3>3, <2>1
    <3>10. \A d \in Callers :
              cache'[d] = IF d = c THEN [n |-> n, expires |-> now + Lifetime] ELSE cache[d]
      <4> HIDE DEF n
      <4> QED BY <3>2, <3>3, <2>1
    <3>11. lock' \in [Callers -> Threads \cup {Free}]
           /\ \A d \in Callers : lock'[d] = IF d = c THEN Free ELSE lock[d]
      BY <3>2, <3>3, <2>1
    <3>12. \A v \in Threads : thread'[v] = IF v = th THEN u ELSE thread[v]
      BY <3>3 DEF TInv, AInv, ATypes, Goes
    <3>13. ASSUME NEW d \in Callers PROVE LastCached(d)'
      <4> HIDE DEF n
      <4>1. CASE d = c
        <5>1. /\ redeemed'[d] = Append(s, r) /\ cache'[d].n = n
              /\ cache'[d].expires = now + Lifetime
          <6>1. redeemed'[d] = Append(s, r) BY <4>1, <3>9
          <6>2. cache'[d] = [n |-> n, expires |-> now + Lifetime] BY <4>1, <3>10
          <6> QED BY <6>1, <6>2
        <5> QED BY <5>1, <3>2, <3>6, <3>8 DEF LastCached
      <4>2. CASE d # c BY <4>2, <3>9, <3>10 DEF TInv, LastCached
      <4> QED BY <4>1, <4>2
    <3>14. t.claims \/ now >= s[n - 1].at + Lifetime
      BY <3>1, <3>7, <2>2 DEF HasReason
    <3>15. OnePerExpiry'
      <4> SUFFICES ASSUME NEW d \in Callers, NEW i \in 2..Len(redeemed'[d])
                   PROVE  redeemed'[d][i].claims
                          \/ redeemed'[d][i].at >= redeemed'[d][i - 1].at + Lifetime
        BY DEF OnePerExpiry
      <4>1. CASE d # c BY <4>1, <3>9 DEF TInv, OnePerExpiry
      <4>2. CASE d = c /\ i = n
        BY <4>2, <3>2, <3>6, <3>7, <3>8, <3>9, <3>14
      <4>3. CASE d = c /\ i # n
        <5>1. i \in 2..Len(s) /\ i \in 1..Len(s) /\ i - 1 \in 1..Len(s)
          <6>1. redeemed'[d] = Append(s, r) BY <4>3, <3>2, <3>9
          <6>2. i \in 2..n /\ i # n BY <6>1, <4>3, <3>8
          <6> QED BY <6>2, <3>2, <3>18
        <5>2. s[i].claims \/ s[i].at >= s[i - 1].at + Lifetime
          BY <5>1, <3>2 DEF TInv, OnePerExpiry, s
        <5> QED BY <4>3, <5>1, <5>2, <3>8, <3>9
      <4> QED BY <4>1, <4>2, <4>3
    <3>16. Tried(u, n)
      BY <3>1, <3>4, <3>5, <3>6, <2>1, <2>2 DEF Tried, Flights, At, s
    <3>17. ASSUME NEW v \in Threads
           PROVE  /\ HasReason(v)' /\ (At(v, "idle")' => thread'[v].sends = 0)
                  /\ ~At(v, "idle")' => Tried(thread'[v], Len(redeemed'[Op(v)']))
      <4>1. CASE v = th
        <5>1. thread'[v] = u /\ Op(v)' = c /\ ~At(v, "idle")' /\ HasReason(v)'
          BY <4>1, <3>4, <3>12 DEF HasReason, At, Op
        <5>2. Len(redeemed'[c]) = n BY <3>2, <3>8, <3>9
        <5> QED BY <5>1, <5>2, <3>16
      <4>2. CASE v # th
        <5>1. thread'[v] = thread[v] /\ thread[v] \in Flights
          BY <4>2, <3>12 DEF TInv, AInv, ATypes
        <5>2. ~At(v, "idle") => /\ Op(v) \in Callers
                                /\ Tried(thread[v], Len(redeemed[Op(v)]))
                                /\ Len(redeemed[Op(v)]) \in Nat
          BY <2>1 DEF TInv, AInv, ATypes
        <5>3. ~At(v, "idle") => Tried(thread[v], Len(redeemed'[Op(v)]))
          <6>1. Op(v) \in Callers =>
                   Len(redeemed'[Op(v)]) \in {Len(redeemed[Op(v)]), Len(redeemed[Op(v)]) + 1}
            BY <3>8, <3>9, <3>18 DEF s
          <6>2. thread[v].token \in Int /\ thread[v].refused \in Int BY <5>1 DEF Flights
          <6> QED BY <5>2, <6>1, <6>2 DEF Tried
        <5>4. HasReason(v)'
          <6> SUFFICES ASSUME At(v, "asserts") \/ At(v, "redeems")
                       PROVE  /\ lock'[Op(v)] = v
                              /\ thread[v].claims \/ cache'[Op(v)].expires <= now'
            BY <5>1 DEF HasReason, At, Op
          <6>1. lock[Op(v)] = v /\ lock[c] = th /\ Op(v) \in Callers
            BY <3>1, <5>2, <2>2 DEF TInv, HasReason, At
          <6>2. Op(v) # c BY <6>1, <4>2
          <6> QED BY <6>1, <6>2, <3>3, <3>10, <3>11 DEF TInv, HasReason
        <5> QED BY <5>1, <5>3, <5>4 DEF TInv, At, Op
      <4> QED BY <4>1, <4>2
    <3> QED BY <1>0, <3>11, <3>13, <3>15, <3>17 DEF TInv
  <2>7. CASE AcquireFails(th)
    <3>1. ~At(th, "idle") /\ (At(th, "asserts") \/ At(th, "redeems"))
          /\ Goes(th, Idle) /\ UNCHANGED <<now, cache, redeemed>>
          /\ lock' = [lock EXCEPT ![c] = Free]
      BY <2>7 DEF AcquireFails, LetsGo, At
    <3>2. lock[c] = th /\ c \in Callers BY <3>1, <2>2 DEF HasReason
    <3>3. lock' \in [Callers -> Threads \cup {Free}]
          /\ \A v \in Threads \ {th} : lock[Op(v)] = v => lock'[Op(v)] = v
      BY <3>1, <3>2, <2>1
    <3>4. Idle \in Flights /\ Idle.pc = "idle" /\ Idle.sends = 0 BY IdleFlies DEF Idle
    <3> HIDE DEF Idle
    <3> QED BY <1>0, <3>1, <3>3, <3>4, TMoves
  <2>8. CASE Answered(th)
    <3>1. Goes(th, Idle) /\ UNCHANGED <<now, lock, cache, redeemed>>
      BY <2>8 DEF Answered, tokens
    <3>2. Idle \in Flights /\ Idle.pc = "idle" /\ Idle.sends = 0 BY IdleFlies DEF Idle
    <3> HIDE DEF Idle
    <3> QED BY <1>0, <2>1, <3>1, <3>2, TMoves
  <2>9. CASE Challenged(th)
    <3>1. ~At(th, "idle") /\ t.pc = "sent" /\ UNCHANGED <<now, lock, cache, redeemed>>
      BY <2>9 DEF Challenged, tokens, At
    <3>2. CASE Retries(th)
      <4> DEFINE u == [t EXCEPT !.pc = "wants", !.claims = TRUE, !.retried = TRUE,
                                !.refused = t.token]
      <4>1. /\ u \in Flights /\ u.pc = "wants" /\ u.op = c /\ u.token = t.token
            /\ u.sends = t.sends /\ u.claims = TRUE /\ u.retried = TRUE
            /\ u.refused = t.token
        BY <2>1 DEF Flights, Pcs, Op
      <4>2. Goes(th, u) BY <2>9, <3>2 DEF Challenged
      <4> HIDE DEF u
      <4>3. Tried(u, Len(redeemed[u.op]))
        BY <4>1, <3>1, <3>2, <2>1, <2>2 DEF Tried, Retries, Flights
      <4> QED BY <1>0, <2>1, <3>1, <4>1, <4>2, <4>3, TMoves
    <3>3. CASE ~Retries(th)
      <4>1. Goes(th, Idle) BY <2>9, <3>3 DEF Challenged
      <4>2. Idle \in Flights /\ Idle.pc = "idle" /\ Idle.sends = 0 BY IdleFlies DEF Idle
      <4> HIDE DEF Idle
      <4> QED BY <1>0, <2>1, <3>1, <4>1, <4>2, TMoves
    <3> QED BY <3>2, <3>3
  <2> QED BY <1>2, <2>3, <2>4, <2>5, <2>6, <2>7, <2>8, <2>9 DEF Acts
<1>3. ASSUME NEW c \in Callers, Limited(c) PROVE TInv' BY <1>1, <1>3 DEF Limited
<1>4. ASSUME NEW p \in Polls, TooSoon(p) PROVE TInv' BY <1>1, <1>4 DEF TooSoon
<1>5. ASSUME NEW c \in Callers, NEW p, Local(c, p) PROVE TInv' BY <1>1, <1>5 DEF Local
<1>6. ASSUME NEW c \in Callers, NEW p, NEW th \in Threads, Arrives(th, c, p) PROVE TInv'
  <2> DEFINE u == [Idle EXCEPT !.pc = "wants", !.op = c]
  <2>1. /\ u.pc = "wants" /\ u.op = c /\ u.token = 0 /\ u.sends = 0 /\ u.claims = FALSE
        /\ u.retried = FALSE /\ u.refused = 0
    BY DEF Idle
  <2>2. /\ Goes(th, u) /\ UNCHANGED <<now, lock, cache, redeemed>>
    BY <1>6 DEF Arrives, tokens
  <2> HIDE DEF u
  <2>3. \A v \in Threads : thread'[v] = IF v = th THEN u ELSE thread[v]
    BY <2>2 DEF TInv, AInv, ATypes, Goes
  <2>4. Len(redeemed[c]) \in Nat
    BY DEF TInv, AInv, ATypes
  <2>5. Tried(u, Len(redeemed[c]))
    <3>1. u.pc # "sent" /\ ~u.retried BY <2>1
    <3>2. (IF u.retried THEN 1 ELSE 0) + (IF u.pc = "sent" THEN 1 ELSE 0) = 0 BY <3>1
    <3>3. u.claims = u.retried BY <2>1
    <3>4. u.token <= Len(redeemed[c]) /\ u.refused <= Len(redeemed[c]) BY <2>1, <2>4
    <3>5. u.sends = 0 BY <2>1
    <3> HIDE DEF u
    <3> QED BY <3>1, <3>2, <3>3, <3>4, <3>5 DEF Tried
  <2>6. ASSUME NEW v \in Threads
        PROVE  /\ HasReason(v)' /\ (At(v, "idle")' => thread'[v].sends = 0)
               /\ ~At(v, "idle")' => Tried(thread'[v], Len(redeemed'[Op(v)']))
    <3>1. CASE v = th BY <3>1, <2>1, <2>2, <2>3, <2>5 DEF HasReason, At, Op
    <3>2. CASE v # th BY <3>2, <2>2, <2>3 DEF TInv, HasReason, At, Op
    <3> QED BY <3>1, <3>2
  <2>7. \A d \in Callers : LastCached(d)' BY <2>2 DEF TInv, LastCached
  <2>8. OnePerExpiry' BY <2>2 DEF TInv, OnePerExpiry
  <2> QED BY <1>0, <2>2, <2>6, <2>7, <2>8 DEF TInv
<1>7. CASE Tick BY <1>1, <1>7 DEF Tick
<1>8. CASE UNCHANGED vars BY <1>1, <1>8 DEF vars
<1> QED BY <1>2, <1>3, <1>4, <1>5, <1>6, <1>7, <1>8 DEF Next

LEMMA TInit == Init => TInv
<1> SUFFICES ASSUME Init PROVE TInv OBVIOUS
<1>1. AInv BY AInitially
<1>2. /\ thread = [th \in Threads |-> Idle] /\ lock = [c \in Callers |-> Free]
      /\ cache = [c \in Callers |-> [n |-> 1, expires |-> Lifetime]]
      /\ redeemed = [c \in Callers |-> <<[at |-> 0, claims |-> FALSE]>>]
  BY DEF Init
<1>3. \A th \in Threads : At(th, "idle") /\ HasReason(th) /\ thread[th].sends = 0
  BY <1>2 DEF At, HasReason, Idle
<1>4. Lifetime \in Nat BY AccessAssumption
<1>5. \A c \in Callers : Len(redeemed[c]) = 1 /\ LastCached(c)
  BY <1>2, <1>4 DEF LastCached
<1>6. OnePerExpiry BY <1>5 DEF OnePerExpiry
<1> QED BY <1>1, <1>2, <1>3, <1>5, <1>6 DEF TInv

\* A refresh token is redeemed for a challenge or after the access token has
\* expired, once for an expiry, for any number of threads that find it expired at
\* once (desktop.py:41).
THEOREM RedeemedOncePerExpiry == Spec => []OnePerExpiry
<1>1. TInv => OnePerExpiry BY DEF TInv
<1> QED BY <1>1, TInit, TStep, PTL DEF Spec

\* Of any number of threads each sends its request at most twice, and the second
\* time with a token redeemed after the one that was refused
\* (graph/client.py:116).
THEOREM RetriesAreFresh == Spec => []RetriedOnceAndFresh
<1>1. TInv => RetriedOnceAndFresh
  <2> SUFFICES ASSUME TInv, NEW th \in Threads
               PROVE  /\ thread[th].sends <= 2
                      /\ At(th, "sent") /\ thread[th].sends = 2 =>
                            thread[th].claims /\ thread[th].token > thread[th].refused
    BY DEF RetriedOnceAndFresh
  <2>1. CASE At(th, "idle") BY <2>1 DEF TInv, At
  <2>2. CASE ~At(th, "idle")
    <3>1. Tried(thread[th], Len(redeemed[Op(th)])) /\ thread[th] \in Flights
      BY <2>2 DEF TInv, AInv, ATypes
    <3> QED BY <3>1 DEF Tried, Flights, At
  <2> QED BY <2>1, <2>2
<1> QED BY <1>1, TInit, TStep, PTL DEF Spec
===============================================================================
