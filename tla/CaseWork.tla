------------------------------- MODULE CaseWork -------------------------------
(***************************************************************************)
(* The server's side of a case: the API handlers of web/api.py that write, *)
(* the Workflow they call (cases/workflow.py), the one Graph request each  *)
(* write is (graph/client.py), the records it leaves in the audit trail,   *)
(* and the read cache of the request list (cases/service.py).              *)
(*                                                                         *)
(* Handlers run in a threadpool: every step of every request may           *)
(* interleave with every other.  A handler that has started runs to its    *)
(* end, whether or not the browser still waits for the answer.             *)
(*                                                                         *)
(* Data abstracted: a request is about a reference, a row of the page; a   *)
(* case or a search is known by the number of its request.  A Graph        *)
(* request either takes effect or not, and either answers or not; the kind *)
(* of error is left out, so is the retry after a claims challenge (a 401   *)
(* refused the request before).  The trail is the set of its records: the  *)
(* order in it is the matter of AuditTrail.tla.                            *)
(*                                                                         *)
(* ServerSpec is the server with any page before it; Batch.tla has the     *)
(* page that sends most.                                                   *)
(***************************************************************************)
EXTENDS Integers, Sequences, FiniteSets

CONSTANTS
    Rows,           \* references: what requests are about
    Readers,        \* threads that read the request list
    MaxFaults       \* bound: steps that fail, answers that are lost

ASSUME CaseWorkAssumption ==
    /\ MaxFaults \in Nat
    /\ "free" \notin Readers

VARIABLES
    jobs,           \* API requests received, in order: what, and how far each is
    cases,          \* requests that created a case in Purview
    searches,       \* requests that created a search in Purview
    estimates,      \* requests whose search is being estimated
    trail,          \* audit records: what, with which outcome, by which request
    mayWrite,       \* the signed-in operator holds DSAR.Operator
    faults,         \* bound used up
    cache,          \* CaseService._cache: none, fresh or aged, and the cases it lists
    listLock,       \* CaseService._lock: the reader inside, or "free"
    reader,         \* reader -> where its list request stands
    shown           \* reader -> its last listing, with what it was asked after: the
                    \* cases answered by then, and those seen in earlier listings

purview == <<cases, searches, estimates>>
listing == <<cache, listLock, reader, shown>>
server == <<jobs, purview, trail, mayWrite, faults, listing>>

Searching == {"naive", "expanded"}
Writes == {"case"} \cup Searching
Ops == Writes \cup {"expand"}

Answers == {"ok", "error"}

Entry(n, act, out) == [n |-> n, act |-> act, out |-> out]

-------------------------------------------------------------------------------
(* Requests.                                                               *)

\* A slip: the role is the one that the page was signed in with.
ReceivedOnTrust(r, op, c) ==
    [row |-> r, op |-> op, case |-> c, mayWrite |-> TRUE, at |-> "new"]

\* A request about row r that arrives now; c is the case it names, 0 for none.
Received(r, op, c) ==
    [row |-> r, op |-> op, case |-> c, mayWrite |-> mayWrite, at |-> "new"]

\* Request n goes on to `at`.
Goes(n, at) == jobs' = [jobs EXCEPT ![n].at = at]

Is(n, ops, at) == jobs[n].op \in ops /\ jobs[n].at = at

\* Request n writes one record.
Notes(n, act, out) ==
    /\ trail' = trail \cup {Entry(n, act, out)}
    /\ UNCHANGED purview

\* _require_write refuses request n.
Refused(n) == jobs[n].op \in Writes /\ ~jobs[n].mayWrite

-------------------------------------------------------------------------------
(* What the steps of a request do outside the process.                     *)

Denies(n) ==
    /\ jobs[n].at = "new"
    /\ Refused(n)
    /\ Notes(n, jobs[n].op, "denied")

\* A slip: the attempt is left to be recorded with the outcome.
AttemptsUnrecorded(n) ==
    /\ Is(n, Writes, "new")
    /\ ~Refused(n)
    /\ UNCHANGED <<trail, purview>>

\* ATTEMPTED is in the trail before the request goes out to Graph.
Attempts(n) ==
    /\ Is(n, Writes, "new")
    /\ ~Refused(n)
    /\ Notes(n, jobs[n].op, "attempted")

\* The directory is asked, and the expansion recorded; Purview is not touched.
Expands(n) ==
    /\ Is(n, {"expand"}, "new")
    /\ Notes(n, "expand", "ok")

\* A search of its case has the name that request n gives one: each kind has its own.
Taken(n) == \E m \in searches : jobs[m].op = jobs[n].op /\ jobs[m].case = jobs[n].case

\* The POST of a create takes effect.
Creates(n) ==
    /\ Is(n, Writes, "attempted")
    /\ IF jobs[n].op = "case"
       THEN cases' = cases \cup {n} /\ UNCHANGED searches
       ELSE ~Taken(n) /\ searches' = searches \cup {n} /\ UNCHANGED cases
    /\ UNCHANGED <<estimates, trail>>

\* Purview answers 409 to a name that the case has already.
NameRefused(n) ==
    /\ Is(n, Searching, "attempted")
    /\ Taken(n)
    /\ UNCHANGED <<purview, trail>>

\* A slip: the outcome is recorded along with the attempt.
RecordsEarly(n) ==
    /\ Is(n, Writes, "attempted")
    /\ Notes(n, jobs[n].op, "ok")

\* OK is in the trail once Graph has answered the create.
RecordsCreated(n) ==
    /\ Is(n, Writes, "created")
    /\ Notes(n, jobs[n].op, "ok")

\* The POST of run_estimate takes effect; nothing was recorded before it.
Estimates(n) ==
    /\ Is(n, Searching, "recorded")
    /\ estimates' = estimates \cup {n}
    /\ UNCHANGED <<cases, searches, trail>>

RecordsEstimate(n) ==
    /\ Is(n, Searching, "estimated")
    /\ Notes(n, "estimate", "ok")

-------------------------------------------------------------------------------
(* The steps of a request.                                                 *)

rest == <<mayWrite, faults, listing>>

Deny(n) == Denies(n) /\ Goes(n, "error") /\ UNCHANGED rest

Attempt(n) == Attempts(n) /\ Goes(n, "attempted") /\ UNCHANGED rest

Expand(n) == Expands(n) /\ Goes(n, "ok") /\ UNCHANGED rest

Post(n) == Creates(n) /\ Goes(n, "created") /\ UNCHANGED rest

RefuseName(n) == NameRefused(n) /\ Goes(n, "error") /\ UNCHANGED rest

RecordCreated(n) == RecordsCreated(n) /\ Goes(n, "recorded") /\ UNCHANGED rest

NoCache == [at |-> "none", held |-> {}]

\* _create_case drops the read cache of its session, and answers 201.
AnswerCase(n) ==
    /\ Is(n, {"case"}, "recorded")
    /\ cache' = IF mayWrite = jobs[n].mayWrite THEN NoCache ELSE cache
    /\ Goes(n, "ok")
    /\ UNCHANGED <<purview, trail, mayWrite, faults, listLock, reader, shown>>

\* A slip: the answer does not wait for the estimate.
EstimateLeftOut(n) ==
    /\ Is(n, Searching, "recorded")
    /\ Goes(n, "ok")
    /\ UNCHANGED <<purview, trail, rest>>

Estimate(n) == Estimates(n) /\ Goes(n, "estimated") /\ UNCHANGED rest

\* The estimate is recorded, and _create_search answers 201.
AnswerSearch(n) == RecordsEstimate(n) /\ Goes(n, "ok") /\ UNCHANGED rest

\* A step fails: a record that cannot be written, or whose answer is lost; a
\* Graph request refused, or carried out and the answer lost.  The handler
\* raises, and the page is answered with an error.
Fail(n) ==
    /\ faults < MaxFaults
    /\ faults' = faults + 1
    /\ jobs[n].at \notin Answers
    /\ ~Is(n, {"case"}, "recorded")
    /\ \/ UNCHANGED <<purview, trail>>
       \/ Denies(n) \/ Attempts(n) \/ Expands(n) \/ Creates(n) \/ RecordsCreated(n)
       \/ Estimates(n) \/ RecordsEstimate(n)
    /\ Goes(n, "error")
    /\ UNCHANGED <<mayWrite, listing>>

HandlerStep(n) ==
    \/ Deny(n)
    \/ Attempt(n)
    \/ Expand(n)
    \/ Post(n)
    \/ RefuseName(n)
    \/ RecordCreated(n)
    \/ AnswerCase(n)
    \/ Estimate(n)
    \/ AnswerSearch(n)
    \/ Fail(n)

-------------------------------------------------------------------------------
(* The request list and its cache.                                         *)

\* The cases whose creation has been answered.
Answered == {n \in DOMAIN jobs : jobs[n].op = "case" /\ jobs[n].at = "ok"}

work == <<jobs, purview, trail, mayWrite>>

AtRest == [at |-> "idle", force |-> FALSE, need |-> {}, seen |-> {}, from |-> {}]
NothingShown == [held |-> {}, need |-> {}, seen |-> {}, force |-> FALSE]

\* What the last listings of all the readers show.
SeenSoFar == UNION {shown[l].held : l \in Readers}

\* A list request; `force` is the page's refresh.
ListAsk(l, force) ==
    /\ reader[l].at = "idle"
    /\ reader' = [reader EXCEPT ![l] = [at |-> "waiting", force |-> force,
                                        need |-> Answered, seen |-> SeenSoFar,
                                        from |-> {}]]
    /\ shown' = [shown EXCEPT ![l] = NothingShown]
    /\ UNCHANGED <<work, faults, cache, listLock>>

\* Reader l returns this listing.
Shows(l, held) ==
    /\ shown' = [shown EXCEPT ![l] = [held |-> held, need |-> reader[l].need,
                                      seen |-> reader[l].seen, force |-> reader[l].force]]
    /\ reader' = [reader EXCEPT ![l] = AtRest]

\* A slip: a refresh is served from the cache too.
ServesAlways(l) == cache.at = "fresh"

Serves(l) == cache.at = "fresh" /\ ~reader[l].force

\* Under the lock, the cache is found to be set and young enough.
ListCached(l) ==
    /\ reader[l].at = "waiting"
    /\ listLock = "free"
    /\ Serves(l)
    /\ listLock' = l
    /\ reader' = [reader EXCEPT ![l].at = "serving"]
    /\ UNCHANGED <<work, faults, cache, shown>>

\* The cache is read again for the answer.
ListServe(l) ==
    /\ reader[l].at = "serving"
    /\ cache.at # "none"
    /\ Shows(l, cache.held)
    /\ listLock' = "free"
    /\ UNCHANGED <<work, faults, cache>>

\* invalidate, which takes no lock, came between: None is not subscriptable,
\* and the request fails.
ListGone(l) ==
    /\ reader[l].at = "serving"
    /\ cache.at = "none"
    /\ reader' = [reader EXCEPT ![l] = AtRest]
    /\ listLock' = "free"
    /\ UNCHANGED <<work, faults, cache, shown>>

\* A slip: the walk does not keep the lock.
ListWalkUnlocked(l) ==
    /\ reader[l].at = "waiting"
    /\ listLock = "free"
    /\ ~Serves(l)
    /\ reader' = [reader EXCEPT ![l].at = "reading", ![l].from = cases]
    /\ UNCHANGED <<work, faults, cache, listLock, shown>>

\* Under the lock, the walk over the pages begins.
ListWalk(l) ==
    /\ reader[l].at = "waiting"
    /\ listLock = "free"
    /\ ~Serves(l)
    /\ listLock' = l
    /\ reader' = [reader EXCEPT ![l].at = "reading", ![l].from = cases]
    /\ UNCHANGED <<work, faults, cache, shown>>

\* The last page is read.  A case created meanwhile may have been on a page
\* still to come, or not.  There are at most MAX_PAGES pages: a longer list is
\* cut off, and says that it is.
ListRead(l) ==
    /\ reader[l].at = "reading"
    /\ \E late \in SUBSET (cases \ reader[l].from) :
          LET held == reader[l].from \cup late IN
          /\ cache' = [at |-> "fresh", held |-> held]
          /\ Shows(l, held)
    /\ listLock' = "free"
    /\ UNCHANGED <<work, faults>>

\* A slip: the lock is not released when a page cannot be read.
ListFailsLocked(l) ==
    /\ reader[l].at = "reading"
    /\ faults < MaxFaults
    /\ faults' = faults + 1
    /\ reader' = [reader EXCEPT ![l] = AtRest]
    /\ UNCHANGED <<work, cache, listLock, shown>>

\* A page cannot be read: the request fails and the cache stays as it was.
ListFails(l) ==
    /\ reader[l].at = "reading"
    /\ faults < MaxFaults
    /\ faults' = faults + 1
    /\ reader' = [reader EXCEPT ![l] = AtRest]
    /\ listLock' = "free"
    /\ UNCHANGED <<work, cache, shown>>

\* CACHE_TTL_SECONDS have passed.
CacheAges ==
    /\ cache.at = "fresh"
    /\ cache' = [cache EXCEPT !.at = "aged"]
    /\ UNCHANGED <<work, faults, listLock, reader, shown>>

ListStep(l) ==
    \/ ListCached(l)
    \/ ListServe(l)
    \/ ListGone(l)
    \/ ListWalk(l)
    \/ ListRead(l)
    \/ ListFails(l)

\* Someone without the role signs in from another tab of the same browser: a
\* new session, with services and a cache of its own.
SignsInAgain ==
    /\ mayWrite
    /\ \A l \in Readers : reader[l].at = "idle"
    /\ mayWrite' = FALSE
    /\ cache' = NoCache
    /\ UNCHANGED <<jobs, purview, trail, faults, listLock, reader, shown>>

ServerInit ==
    /\ jobs = <<>>
    /\ cases = {}
    /\ searches = {}
    /\ estimates = {}
    /\ trail = {}
    /\ mayWrite = TRUE
    /\ faults = 0
    /\ cache = NoCache
    /\ listLock = "free"
    /\ reader = [l \in Readers |-> AtRest]
    /\ shown = [l \in Readers |-> NothingShown]

ServerStep ==
    \/ \E n \in DOMAIN jobs : HandlerStep(n)
    \/ \E l \in Readers : ListStep(l) \/ (\E force \in BOOLEAN : ListAsk(l, force))
    \/ CacheAges
    \/ SignsInAgain

-------------------------------------------------------------------------------
(* The server with any page before it.                                     *)

\* What may arrive: nothing of the page is relied on, not even that there is a
\* case of the id it names; its role is that of its cookie's session.
Requests ==
    [row : Rows, op : Ops, case : Nat, mayWrite : {mayWrite}, at : {"new"}]

\* A page sends some requests, or loses its connection: what goes on here is
\* not touched by that.
ClientStep ==
    LET new == SubSeq(jobs', Len(jobs) + 1, Len(jobs')) IN
    /\ jobs' = jobs \o new
    /\ new \in Seq(Requests)
    /\ faults' \in faults..MaxFaults
    /\ UNCHANGED <<purview, trail, mayWrite, listing>>

\* What every page may rely on, and what no page can do more than.
ServerSpec == ServerInit /\ [][ServerStep \/ ClientStep]_server

(***************************************************************************)
(* Properties.                                                             *)
(***************************************************************************)

\* There is nothing in Purview that the trail does not know of: whatever was
\* created, the attempt was recorded before, even when the handler failed right
\* after the create (Workflow.create_case, create_search).
WrittenIsAttempted ==
    \A n \in cases \cup searches : Entry(n, jobs[n].op, "attempted") \in trail

\* What the trail calls done was done: an OK record of a create names something
\* that Purview holds, one of an estimate a search being estimated.
OkIsTrue ==
    \A e \in trail : e.out = "ok" =>
        CASE e.act = "case" -> e.n \in cases
          [] e.act \in Searching -> e.n \in searches
          [] e.act = "estimate" -> e.n \in estimates
          [] OTHER -> TRUE

\* A refresh shows every case whose creation was answered before the refresh was
\* asked for, whatever the cache holds (list_requests with force).
RefreshShowsAll == \A l \in Readers : shown[l].force => shown[l].need \subseteq shown[l].held

\* The list does not go back: it shows every case that a listing finished before
\* it was asked for showed.  The lock keeps a slow walk from overwriting the
\* cache with what it read before a later one.
ListNeverGoesBack == \A l \in Readers : shown[l].seen \subseteq shown[l].held \/ shown[l] = NothingShown
===============================================================================
