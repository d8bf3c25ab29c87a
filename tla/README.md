# dsar-assist: a TLA+ verification project

dsar-assist is a web service (and a desktop program) that helps an operator
answer a data subject access request: it creates an eDiscovery case in
Microsoft Purview, expands a subject's identities, starts two searches, and
leaves an audit trail that is a hash chain.  This directory holds TLA+ modules
of its parts that keep state, TLC configurations that check them, and proofs.

Paths below are those of the repository; `src/dsar/...` is its package.

## 1. Inventory

| Component | State | Operations | Talks to |
|---|---|---|---|
| Audit trail, `audit/trail.py`, `audit/record.py` | lock, cached `_seq` and `_prev` | `write`, and its rebuild on `StaleHead` | a sink |
| Blob sink, `audit/blob.py` | `_created`, `_offset` per day | `append`, `_ensure_blob`, `head`, `read_all` | one append blob per UTC day in Azure storage |
| Local sinks, `audit/sink.py` | one file per UTC day in a directory | `append`, `head`, `read_all` | the disk, other processes on it |
| Verifier, `audit/verify.py` | none | `verify_chain` | a trail that has been read |
| Evidence and reports, `audit/evidence.py`, `audit/report.py` | none | pure functions of a trail | |
| Sessions and flows, `auth/session.py` | `SessionStore`, `FlowStore`, each with limits and expiry | `create`, `get`, `remove`, `put`, `take` | auth routes, API route |
| Auth routes, `web/auth_routes.py` | none of their own | login, callback, logout | stores, MSAL, trail |
| API route, `web/app.py` | services per session | `api`, `whoami` | stores, limits, handlers in the threadpool |
| Handlers, `web/api.py` | none | the case, batch, export and report endpoints | workflow, case service |
| Workflow, `cases/workflow.py` | none | create case, expand, create search, estimate, export | Graph, trail |
| Request list, `cases/service.py` | a cached walk and its lock | `list_requests`, `invalidate`, searches, statistics | Graph |
| Graph client, `graph/*.py` | token | one request, one retry after a claims challenge | Microsoft Graph |
| Page, `web/static/app.js` | the open case, timers, batch rows, the two queries | single-case flow, expansion, narrowings, polling, batch, idle timer | API and auth routes, by cookie |
| Limits, `web/limits.py` | the times of each caller's last requests, the last read of each search | `RateLimiter.check`, `MinInterval.check` | routes |
| Case data, `cases/model.py`, `received.py`, `deadline.py`, `reference.py` | the date of receipt, in the case's description | parsing, the statutory deadline | Purview, where people edit the description |
| Expansion, `identity/*.py` | none | aliases, the two queries, narrowing a query | directory, handlers |
| Token providers, `auth/*.py` | a cached token with a lock, a cached assertion | `get_token`, `ManagedIdentityToken.__call__` | MSAL, the identity endpoint |
| Metrics, doctor, configuration, CLI, logging | a counter file | | |

How they interact.  The page sends requests with a session cookie.  `api`
looks the session up, awaits the body, looks it up again and hands the request
to a handler in a threadpool; the handlers of one session share one set of
services, and with them the list cache.  A writing handler is a fixed sequence:
role check, ATTEMPTED record, Graph request, OK record, answer.  All handlers
and the auth routes share one `AuditTrail` per process.  Processes share
nothing but the storage container.

What is hard here:

- two processes on one append blob, during a rolling deployment, with
  positions that are sent only when known, lost answers, and requests that land
  after their caller has given up;
- one lock around a write that makes several HTTP requests;
- two `await`s in `api`, and everything that can end a session in between;
- stores at their bounds, where eviction must pick its victim;
- a create, its record and its answer that fail separately, and a page that
  retries from what it was answered;
- page callbacks that re-enable a button while the work it started is going on;
- one `state.case_id` for the form and the case view, and answers that come
  after the operator has moved on;
- a cache that is invalidated without the lock it is read under;
- a local file that several processes append to, where a write may be short, a
  flush may raise after it, and a power cut takes back what was not flushed;
- narrowings laid on two boxes one answer after another, while the operator edits,
  resets or expands somebody else;
- an evidence pack that pairs attempts and outcomes of concurrent handlers by
  their order in the trail;
- several threads that find one access token expired.

What makes each part correct:

- **Audit trail**: no record that was acknowledged is lost, no call is recorded
  twice, records link to records before them, one process at a time yields an
  intact chain, the lock is given back.
- **Sign-in**: bounds hold, one operator never evicts another, a flow is
  redeemed once and by the browser that began it, nothing runs on a session
  that has ended, whoever is signed in is recorded as such.
- **Case work**: nothing exists in Purview without a record of the attempt,
  what the trail calls done was done.
- **Batch**: a row that is done has its case and both searches; duplicates
  only arise from failures; one worker at a time has a row.
- **Case page**: what is shown is of the case it is shown under, a case that is
  being estimated is read again, a button that was disabled comes back.
- **Local trail**: an acknowledged record can be read back from the disk if the disk
  took all of it, numbers are given out once, a process that was alone leaves a chain
  that verifies.
- **Evidence**: a record that verifies and was not rewritten vouches for all before it;
  no export that was started and no record of the case is missing; the rows of a pack
  are the searches there were.
- **Queries**: a narrowing narrows what its brackets are right for, the expanded query finds what the naive one
  does, the chips and the warning tell what the boxes hold, no search of bare
  words goes out unasked.
- **Access**: the limit holds in every window, a refresh token is redeemed once for
  each expiry, a challenge is answered by one retry with a newer token, a cached
  assertion is not used at the end of its life.
- **Deadline**: in the next month, on the same day or on its last; it comes from the
  date that was entered and from nothing in the operator's text.
- **Request list**: a refresh shows what was there, the list never goes back.

PROJECT.json lists every component with its status, and under "hazards" every
place where these can go wrong, with the property that covers it.

## 2. The modules

| Module | Models | Extends or instantiates |
|---|---|---|
| `ChainLog` | what the audit trail promises: one growing chain, nothing recorded twice | |
| `AuditTrail` | `AuditTrail.write` with its lock, and `AppendBlobSink`, in several replicas over one container | instantiates `ChainLog` (`Promise`) |
| `AuditTrailProofs` | theorems about `AuditTrail`; for one replica, the refinement of `ChainLog` | `AuditTrail`, SequenceTheorems, TLAPS |
| `SignIn` | `SessionStore`, `FlowStore`, the auth routes, the two awaits of `api`, the idle timer | |
| `SignInProofs` | theorems about `SignIn` | `SignIn`, FiniteSetTheorems, TLAPS |
| `CaseWork` | the writing handlers, `Workflow`, the Graph request of each, the request list and its cache | |
| `Batch` | `runBatch` and `runBatchRow` of the page | extends `CaseWork`: its requests are the page's |
| `CaseWorkProofs` | theorems about the handlers and the list with any page before them, about the batch, and about `CaseData` | `Batch`, `CaseData`, FiniteSetTheorems, SequenceTheorems, TLAPS |
| `CasePage` | the form, the case view, poll, ticker, Refresh, exports and sign-out of the page, over the handlers that serve them | |
| `CasePageProofs` | theorems about `CasePage` | `CasePage`, TLAPS |
| `LocalTrail` | `AuditTrail.write` through a `JsonlFileSink`, in several processes on one directory | |
| `LocalTrailProofs` | theorems about `LocalTrail` | `LocalTrail`, TLAPS |
| `Evidence` | the records of concurrent handlers, `verify_chain` on a file, `build_evidence` | |
| `EvidenceProofs` | theorems about the verifier and the pack | `Evidence`, FiniteSetTheorems, WellFoundedInduction, TLAPS |
| `QueryText` | the texts of `identity/kql.py` and `templates.py`, and what they find | |
| `Queries` | the form's two boxes: expand, narrow, edit, reset, run, clear, with the handlers | extends `QueryText` |
| `QueryProofs` | theorems about `compose`, narrowing, and what the page says of its boxes | `Queries`, TLAPS |
| `Limits` | `RateLimiter` and `MinInterval` | |
| `Access` | an API request on its way to Graph: limits, token, assertion, retry | extends `Limits`: its requests are what is limited |
| `AccessProofs` | theorems about `Limits`, the assertion and the tokens | `Access`, WellFoundedInduction, TLAPS |
| `CaseData` | the deadline, and the date of receipt in a description | instantiated by `MCBatch` |
| `MC...` | names, symmetry and sample data for TLC | each its own module |

How state and actions correspond to the code:

**AuditTrail.**  `log` is the storage container: the blocks in the order the
service accepted them, each with the day of its blob.  `head`, `lock`, `created`
and `offset` are the fields of one replica's `AuditTrail` and `AppendBlobSink`;
`call[p][t]` is where a thread stands inside `write`: "built" (the record is
made on the cached head), "landed" (the service has committed it and the answer
is on its way), "stale" (412) and "rereading" (`head()` under way).  One action is
one HTTP request or what the code does with its answer: `EnsureBlob`,
`AppendLands`, `AppendStale`, `AppendFails`, `AppendTimesOut` (the caller gives up
and the request may still land: `LateAppend`), `AnswerLost`, `AppendAnswered`,
`Relist`, `FetchBlob`, `Rebuild`, `RereadFails`.  `Start`, `StartDone`,
`StartFails` and `Stop` are a replica's life, `NextDay` is midnight UTC.  A hash
is named by the position of its record: SHA-256 is taken to be injective.

**SignIn.**  `sessions` and `flows` are the two stores; `login`, `callback`,
`logout` and `whoami` have no `await` and are one action per outcome.  `api` is
three steps (`Arrives`, `BodyRead`, `Answered`), because it awaits the body and
then the handler.  `trail` is the set of records those routes wrote.  `page` is
whether a tab shows itself signed in, and its idle deadline.

**CaseWork.**  `jobs` are the API requests received, each with how far its
handler is; `cases`, `searches` and `estimates` are what Purview holds.  A
writing handler is the sequence `Attempt`, `Post`, `RecordCreated`, and for a
search `Estimate` and `AnswerSearch`; `Deny` is `_require_write`; `RefuseName` is
Purview's 409 to a search whose name its case has (`workflow.py:46-49`); `Fail` is any
one of these steps failing, with or without having taken effect.  `cache`,
`listLock` and `reader` are `CaseService`, where `invalidate` takes no lock.
`ServerSpec` is the server alone: any client may send any requests at any time
(`ClientStep`), and failures may happen anywhere.

**Batch.**  `row` is the table, `hand` the workers of each run, and `queue` the rows
a run has still to take: a set, since a run takes its rows in the order of the table.
`Deliver`, `DeliverError` and `Cut` are an answer, an error and a lost
connection; each is followed at once by what the worker sends next, as in the
code, where nothing else runs between two awaits.

**CasePage.**  `flight` are the page's requests under way with what they have
been answered; `caseId`, `view`, `form` (what the folded first step says),
`title`, `table`, `wait`, `timers`, `busy`, `run` and `exported` are the page's
`state` and what it draws of it.  The request that `refreshCase` awaits is known
by who awaits it (`from`: openCase, Refresh, a poll, an export), since they go on
differently.  Reading a case is one request for its list of searches and one for
each search, as in `CaseService.searches_for`; a read that has begun is served to
its end although the operator signs out.  That Purview refuses a search by its name is
one of the errors of `ServeFails` here: `ServeSearch` may serve it again, which adds
behaviours and takes none away.  After a run the view is titled with the reference in
the form and reads `state.case_id` (`RunDone`), which need not be one case.

**LocalTrail.**  `file` holds, for each day, the writes its file took, each with
how much of a line it left: all, all but the newline, less, or a part that ends
inside a character.  `at[p]` is where the process's call of `write` stands in
`JsonlFileSink.append` ("append", "fsync", "chmod"); the threads of a process queue
for the lock of the trail, so there is one such call.  `Start` is `build_sink` and the constructor of the
trail, which reads the head once; `Degrade` is its fall back to stderr.  `Write`
may be short, as nothing looks at what `os.write` returns; `FsyncRaises` stands for
the flush and the `chmod` after it, both after the bytes are in the file.
`PowerCut` leaves of each file what was synced and any beginning of the rest.

**QueryText and Queries.**  A query is a sequence of terms joined by OR, a term the
set of items it finds; every term is known by the addresses or words it looks for,
over the smallest world of items that tells them apart.  `Compose` brackets by the
text alone, as `compose` does, and `Meaning` reads the result as KQL does, AND
before OR.  Whether a text's parentheses look like one group is part of its form, since
`_wrapped_in_one_group` counts those inside quotes too: a hand edit of several terms may
look like one (`Deceptive`), and is then narrowed without a bracket.  In `Queries`, `box`, `generated`, `current`, `narrowings` and `subject`
are the page's; `applying[a]` is one click on "Apply", which holds the text it sent
and the boxes it has still to narrow; `run` holds the texts of the two chains as
they were when Run was clicked.  The answer to a narrowing is written over whatever
the box holds by then (`Applied`), as in the code.

**Evidence.**  `trail` are the records in order, `open` the handlers under way,
`made` and `started` what Purview holds and exports.  `Begins`, `Done`, `Answered`
and `Breaks` are one handler: attempt, effect, record, or the end of it anywhere
between.  `ReadLine` is one turn of the loop of `verify_chain` on a file in which
records may be missing, moved, repeated or altered; an altered record carries the
number and the predecessor that fit, so that only its hash betrays it (`Edited`), or
has been hashed anew, which anyone can do with a hash that has no key (`Forged`), and
then only the next record that was kept betrays it.  `Searches` is `_searches`, record by record.

**Limits and Access.**  `events` is the limiter's table and `allowed` the history
of what it let through.  `thread[th]` is a request in the pool: wanting a token,
holding the provider's lock ("asserts", "redeems"), or sent to Graph.  `cache` is
MSAL's access token, `identity` the cached assertion with the expiry that the code
believes and the real one, which differ when the endpoint's answer cannot be read.
Nothing is assumed of how long the identity's tokens live: `_mint` hands on one of any
life as it was minted (`auth/managed_identity.py:113-126`), and `AssertionLives` says so;
what it is about is the cached one.

**CaseData.**  Dates are their three numbers, and `Ordinal` is `date.toordinal`,
defined from the lengths of months and years.  A description is its lines, of which
some look like a marker, with any digits for a date.

## 3. The runs

All are deterministic breadth-first runs of TLC; none replaces a definition.  The
two batch runs also evaluate the assumptions of `MCBatch`: for every day of eight
years, around leap years and a century, ordinals count days, the deadline is 28 to
31 of them after receipt, and a request is overdue from the day after it.

| Run | Shows | Bounds, and why they are enough |
|---|---|---|
| `audit_solo` | one process: the container verifies, and refines `ChainLog` | two threads meet at the lock, four records over two days, two restarts: each of the three offsets (unknown, known, next day) is met before and after a restart |
| `audit_fleet` | two processes: what a race cannot break | three calls, one lost answer, one late request, one stop, one midnight: a fork needs two writers and the record after it a third |
| `sign_in` | stores, routes, requests | three operators for a store of two (the full store), one session per operator (the eviction), two browsers. `IdleTTL = 0` means that a session not used within a tick has expired and `AbsoluteTTL = 1` that a used one lives one tick more, so both limits are met apart within three ticks |
| `batch` | two rows by two workers, with searches refused by their name after a lost answer; what the page does is what some client of `ServerSpec` may do, so that the theorems about the server hold with this page | a run and a retry, one failure anywhere or one cut connection, and the role lost halfway |
| `batch_list` | two readers of the list while a case is created | two readers are needed for a slow walk and a later one; one fault for a failed walk |
| `case_page` | the page with two cases | two requests under way at once, a run of two searches, and one request that fails; `MaxChains = 2` chains of reads that poll, when one is started by hand. A timer that `state.pollTimer` has lost counts as such a chain; two estimates end (`MaxDone`) |
| `case_answers` | what must happen on that page | a run of two searches, either of which may fail while the other is under way; no estimate ends (`MaxDone = 0`), so that polling never stops by itself, and so nothing can be exported: liveness costs more |
| `local_trail` | two processes, one directory | three calls: a record, one that breaks, one after it. One each of: short write, raising flush, process killed, power cut; two days |
| `evidence` | packs and verdicts | one reference for all cases and one name for all searches, so everything that can be confused is; four operations, two at once (case, search, search, export), one record of the other kinds; files of up to five lines over four records, each line kept, changed, or made up with a right hash |
| `access` | limits and tokens | two callers for a table of one (the table overflows), two requests in a window, three in all, two threads that meet at the provider's lock; a token and its redemption, and the next; a skew of 2 with assertions that live 1 and 4, so less than the skew and as much as twice, read and unreadable |
| `queries` | the two boxes | two people, since what is of the first may end up under the second; two clicks at once, with a narrowing of one clause and one of two; one hand edit, one run, one failure |
| `shared_case_id` | where the code does not do what it says | one search and no fault: the smallest that reaches it |

Every property has a mutant in PROJECT.json: a definition of the model changed as
a plausible slip in the code would, with which the property fails in that run.
The definitions that begin "A slip" are these.

Fairness.  `AuditTrail!FairSpec` lets every thread inside `write` run on: each
of its requests has connect, read, write and pool timeouts (`audit/blob.py`), and
the threads are the operating system's.  `Batch!FairSpec` is weak fairness of the
list readers taken together: one that holds the lock asks for a bounded number of
pages, each request with a timeout.  `CasePage!FairSpec` has every request of the
page served or failed, and its answer taken: the handlers end for the same
reasons and the page's callbacks run.  Neither the operator nor a poll timer nor
Purview has to do anything.  The other specifications state no fairness and have
no liveness property.

Deadlock is not checked where the system really ends: every bound is used up, the
batch is done, the operator has signed out.

## 4. What is proved

For every number of replicas, threads, calls, days, lost answers, late requests
and stops (`TrailAssumption` says only that the bounds are natural numbers and
that no thread is called Nobody):

- `TypeCorrect`: `Spec => []TypeOK`.  `TypeOK` is inductive as it stands.
- `RecordsAreRooted`: `Spec => []Rooted`.  A committed record is built on one that
  was committed before it and has the next number.  A race can fork the trail, and
  can never leave a gap in the numbers or a link to nothing.
- `AckedAreStored`: `Spec => []AckedIsStored`.  A record that a caller was given is
  in the container from then on.
- `RecordedOnce`: `Spec => []OneRecordPerCall`.  No rebuild, timeout or late request
  records a call twice.
- `WriteIsExclusive`: `Spec => []OneWriterAtATime`.  One thread of a replica is in
  `write` at a time, and it holds the lock.
- `NeverRefusedTwice`: `Spec => []RefusedAtMostOnce`.  The `RuntimeError` behind
  `_REBUILD_ATTEMPTS` is out of reach.
- `ForkNeedsNoPosition`: `Spec => []ConditionalIsLinked`.  `verify_chain` reports no
  break at a record that was appended at a position.

With `Alone(r)`, that is one replica (stopped and started as often as wished), no
lost answer and no late request, and any number of threads, calls and days:

- `OneReplicaKeepsTheChain`: `Spec => []ChainIntact`.
- `OneReplicaKeepsThePromise`: `Spec => ChainPromise`, the refinement of `ChainLog`.

None of the three can be dropped: section 5 has the two replicas and the lost answer, and a late request that lands after the next,
unconditional append forks the chain in the same way.

`Rooted` speaks of the container only and is not inductive: a record is built
from a head in memory, long before it is committed, and by then other replicas
have moved on.  `RootedInv` adds the same for everything a record can come from:

- the records of `log` (this is `Rooted`);
- each replica's cached `head` is a record of the log and its number, or the
  genesis;
- each record a thread holds in `call` is built on such a head, and a thread whose
  block was committed knows where it is in the log;
- each request in `flight` that may still land is built on such a head too.

The steps: `LogGrows` says that a step keeps every record where it is and adds at
most one, built on what was there.  So a head, a held record or a request that
was rooted stays rooted (`HeadMoves`, `CallMoves`, `FlightMoves`, one case per
action), and what is newly learned, by `ReadHead` or by an answer, is rooted
because the log was.  `RootedStep` puts these together.  The lemmas before them
are about the operators the actions are built of (`Moves`, `Leave`, `Built`,
`Block`, `ReadHead`).  `AckedIsStored` is inductive next to `RootedInv`: a call is
newly acknowledged only by a thread whose block is in the log (`AckedMoves`).

`OneRecordPerCall` needs another strengthening, because nothing in the container
says that a record is not about to be written again.  `CallsInv` says that a call
is in one place only: in one thread, or in one request in flight, or in the
container, with its thread still waiting for the answer or not.  A commit takes it
from the first or the second place to the third (`CallsLand`, `CallsLandLate`), and
every other step leaves it or takes it from a thread to the flight (`CallsQuiet`).

`RefusedAtMostOnce` and `ConditionalIsLinked` rest on the order in which one replica
writes (`WritesInOrder`).  It knows the end of no blob of a day to come; what it
knows of today's blob is the record its head is on; once refused, it knows nothing
of the day of the refused record until it has been answered again.  The rebuilt
record may be of another day than the refused one, when midnight came between: that
is why a thread in `write` is also said to know no position after the day of its
record, which it can rely on because it holds the lock.  For `ConditionalIsLinked`,
`PositionsHold` says that what is sent with a position is chained to the record
there (also when it lands late), and that a record once appended so follows that
record in its blob for good, since a blob only grows.

`ChainIntact` is about the whole of the log, and its strengthening `SoloInv` about
what the one replica believes of it: its head is the last record, except while an
answer is on the way, and a position it knows is the end of that blob (so it is
never refused: `NeverRefused`).  After a restart the head is read again;
`ScanExact` says that a reading under way has got exactly to the last record of the
blobs fetched so far, which holds because records are committed in the order of the
days and blobs are fetched in it.  For the refinement, `CommitRecords` shows that a
commit is `ChainLog`'s `Record` of its call; every other step stutters.

For the local trail, for every number of processes, days, calls and faults:

- `LocalTypeCorrect`: `Spec => []TypeOK`.
- `AckedSurvives`: `Spec => []AckedOnDisk`.  A record that was acknowledged is on a
  line that parses, unless its own write was short, or the write before it on that line
  was short or is the remains of a call that was never answered (`Spoilt`).  Its
  strengthening (`KeptInv`) says where a call that is past its write has its line, whole
  or short, and that nothing past `synced` is needed by a record that was acknowledged:
  `Fsync` comes before the answer.  A power cut leaves at least what was synced
  (`RemainsKeeps`), so it takes nothing of such a record, nor of an acknowledged one
  before it.
- `AloneIsIntact`: `Spec => []IntactWhenAlone`, and `NumbersNotReused`:
  `Spec => []SeqReused`.  Both follow from `AloneInv`, which is said of all writes in
  one order, over the days: a write with only whole ones up to it continues the one
  just before it (`Chained`); what comes after a line that parses is numbered above
  it (`Increasing`), torn lines or not; and the process on the directory goes on from
  the end of that (`Standing`).  A power cut takes from the end of all writes only
  because what no fsync has reached is the last of them (`Flushed`), and this is what
  a kill before midnight breaks: `CutAcrossDays` is the exception in both properties.

For texts of any length over any items (`IsText` says only that there is a term):

- `ComposeNarrows`: what `compose` makes of a text and a fragment finds nothing that the
  text did not, and exactly what both find unless a text of several terms passes for one
  group.  A bracketed text is a single term, and of two texts joined by AND the last term
  of the first is met by the second (`JoinedLast`), which is all of it for a single term.
- `NarrowingsNarrow`: `Spec => []NarrowedWithin`, where the first narrowing of a hand edit
  that was misread as one group is excepted, and the ones after it are not: once there is
  an AND behind it the text looks like a group no more.  A narrowing's answer is written
  over a box it was not made from, so the invariant is said of every text there is:
  of boxes, of pristine copies, and of what each click under way has sent.
- `WarningIsRight`: `Spec => []WarnedWhenLopsided`, inductive next to the invariant of
  `NarrowedWithin` (`NInv`), which types what each click has sent.
- `ChipsAreTrue`: `Spec => []ChipsTell`.  As long as nothing has crossed a narrowing,
  one click at a time is under way, what it sent is still in the box it will be
  written to, and that box lacks the narrowing (`Sends`).
- `ExpandedCovers`: `Spec => []ExpandedCoversNaive`.  A text that no hand has touched
  finds exactly what its person's query and each narrowing laid on it find (`Exact`),
  for boxes, pristine copies and what was sent; with the same narrowings the two
  queries then compare as the two people's do.
- `WordsAloneAreAsked`: `Spec => []UnscopedWasAsked`.  A text that the page takes for
  pristine is unscoped only when it was narrowed after an edit, which the property
  excepts; any other was edited and Run asks; what the chains hold when Run is clicked is
  what was asked about (`SInv`).

For any trail and any file:

- `VerifiedIsWritten`: `Spec => []KeptLinesVouch`.  As long as no break was found, each
  line names the hash of the one before it, and the hash of a kept line was taken over
  the hash of the record before it; so from a kept line downwards every line is the
  record of its place.  Lines that somebody made up and hashed anew can only stand
  after all of the kept ones, and that verify cannot see: the last records of a trail
  may be rewritten or missing.
- `RecordsAccounted`: `Spec => []Accounted`.  A recorded creation has its attempt before
  it, and a case keeps the reference it was attempted under (`Right`, and `Fair` of the
  handlers under way), so that whichever creation a pack goes by, its reference is
  that of the case.
- `RowsTellTheAttempts`: `Spec => []RowsTell`, and `StartedIsShown`:
  `Spec => []ExportsAreShown`, for trails of any length.  What `Searches` computes is
  described by `RowsAre`, for the first n records: as many rows as attempts, as many
  complete ones as answers, the row of each answer with its last export, and for each
  name whose last record is an attempt an open row that is the last of its name.
  `RowsTurn` shows that record n + 1 keeps this, if an answer always follows an attempt
  of its own (`Orderly`).  The handlers see to `Orderly` as long as no two under way
  create one name in one case (`OInv`): the last record of a search under way is its
  attempt.  `LInv` ties each started export to its attempt in the trail, and each
  recorded search to the case it was made in.

For every number of callers, threads and requests, limits, windows and lifetimes:

- `RateIsLimited`: `Spec => []WithinLimit`.  What the limiter remembers of a caller
  is the tail of what it allowed, and all of it that is not older than the window
  (`IsTail`): dropping stale events from the front keeps that (`RecentTail`),
  and so does forgetting a caller whose last event is stale (`KeptTail`).
- `FloorIsKept`: `Spec => []FloorHolds`, from the same relation between `last` and
  the reads that were let through.
- `AssertionsLive`: `Spec => []AssertionLives`, for every skew and any lives.  What is
  believed of an assertion's expiry is the truth, or twice the skew after it was minted
  (`MintedIs`, `Cautious`), and it is given again only while the skew of that is left.
- `RedeemedOncePerExpiry`: `Spec => []OnePerExpiry`, and `RetriesAreFresh`:
  `Spec => []RetriedOnceAndFresh`.  The cache holds the last token that was redeemed
  (`LastCached`); a thread that acquires one holds the provider's lock, and still has
  its reason: a challenge, or a cached token that has expired (`HasReason`).  `Tried`
  counts what a request has sent and relates the token it was refused to the one it
  has now.

For every number of operators, browsers and pages, and all limits and lifetimes:

- `SignInTyped`: `Spec => []TypeOK`.
- `StoreIsBounded`: `Spec => []WithinBounds`, and `BystandersStay`: `Spec => NoBystander`.
  Only a callback adds a session; every other step drops some at most (`Kinds`).
  The sessions of one operator have different places in the order of use
  (`PlacesDiffer`), so that what `create` keeps is below the limit.  A sign-in that
  is refused for a full store must have evicted nothing (`FullKeepsAll`): it drops
  what is too many of one operator, and if it dropped anything it has room.
- `FlowsOpenOnce`: `Spec => []RedeemedOnce`.  A flow that opened a session is in the
  store no more, its number is not given out again, and the browser it was given to
  is the one that came back with it (`FlowsSpent`).
- `SignInsAreRecorded`: `Spec => []SignInIsRecorded`.  The invariant follows the
  cookie: it is handed out after the record (`CookiesRecorded`), under the name the
  session was admitted for (`NamesAgree`).
- `SignedOutIsNotServed`: `Spec => NotServedAfterSignOut`, since a session that was
  signed out of is gone for good (`GoneForGood`), and the second lookup finds only those
  that are there (`HandedOnLive`).

For the server, whatever any page sends, with any number of rows, readers, requests
and failures (`ServerSpec`):

- `NothingUnrecorded`: `ServerSpec => []WrittenIsAttempted`, and `NothingClaimed`:
  `ServerSpec => []OkIsTrue`.  A handler is followed from record to effect to record:
  at each stage the attempt is in the trail, and what the next record will claim is
  in Purview (`Followed`).
- `RefreshIsComplete`: `ServerSpec => []RefreshShowsAll`, and `ListIsMonotone`:
  `ServerSpec => []ListNeverGoesBack`.  `ListInv` says that whatever may be shown next,
  the cache or the walk under way, covers everything shown before and everything that
  a reader was promised.  This holds although the cache is dropped without the lock,
  because it is filled and shown under it only, and a walk starts after the one
  before it has been shown.

For the batch page, with any number of rows, workers, clicks, requests and faults:

- `BatchIsServed`: `Spec => ServerSpec`.  All the page does in one turn is to send
  requests for the next steps of rows that its workers have in hand (`Sends`), so its
  step is one of a client, and the four theorems above hold with it.
- `DoneIsDone`: `Spec /\ []OneWorkerPerRow => []DoneMeansDone`.  What a row remembers is
  so in Purview and in the trail (`Kept`), and the request in hand is the next one of
  its row, for the case the row remembers (`Awaits`).  With two workers on one row the
  second would be false.
- `DuplicatesArePaidFor`: `Spec /\ []OneWorkerPerRow => []DuplicatesNeedFaults`.  Some set
  of requests has one for each step of each row at most, all remembered or in hand
  (`Counts`); whatever else has created something is `Lost`, and every loss is one of
  `faults`.
- `OneRunOneWorker`: `Spec /\ []OneRunAtATime => []OneWorkerPerRow`, where
  `OneRunAtATime` says that only the latest run has rows waiting; and
  `FewRowsOneWorker`: `RowCount <= Width => (Spec => []OneWorkerPerRow)`, which is the
  case of the run `batch`.  A run with all of its rows in hand can meet no other run
  on them, because running rows are not taken (`Parted`).  So the two theorems before
  these hold without a condition for such a batch, and section 5 has the batch for which
  the condition fails.

For the case page, with any number of cases, searches, requests, timers and failures:

- `TableNeverAhead`: `Spec => []NeverAhead`.  Every answer under way, served or
  not yet, and the table are borne out by Purview (`Borne`, `Fits`), which only
  grows (`Grows`); the searches that a run has made are all of one case (`OfOneCase`),
  although `state.case_id` may be another by then.
- `RunningIsWatched`: `Spec => []StillWatched`.  A read that failed has used up a fault,
  and one that sets no poll follows an export (`Sound`); every other step that ends a
  read or takes a timer leaves one of them.

About the deadline, for every date of the calendar: `DueIsNextMonth`,
`DueIsMonotone`, `DueInAMonth`, `OverdueWhenAfter` (counting days and comparing
dates agree, because ordinals grow: `MonthsAdd`, `YearsAdd`, `OrdinalGrows`),
`ReceivedComesBack` and `AcceptedIsDue`.

Every invariant that a passing run checks is stated by one of these theorems, and so
are its action properties and both refinements.  Only model-checked are:

- liveness (`LockFreed`, `ListLockFreed`, `OpenedIsRead`, `RunComesBack`), for which TLAPS
  would need ENABLED;
- the samples of `MCBatch`, day by day, of what is proved of the deadline.

The library's induction theorems take an operator, which none of the provers can
instantiate.  What is said of every number of records here (`RunExists` and
`SearchesAre`: the rows of a pack; `RecentIs`: what the limiter drops) is proved by the
least number for which it would fail (`LeastNat`, from the well-foundedness of the
order of the natural numbers).  None of the modules has a RECURSIVE operator.

## 5. Where the code does something else than the repository says

One has a run that ends in the counterexample:

- **`shared_case_id`** (`web/static/app.js:1072`).  The form runs its searches in
  the case last opened, not in the one it says it has created.

Met while modelling.  The steps are in the modules; where a property is named, adding
it to the run's configuration gives the counterexample.

Audit trail:

- An append carries a position only when this process has already appended to that
  blob (`audit/blob.py:138`).  Two replicas of a rolling deployment that both read
  the head write two records with the same predecessor, and `verify` reports the
  trail as broken (`ChainIntact` in `audit_fleet`).  README.md:245 says "Two
  concurrent writers cannot fork it", docs/CLAIMS.md:89 "Two writers cannot corrupt
  the chain".  What is left is what `audit_fleet` checks: `Rooted`,
  `ConditionalIsLinked` (a fork needs an unconditional append), `OneRecordPerCall`,
  `AckedIsStored`.
- A single replica breaks its own chain when the answer to a committed append is
  lost and the day's offset is not known: the next append goes out
  unconditionally on the old head (`AnswerLost` in `AuditTrail`; with
  `MaxLost = 1` `ChainIntact` fails in `audit_solo`).  `blob.py:223-228` calls the
  design safe for a single replica.
- On a desktop, what `os.write` returns is not looked at (`audit/sink.py:139`): a short
  write leaves a torn line, the next record is on the same line, and both are
  acknowledged, although neither can be read back; `sink.py:11` says that a record
  survives the power going off (`AckedOnDisk` has these two as its exceptions).
- A flush or a `chmod` that raises after the write leaves the record in the file and
  its number to the next one (`SeqReused` allows for it).
- A tail torn inside a UTF-8 character makes `_last_record` raise, and the trail
  cannot be opened; `sink.py:202` says that a malformed tail "is not a reason to
  refuse to write more".  `dsar audit verify` raises on a malformed line, which
  `verify.py:14` lists among what it reports.
- A process killed between write and flush just before midnight, and a power cut
  after the first record of the next day, break a chain nobody touched
  (`CutAcrossDays`).

Evidence:

- `_searches` never closes an entry, whatever its docstring says
  (`audit/evidence.py:187-199`).  Two searches of one name created at once: the
  second answer overwrites the first, whose id is gone from the pack, and an export
  of the first may be shown before the creation of its row.  `RowsTell` and
  `ExportsAreShown` hold where no two such creations overlap.
- An export attempt that failed shows as an export (`evidence.py:238`), and an export
  asked for before its search's creation is recorded is dropped.
- The end of a trail can be rewritten, or cut off, unseen: the hash has no key
  (`audit/record.py:118`), as `tests/test_audit.py:99` says.  What a kept record after
  it vouches for is what `KeptLinesVouch` states.
- A case whose OK record was lost has a pack without its reference and its attempt;
  the packs of cases with one reference share their attempts (`Accounted`).

Sessions and the batch:

- A session that ends while the body of a request arrives fails the assertion
  `assert session is not None  # current_principal just resolved it`
  (`web/app.py:194`): 500 in place of 401 (`SessionStillThere` in `sign_in`).  The
  request is not served (`NotServedAfterSignOut`).
- `withBusy` "makes a double click impossible" (`web/static/app.js:184`), but
  `renderBatch` enables Run while the run is going on (`app.js:1697`): a second
  click gives a waiting row to two workers, and the row gets two cases
  (`OneWorkerPerRow` in `batch`, with three rows and two clicks).  `DoneMeansDone`
  fails as well then: the second answer overwrites the case that the first worker
  searches in.  The run `batch` has as many rows as workers, where this cannot happen
  (`FewRowsOneWorker`); nor can it as long as no click comes while rows are waiting
  (`OneRunOneWorker`).
- `refreshCase` draws what it was answered whichever case is open by then
  (`app.js:1424`; `TableOfTitle` in `case_page`), which the comment at `app.js:1165` calls
  reading "as the wrong case's results entirely".
- `_all_ours_locked` reads the cache again after testing it, while `invalidate`
  takes no lock (`cases/service.py:208, 218`): a list request may answer 500
  (`ListGone`).  So may the comment at `service.py:93-97` be read as a thing of
  the past that it is not.
- A create whose answer is lost, whose OK record fails or whose estimate fails
  is repeated by Retry, against INV-94 (`DuplicatesNeedFaults` bounds by how much): a
  case is created again; a search is refused by its name, if Purview does what
  `cases/workflow.py:46` says, and at every retry, so that its row can never be done
  (`RefuseName`).  The same holds for Run on the page after one of its two chains has
  failed: the other's search is there already.
- Each tab has an idle timer of its own, armed by its own calls (`app.js:305`);
  a tab left alone signs out the tab in use, which shares its cookie.
- A walk of the list that began before a case was created fills the cache after
  `invalidate` did its work, and the list lacks the case until the cache ages or
  Refresh is clicked (`RefreshShowsAll` covers only the latter;
  `web/api.py:268` expects it at once).
- The bound `_REBUILD_ATTEMPTS` and the RuntimeError behind it are never reached
  (`RefusedAtMostOnce`): the attempt after a 412 carries no position.
- One failed or lost read ends the polling of a case for good
  (`app.js:1417, 1496`); this is why `StillWatched` asks for no fault.  It also asks
  for no export: the read after an export sets no poll (`app.js:1606`).
- A timer that `state.pollTimer` no longer names is never cleared: a poll that
  finishes sets it to null while Refresh has just set another
  (`app.js:1222-1224`).  It reads once more, of whatever case is open.
- `renderSignedOut` leaves `state.view` as it is, so that an answer served before
  a sign-out still draws rows, starts the ticker and sets a poll on the sign-in
  screen.
- Export is not under `withBusy`: two clicks before the first answer export twice.
- Signing in again leaves the session before in the store until it expires.
- `run_estimate` writes no ATTEMPTED record, and `Outcome.FAILED` is never written.
- A batch goes on after Clear and after a sign-out of another tab; with a second
  operator's cookie it goes on under that operator's name, or is refused without
  the role.

The two queries (`ChipsTell` speaks of boxes that did not change under a narrowing):

- A narrowing disables nothing: clicked twice before the first answer it is laid
  twice, and of two at once one may be lost (`app.js:976, 1011`).
- An expansion, a Reset or the end of a run while a narrowing is under way is
  overwritten by its answer, which is made the pristine copy as well: the box then
  holds the query of the person before, does not say that it was edited, and is run
  without being asked about.
- A text edited by hand and then narrowed counts as not edited (`app.js:1012`): the
  page does not ask about it again, and an unscoped one goes out on a yes that was given
  for the other query (the exception of `UnscopedWasAsked`).
- A box that has the address left as words only is refused by the server as unscoped
  without the page having asked (`app.js:1032`, `web/api.py:434`); a yes for one
  query covers the other.
- A primary address without "@" is searched by the naive query only
  (`ExpandedCoversNaive` leaves it out).
- `_wrapped_in_one_group` counts parentheses inside quotes (`identity/templates.py:381`).
  A hand edit like `("(") OR (a ")")` passes for one group, gets no bracket, and the
  narrowing is laid on its last term only: what `compose` says cannot happen (the
  exception of `NarrowedWithin`).

Access:

- `web/limits.py:19` calls its limit a fixed window with 2N across a boundary; it
  keeps a sliding log, and `access` shows that there is no such boundary.  With more
  than `MAX_KEYS` callers alive everything is forgotten.
- A request that the poll floor or its size turns away still counts.
- Two threads challenged for the same claims redeem a token each.
- An assertion is checked against its expiry when it is taken from the cache, and not
  when it has just been minted (`auth/managed_identity.py:120`): one that the endpoint
  hands out near its end goes to Entra as it is.  If such a one came with an expiry that
  cannot be read it is even cached, for the skew (the exceptions of `AssertionLives`).
- `_session_services` runs on the event loop: two first calls cannot race, as its
  comment says they could.

Case data:

- `decode_received` has no bound (`cases/received.py:116`).  A description edited in
  Purview to "DSAR-Received: 9999-12-31" makes `due_date` raise, and with it the
  request list, for every operator; the comment at `api.py:284` means `_received_date`
  to prevent that, which only guards the form.  `Raises` is `DueIsNextMonth`'s one
  exception.

## 6. What is not modelled

- Wording, layout, filtering and parsing in the page, the CSV of a batch among them;
  `healthz` and static files; configuration, doctor, command line, logging, metrics:
  no state that another part relies on.
- MSAL, the identity endpoint and Entra: a sign-in succeeds, is refused or fails; a
  token is redeemed or is not.  Building the client, and its discovery request, which
  blocks the event loop, are left out.
- The kinds of Graph error, paging and the parsing of bodies: a request takes effect
  or not, and answers or not.  A walk of the request list is one reading of all of it;
  one of more than `MAX_PAGES` pages is cut off and says so (`cases/service.py:224-247`).
- The order of records inside `CaseWork` and `SignIn`: their trails are sets, the
  order is the matter of `AuditTrail`, `LocalTrail` and `Evidence`.
- The loader of templates and the bounds on the length of a query: input checks that
  refuse.
- Text that KQL does not read as a query (quotes or parentheses that do not match), and
  the operators KQL puts between words itself: `QueryText` has ANDs and ORs that are
  written out.
- The format of references, and the parsing of Purview's cases and searches.
- What an attacker might do to a hash: SHA-256 is taken to be injective.

## 7. Plan

What is left, in this order:

1. The type invariants of `CasePage` and of `Batch` as theorems.
2. The CSV of a batch, and the paging of the Graph client under a list that changes.
