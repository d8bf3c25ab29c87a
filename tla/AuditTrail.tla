------------------------------ MODULE AuditTrail ------------------------------
(***************************************************************************)
(* The hosted audit trail: AuditTrail (audit/trail.py) in every running    *)
(* replica, each writing through its own AppendBlobSink (audit/blob.py) to *)
(* one storage container that holds one append blob per UTC day.           *)
(*                                                                         *)
(* A replica's threads share one AuditTrail, whose lock is held for all of *)
(* write(): building the record on the cached head, creating the day's     *)
(* blob, the append, and the rebuild on a 412.  A replica learns the head  *)
(* by reading every blob, one request per blob.  Replicas share nothing    *)
(* but the container; two run at once during a rolling deployment.         *)
(*                                                                         *)
(* Data abstracted: the container is one sequence `log` of the blocks in   *)
(* the order the service accepted them, each with the day of its blob, so  *)
(* blob d is the records of day d in that order.  A record's hash is named *)
(* by its position in log (0 is GENESIS_HASH): SHA-256 taken as injective. *)
(* A byte offset just past a record is named by that record's position: a  *)
(* blob only grows, so it has that length exactly while that record is its *)
(* last.  A record's content is the number of the call that wrote it.      *)
(***************************************************************************)
EXTENDS Integers, Sequences

CONSTANTS
    Replicas,         \* the revisions that may run at once
    Threads,          \* request threads of one replica
    Nobody,           \* "the lock is free"
    MaxDay,           \* bound: midnights seen, plus one
    MaxCalls,         \* bound: calls of AuditTrail.write
    RebuildAttempts,  \* _REBUILD_ATTEMPTS
    MaxLost,          \* bound: answers lost after the block was committed
    MaxLate,          \* bound: requests that outlive the call that sent them
    MaxCrashes        \* bound: replicas stopped or killed

ASSUME TrailAssumption ==
    /\ Nobody \notin Threads
    /\ MaxDay \in Nat \ {0}
    /\ MaxCalls \in Nat
    /\ RebuildAttempts \in Nat \ {0}
    /\ MaxLost \in Nat
    /\ MaxLate \in Nat
    /\ MaxCrashes \in Nat

VARIABLES
    log,        \* blocks the service committed, in commit order
    blobs,      \* days whose blob exists
    flight,     \* requests whose caller gave up and which may still land
    today,      \* the UTC day
    up,         \* replica -> "down", "starting" (first head read) or "up"
    head,       \* replica -> AuditTrail._seq and ._prev
    lock,       \* replica -> the thread inside AuditTrail.write, or Nobody
    created,    \* replica -> AppendBlobSink._created
    offset,     \* replica -> AppendBlobSink._offset by day; 0 when not known
    scan,       \* replica -> the read_all under way: blobs to fetch, last record
    call,       \* replica -> thread -> where its call of write() stands
    calls,      \* calls of write() so far: the number of the latest one
    acked,      \* history: calls whose record was returned to the caller
    spent       \* bounds used up: lost answers, late requests, crashes

storage == <<log, blobs, flight>>
vars == <<log, blobs, flight, today, up, head, lock, created, offset, scan,
          call, calls, acked, spent>>

Days == 1..MaxDay
Idle == [pc |-> "idle", attempt |-> 0, ev |-> 0, seq |-> 0, prev |-> 0,
         day |-> 1, at |-> 0]
NoScan == [todo |-> {}, last |-> 0]
NoHead == [seq |-> 0, prev |-> 0]

-------------------------------------------------------------------------------
(* The container.                                                          *)

InDay(d) == {i \in DOMAIN log : log[i].day = d}

\* i is the last record of the blob of day d.
LastInDay(i, d) == i \in InDay(d) /\ \A j \in InDay(d) : j <= i

SeqAt(i) == IF i = 0 THEN 0 ELSE log[i].seq

\* The append position condition: day d's blob still ends at record e.
StillAt(e, d) == LastInDay(e, d)

\* The service refuses a conditional append whose position has moved, and
\* takes an unconditional one (expected = 0) wherever the blob ends.
Accepts(expected, d) == expected = 0 \/ StillAt(expected, d)

Block(c, expected) ==
    [ev |-> c.ev, seq |-> c.seq, prev |-> c.prev, day |-> c.day,
     cond |-> expected # 0]

-------------------------------------------------------------------------------
(* AuditTrail.write: the lock, the record, the outcomes of a call.         *)

\* The record that call ev builds in replica p from the cached head.
Built(h, ev, attempt) ==
    [pc |-> "built", attempt |-> attempt, ev |-> ev, seq |-> h.seq + 1,
     prev |-> h.prev, day |-> today, at |-> 0]

\* Thread t of replica p goes on in state c.
Moves(p, t, c) == call' = [call EXCEPT ![p][t] = c]

\* A slip: an exception leaves the lock taken.
LeaveLocked(p, t) ==
    /\ Moves(p, t, Idle)
    /\ UNCHANGED lock

\* Leaving `with self._lock`, by a return or by an exception.
Leave(p, t) ==
    /\ Moves(p, t, Idle)
    /\ lock' = [lock EXCEPT ![p] = Nobody]

At(p, t, where) == up[p] = "up" /\ call[p][t].pc = where

\* A slip: write() without the lock.
WriteUnlocked(p, t) ==
    /\ At(p, t, "idle")
    /\ calls < MaxCalls
    /\ calls' = calls + 1
    /\ lock' = [lock EXCEPT ![p] = t]
    /\ Moves(p, t, Built(head[p], calls + 1, 1))
    /\ UNCHANGED <<storage, today, up, head, created, offset, scan, acked, spent>>

\* A slip: the sequence number advances before the sink accepts.
WriteAdvancesEarly(p, t) ==
    /\ At(p, t, "idle")
    /\ lock[p] = Nobody
    /\ calls < MaxCalls
    /\ calls' = calls + 1
    /\ lock' = [lock EXCEPT ![p] = t]
    /\ Moves(p, t, Built(head[p], calls + 1, 1))
    /\ head' = [head EXCEPT ![p].seq = @ + 1]
    /\ UNCHANGED <<storage, today, up, created, offset, scan, acked, spent>>

\* A thread enters write() and builds its record under the lock.
Write(p, t) ==
    /\ At(p, t, "idle")
    /\ lock[p] = Nobody
    /\ calls < MaxCalls
    /\ calls' = calls + 1
    /\ lock' = [lock EXCEPT ![p] = t]
    /\ Moves(p, t, Built(head[p], calls + 1, 1))
    /\ UNCHANGED <<storage, today, up, head, created, offset, scan, acked, spent>>

\* A slip: PutBlob without If-None-Match empties the day.
EnsureBlobOverwrites(p, t) ==
    LET d == call[p][t].day IN
    /\ At(p, t, "built")
    /\ d \notin created[p]
    /\ log' = SelectSeq(log, LAMBDA r : r.day # d)
    /\ blobs' = blobs \cup {d}
    /\ created' = [created EXCEPT ![p] = @ \cup {d}]
    /\ UNCHANGED <<flight, today, up, head, lock, offset, scan, call, calls,
                   acked, spent>>

\* PutBlob with If-None-Match: an existing blob answers 409 or 412 and stays.
EnsureBlob(p, t) ==
    LET d == call[p][t].day IN
    /\ At(p, t, "built")
    /\ d \notin created[p]
    /\ blobs' = blobs \cup {d}
    /\ created' = [created EXCEPT ![p] = @ \cup {d}]
    /\ UNCHANGED <<log, flight, today, up, head, lock, offset, scan, call, calls,
                   acked, spent>>

\* PutBlob fails, or its answer is lost: write() raises, the day is not noted.
EnsureBlobFails(p, t) ==
    LET d == call[p][t].day IN
    /\ At(p, t, "built")
    /\ d \notin created[p]
    /\ blobs' \in {blobs, blobs \cup {d}}
    /\ Leave(p, t)
    /\ UNCHANGED <<log, flight, today, up, head, created, offset, scan, calls,
                   acked, spent>>

-------------------------------------------------------------------------------
(* AppendBlobSink.append: the conditional append and its outcomes.         *)

\* The position sent as x-ms-blob-condition-appendpos; 0 when none is sent.
Expected(p, t) == offset[p][call[p][t].day]

Sending(p, t) == At(p, t, "built") /\ call[p][t].day \in created[p]

\* The service commits the block.  The answer is still on its way.
AppendLands(p, t) ==
    /\ Sending(p, t)
    /\ Accepts(Expected(p, t), call[p][t].day)
    /\ log' = Append(log, Block(call[p][t], Expected(p, t)))
    /\ Moves(p, t, [call[p][t] EXCEPT !.pc = "landed", !.at = Len(log) + 1])
    /\ UNCHANGED <<blobs, flight, today, up, head, lock, created, offset, scan,
                   calls, acked, spent>>

\* A slip: the offset is kept on a 412.
AppendStaleKeepsOffset(p, t) ==
    /\ Sending(p, t)
    /\ ~Accepts(Expected(p, t), call[p][t].day)
    /\ Moves(p, t, [call[p][t] EXCEPT !.pc = "stale"])
    /\ UNCHANGED <<storage, today, up, head, lock, created, offset, scan, calls,
                   acked, spent>>

\* 412: the position moved.  The offset is dropped and StaleHead is raised.
AppendStale(p, t) ==
    /\ Sending(p, t)
    /\ ~Accepts(Expected(p, t), call[p][t].day)
    /\ offset' = [offset EXCEPT ![p][call[p][t].day] = 0]
    /\ Moves(p, t, [call[p][t] EXCEPT !.pc = "stale"])
    /\ UNCHANGED <<storage, today, up, head, lock, created, scan, calls, acked,
                   spent>>

\* 409, a 5xx, or no connection: nothing is stored and write() raises.
AppendFails(p, t) ==
    /\ Sending(p, t)
    /\ Leave(p, t)
    /\ UNCHANGED <<storage, today, up, head, created, offset, scan, calls, acked,
                   spent>>

\* A slip: a timeout is retried as if nothing had been sent.
AppendTimesOutRetries(p, t) ==
    /\ Sending(p, t)
    /\ spent.late < MaxLate
    /\ spent' = [spent EXCEPT !.late = @ + 1]
    /\ flight' = flight \cup {[rec |-> call[p][t], expected |-> Expected(p, t)]}
    /\ UNCHANGED <<log, blobs, today, up, head, lock, created, offset, scan, call,
                   calls, acked>>

\* The client times out while the request is under way; the service may still
\* take it.  A replica killed at this point is this step and then Stop.
AppendTimesOut(p, t) ==
    /\ Sending(p, t)
    /\ spent.late < MaxLate
    /\ spent' = [spent EXCEPT !.late = @ + 1]
    /\ flight' = flight \cup {[rec |-> call[p][t], expected |-> Expected(p, t)]}
    /\ Leave(p, t)
    /\ UNCHANGED <<log, blobs, today, up, head, created, offset, scan, calls,
                   acked>>

\* The service gets to a request nobody waits for any more.
LateAppend(f) ==
    /\ f \in flight
    /\ flight' = flight \ {f}
    /\ log' = IF Accepts(f.expected, f.rec.day)
              THEN Append(log, Block(f.rec, f.expected)) ELSE log
    /\ UNCHANGED <<blobs, today, up, head, lock, created, offset, scan, call,
                   calls, acked, spent>>

\* The answer to a committed block is lost: write() raises, nothing is noted.
AnswerLost(p, t) ==
    /\ At(p, t, "landed")
    /\ spent.lost < MaxLost
    /\ spent' = [spent EXCEPT !.lost = @ + 1]
    /\ Leave(p, t)
    /\ UNCHANGED <<storage, today, up, head, created, offset, scan, calls, acked>>

\* The head after a successful append: the record that was written.
HeadOf(c) == [seq |-> c.seq, prev |-> c.at]

\* 201: the offset the service reports is kept (or forgotten when it reports
\* none), the head moves to this record, and the caller gets the record.
AppendAnswered(p, t) ==
    LET c == call[p][t] IN
    /\ At(p, t, "landed")
    /\ \E known \in {c.at, 0} : offset' = [offset EXCEPT ![p][c.day] = known]
    /\ head' = [head EXCEPT ![p] = HeadOf(c)]
    /\ acked' = acked \cup {c.ev}
    /\ Leave(p, t)
    /\ UNCHANGED <<storage, today, up, created, scan, calls, spent>>

-------------------------------------------------------------------------------
(* AppendBlobSink.head: list the blobs, then fetch them one by one.        *)

Listing == [todo |-> blobs, last |-> 0]

\* A new replica: AuditTrail.__init__ reads the head.
Start(p) ==
    /\ up[p] = "down"
    /\ up' = [up EXCEPT ![p] = "starting"]
    /\ scan' = [scan EXCEPT ![p] = Listing]
    /\ UNCHANGED <<storage, today, head, lock, created, offset, call, calls, acked,
                   spent>>

\* The rebuild after StaleHead reads it again, under the trail's lock.
Relist(p, t) ==
    /\ At(p, t, "stale")
    /\ scan' = [scan EXCEPT ![p] = Listing]
    /\ Moves(p, t, [call[p][t] EXCEPT !.pc = "rereading"])
    /\ UNCHANGED <<storage, today, up, head, lock, created, offset, calls, acked,
                   spent>>

\* One blob is fetched, in the order of the days; an empty one adds nothing.
FetchBlob(p) ==
    \E d \in scan[p].todo :
        /\ \A e \in scan[p].todo : d <= e
        /\ \E i \in 0..Len(log) :
              /\ IF InDay(d) = {} THEN i = scan[p].last ELSE LastInDay(i, d)
              /\ scan' = [scan EXCEPT ![p] = [todo |-> @.todo \ {d}, last |-> i]]
        /\ UNCHANGED <<storage, today, up, head, lock, created, offset, call, calls,
                       acked, spent>>

\* The seq and hash of the last record read; (0, GENESIS_HASH) when there is none.
ReadHead(p) == [seq |-> SeqAt(scan[p].last), prev |-> scan[p].last]

StartDone(p) ==
    /\ up[p] = "starting"
    /\ scan[p].todo = {}
    /\ up' = [up EXCEPT ![p] = "up"]
    /\ head' = [head EXCEPT ![p] = ReadHead(p)]
    /\ scan' = [scan EXCEPT ![p] = NoScan]
    /\ UNCHANGED <<storage, today, lock, created, offset, call, calls, acked, spent>>

\* A read fails while starting: the replica does not come up.
StartFails(p) ==
    /\ up[p] = "starting"
    /\ up' = [up EXCEPT ![p] = "down"]
    /\ scan' = [scan EXCEPT ![p] = NoScan]
    /\ UNCHANGED <<storage, today, head, lock, created, offset, call, calls, acked,
                   spent>>

\* A slip: the offset is learnt again and the refused record is sent as it was.
RebuildAsIs(p, t) ==
    LET c == call[p][t] IN
    /\ At(p, t, "rereading")
    /\ scan[p].todo = {}
    /\ head' = [head EXCEPT ![p] = ReadHead(p)]
    /\ offset' = [offset EXCEPT ![p][c.day] = scan[p].last]
    /\ scan' = [scan EXCEPT ![p] = NoScan]
    /\ Moves(p, t, [c EXCEPT !.pc = "built", !.attempt = 2])
    /\ UNCHANGED <<storage, today, up, lock, created, calls, acked, spent>>

\* The head was read again: build the record on it, or give up.
Rebuild(p, t) ==
    LET c == call[p][t] IN
    /\ At(p, t, "rereading")
    /\ scan[p].todo = {}
    /\ head' = [head EXCEPT ![p] = ReadHead(p)]
    /\ scan' = [scan EXCEPT ![p] = NoScan]
    /\ IF c.attempt < RebuildAttempts
       THEN /\ Moves(p, t, Built(ReadHead(p), c.ev, c.attempt + 1))
            /\ UNCHANGED lock
       ELSE Leave(p, t)
    /\ UNCHANGED <<storage, today, up, created, offset, calls, acked, spent>>

\* A read fails during the rebuild: write() raises with the old head cached.
RereadFails(p, t) ==
    /\ At(p, t, "rereading")
    /\ scan' = [scan EXCEPT ![p] = NoScan]
    /\ Leave(p, t)
    /\ UNCHANGED <<storage, today, up, head, created, offset, calls, acked, spent>>

-------------------------------------------------------------------------------
(* The replicas and the clock.                                             *)

\* A replica is stopped or killed wherever it is; all it knew is gone.
Stop(p) ==
    /\ up[p] # "down"
    /\ spent.crashes < MaxCrashes
    /\ spent' = [spent EXCEPT !.crashes = @ + 1]
    /\ up' = [up EXCEPT ![p] = "down"]
    /\ head' = [head EXCEPT ![p] = NoHead]
    /\ lock' = [lock EXCEPT ![p] = Nobody]
    /\ created' = [created EXCEPT ![p] = {}]
    /\ offset' = [offset EXCEPT ![p] = [d \in Days |-> 0]]
    /\ scan' = [scan EXCEPT ![p] = NoScan]
    /\ call' = [call EXCEPT ![p] = [t \in Threads |-> Idle]]
    /\ UNCHANGED <<storage, today, calls, acked>>

\* Midnight UTC.
NextDay ==
    /\ today < MaxDay
    /\ today' = today + 1
    /\ UNCHANGED <<storage, up, head, lock, created, offset, scan, call, calls,
                   acked, spent>>

-------------------------------------------------------------------------------
Init ==
    /\ log = <<>>
    /\ blobs = {}
    /\ flight = {}
    /\ today = 1
    /\ up = [p \in Replicas |-> "down"]
    /\ head = [p \in Replicas |-> NoHead]
    /\ lock = [p \in Replicas |-> Nobody]
    /\ created = [p \in Replicas |-> {}]
    /\ offset = [p \in Replicas |-> [d \in Days |-> 0]]
    /\ scan = [p \in Replicas |-> NoScan]
    /\ call = [p \in Replicas |-> [t \in Threads |-> Idle]]
    /\ calls = 0
    /\ acked = {}
    /\ spent = [lost |-> 0, late |-> 0, crashes |-> 0]

\* The steps of a call of write() that is under way.
CallStep(p, t) ==
    \/ EnsureBlob(p, t)
    \/ EnsureBlobFails(p, t)
    \/ AppendLands(p, t)
    \/ AppendStale(p, t)
    \/ AppendFails(p, t)
    \/ AppendTimesOut(p, t)
    \/ AnswerLost(p, t)
    \/ AppendAnswered(p, t)
    \/ Relist(p, t)
    \/ Rebuild(p, t)
    \/ RereadFails(p, t)

ReplicaStep(p) ==
    \/ Start(p)
    \/ FetchBlob(p)
    \/ StartDone(p)
    \/ StartFails(p)
    \/ Stop(p)

Next ==
    \/ \E p \in Replicas, t \in Threads : Write(p, t) \/ CallStep(p, t)
    \/ \E p \in Replicas : ReplicaStep(p)
    \/ \E f \in flight : LateAppend(f)
    \/ NextDay

Spec == Init /\ [][Next]_vars

\* Every request of a call is answered, refused or timed out (blob.py sets
\* read, write, connect and pool timeouts), and the thread runs on.
FairSpec ==
    /\ Spec
    /\ \A p \in Replicas :
          /\ WF_vars(FetchBlob(p))
          /\ \A t \in Threads : WF_vars(CallStep(p, t))

-------------------------------------------------------------------------------
(* What verify_chain would say of the container, read blob by blob.        *)

\* Record i is read before record j.
ReadBefore(i, j) == log[i].day < log[j].day \/ (log[i].day = log[j].day /\ i < j)

\* Record i is read right after the record whose hash it carries, with the
\* next number: none of verify_chain's three breaks is reported at i.
Linked(i) ==
    LET j == log[i].prev IN
    /\ log[i].seq = SeqAt(j) + 1
    /\ j # 0 => ReadBefore(j, i)
    /\ \A k \in DOMAIN log : ReadBefore(k, i) => k = j \/ (j # 0 /\ ReadBefore(k, j))

(***************************************************************************)
(* Properties.                                                             *)
(***************************************************************************)

Blocks == [ev : Nat, seq : Nat, prev : Nat, day : Days, cond : BOOLEAN]

Calls == [pc : {"idle", "built", "landed", "stale", "rereading"},
          attempt : 0..RebuildAttempts, ev : Nat, seq : Nat, prev : Nat,
          day : Days, at : Nat]

Budget == [lost : 0..MaxLost, late : 0..MaxLate, crashes : 0..MaxCrashes]

\* Every variable has its type.
TypeOK ==
    /\ log \in Seq(Blocks)
    /\ blobs \in SUBSET Days
    /\ flight \in SUBSET [rec : Calls, expected : Nat]
    /\ today \in Days
    /\ up \in [Replicas -> {"down", "starting", "up"}]
    /\ head \in [Replicas -> [seq : Nat, prev : Nat]]
    /\ lock \in [Replicas -> Threads \cup {Nobody}]
    /\ created \in [Replicas -> SUBSET Days]
    /\ offset \in [Replicas -> [Days -> Nat]]
    /\ scan \in [Replicas -> [todo : SUBSET Days, last : 0..Len(log)]]
    /\ call \in [Replicas -> [Threads -> Calls]]
    /\ calls \in 0..MaxCalls
    /\ acked \in SUBSET Nat
    /\ spent \in Budget

\* Whatever replicas, lost answers, late requests and restarts do, a record is
\* always built on one that was committed before it, and numbered one above
\* it: the damage a race can do is a fork, never a gap or a dangling link.
Rooted ==
    \A i \in DOMAIN log :
        /\ log[i].prev \in 0..(i - 1)
        /\ log[i].seq = SeqAt(log[i].prev) + 1

\* A call of write() stores at most one record, through rebuilds, timeouts and
\* late requests: the rebuild is safe because the refused write did not land
\* (trail.py, module comment).
OneRecordPerCall ==
    \A i, j \in DOMAIN log : log[i].ev = log[j].ev => i = j

\* A record whose write() returned is in the container from then on, whoever
\* creates, appends or restarts (the If-None-Match of _ensure_blob).
AckedIsStored ==
    \A e \in acked : \E i \in DOMAIN log : log[i].ev = e

\* verify_chain reports no break at a record that was appended conditionally,
\* however many writers there are: a fork needs an append without a position.
ConditionalIsLinked ==
    \A i \in DOMAIN log : log[i].cond => Linked(i)

\* A write() is refused with 412 at most once: the attempt after it carries no
\* position, so the bound _REBUILD_ATTEMPTS and the RuntimeError behind it
\* ("the head kept moving") are never reached.
RefusedAtMostOnce ==
    \A p \in Replicas, t \in Threads : call[p][t].attempt <= 2

\* A thread that holds the trail's lock lets it go, so no request waits for
\* ever behind another one's write (trail.py: a trail that blocks is an outage).
LockFreed ==
    \A p \in Replicas : lock[p] # Nobody ~> lock[p] = Nobody

\* verify_chain reports the container intact.
ChainIntact == \A i \in DOMAIN log : Linked(i)

\* The container's records in commit order are a run of ChainLog.  (One replica
\* never commits to a day before one it committed to, so this is the order the
\* verifier reads them in.)
Promise == INSTANCE ChainLog WITH
    Events <- 1..MaxCalls,
    chain <- [i \in DOMAIN log |->
                 [seq |-> log[i].seq, prev |-> log[i].prev, ev |-> log[i].ev]]

ChainPromise == Promise!Spec
===============================================================================
