--------------------------------- MODULE Batch --------------------------------
(***************************************************************************)
(* The batch of the page (web/static/app.js) over the handlers of          *)
(* CaseWork.tla.  A run takes the valid rows, a retry the failed ones; two *)
(* workers each bring one row at a time through four requests, and a row   *)
(* remembers the steps that were answered.                                 *)
(*                                                                         *)
(* The page is one thread: from one answer to the next request it sends,   *)
(* or to the next row it takes, nothing else happens.                      *)
(***************************************************************************)
EXTENDS CaseWork

CONSTANTS
    RowCount,       \* rows of the table
    Width,          \* workers of one run: two in flight
    MaxClicks       \* bound: clicks on Run and on Retry

ASSUME BatchAssumption ==
    /\ RowCount \in Nat \ {0}
    /\ Rows = 1..RowCount
    /\ Width \in Nat \ {0}
    /\ MaxClicks \in Nat

VARIABLES
    row,            \* row -> its status and what it remembers
    clicks,         \* runs started so far: the number of the latest one
    queue,          \* run -> rows it has still to take
    hand            \* run -> worker -> its row and the request it waits for

page == <<row, clicks, queue, hand>>
vars == <<server, page>>

Workers == 1..Width
Runs == 1..MaxClicks

Fresh == [status |-> "valid", case |-> 0, expansion |-> FALSE, done |-> {}]
Resting == [row |-> 0, job |-> 0]

-------------------------------------------------------------------------------
(* runBatchRow.                                                            *)

\* The step that a row is at: the first one with no answer yet.
NextOp(x) ==
    IF x.case = 0 THEN "case"
    ELSE IF ~x.expansion THEN "expand"
    ELSE IF "naive" \notin x.done THEN "naive"
    ELSE IF "expanded" \notin x.done THEN "expanded"
    ELSE "done"

\* The request row r sends at this step.
Request(rows, r) == Received(r, NextOp(rows[r]), rows[r].case)

\* Worker w of run k goes on along these rows, from the first in the table: rows
\* with nothing left to do are done, and the first other one sends its next
\* request.  A run takes its rows in that order, so that the row in hand comes
\* before those in the queue.
Onward(k, w, rows, along) ==
    LET open == {r \in along : NextOp(rows[r]) # "done"}
        Status(r) == IF r \in along /\ \A o \in open : r < o THEN "done"
                     ELSE IF r \in open /\ \A o \in open : r <= o THEN "running"
                     ELSE rows[r].status
    IN
    /\ row' = [r \in Rows |-> [rows[r] EXCEPT !.status = Status(r)]]
    /\ queue' = [queue EXCEPT ![k] = {r \in along : \E o \in open : o < r}]
    /\ \/ /\ open = {}
          /\ hand' = [hand EXCEPT ![k][w] = Resting]
          /\ UNCHANGED jobs
       \/ \E r \in open :
             /\ \A o \in open : r <= o
             /\ hand' = [hand EXCEPT ![k][w] = [row |-> r, job |-> Len(jobs) + 1]]
             /\ jobs' = Append(jobs, Request(rows, r))
    /\ UNCHANGED clicks

\* What row x remembers of the answer to request n.
Remembers(x, n) ==
    CASE jobs[n].op = "case" -> [x EXCEPT !.case = n]
      [] jobs[n].op = "expand" -> [x EXCEPT !.expansion = TRUE]
      [] OTHER -> [x EXCEPT !.done = @ \cup {jobs[n].op}]

\* A slip: a retry starts the row again.
ForgetsAll(x) == [Fresh EXCEPT !.status = "failed"]

\* A row that failed keeps what it remembers.
Failed(x) == [x EXCEPT !.status = "failed"]

\* 200 or 201: the row remembers it, and goes on.
Deliver(k, w) ==
    LET r == hand[k][w].row
        n == hand[k][w].job
    IN
    /\ n # 0
    /\ jobs[n].at = "ok"
    /\ Onward(k, w, [row EXCEPT ![r] = Remembers(row[r], n)], {r} \cup queue[k])
    /\ UNCHANGED <<purview, trail, mayWrite, faults, listing>>

\* Any other answer: the row has failed, and the worker takes the next one.
DeliverError(k, w) ==
    LET r == hand[k][w].row
        n == hand[k][w].job
    IN
    /\ n # 0
    /\ jobs[n].at = "error"
    /\ Onward(k, w, [row EXCEPT ![r] = Failed(row[r])], queue[k])
    /\ UNCHANGED <<purview, trail, mayWrite, faults, listing>>

\* The connection is lost while the worker waits: the row has failed, and the
\* handler goes on by itself.
Cut(k, w) ==
    LET r == hand[k][w].row IN
    /\ hand[k][w].job # 0
    /\ faults < MaxFaults
    /\ faults' = faults + 1
    /\ Onward(k, w, [row EXCEPT ![r] = Failed(row[r])], queue[k])
    /\ UNCHANGED <<purview, trail, mayWrite, listing>>

-------------------------------------------------------------------------------
(* runBatch.                                                               *)

\* The rows of this status.
OfStatus(status) == {r \in Rows : row[r].status = status}

\* A click on Run (the valid rows) or on Retry (the failed ones).  withBusy
\* disables the button first, but the workers start in the same turn, and
\* their renderBatch enables it while rows of that status are left.  Worker i
\* takes the i-th row that has something left to do; the rows passed on the way
\* are done.
Click(status) ==
    LET rows == OfStatus(status)
        open == {r \in rows : NextOp(row[r]) # "done"}
        m == IF Cardinality(open) < Width THEN Cardinality(open) ELSE Width
        k == clicks + 1
    IN
    /\ clicks < MaxClicks
    /\ rows # {}
    /\ clicks' = k
    /\ \E first \in [1..m -> open] :
          LET taken == {first[i] : i \in 1..m}
              left == {r \in rows : m = Width /\ \A i \in 1..m : first[i] < r}
              Status(r) == IF r \in taken THEN "running"
                           ELSE IF r \in rows \ (open \cup left) THEN "done" ELSE row[r].status
          IN
          /\ \A i \in 1..m : Cardinality({r \in open : r <= first[i]}) = i
          /\ row' = [r \in Rows |-> [row[r] EXCEPT !.status = Status(r)]]
          /\ queue' = [queue EXCEPT ![k] = left]
          /\ hand' = [hand EXCEPT ![k] =
                         [w \in Workers |-> IF w <= m THEN [row |-> first[w], job |-> Len(jobs) + w]
                                            ELSE Resting]]
          /\ jobs' = jobs \o [i \in 1..m |-> Request(row, first[i])]
    /\ UNCHANGED <<purview, trail, mayWrite, faults, listing>>

WorkerStep(k, w) == Deliver(k, w) \/ DeliverError(k, w) \/ Cut(k, w)

-------------------------------------------------------------------------------
Init ==
    /\ ServerInit
    /\ row = [r \in Rows |-> Fresh]
    /\ clicks = 0
    /\ queue = [k \in Runs |-> {}]
    /\ hand = [k \in Runs |-> [w \in Workers |-> Resting]]

PageStep ==
    \/ \E status \in {"valid", "failed"} : Click(status)
    \/ \E k \in Runs, w \in Workers : WorkerStep(k, w)

Next == (ServerStep /\ UNCHANGED page) \/ PageStep

Spec == Init /\ [][Next]_vars

\* A reader that can go on does: the walk asks for at most MAX_PAGES pages, and
\* every such request has a timeout.  While one holds the lock no other can, so
\* that fairness to the readers together is enough.
FairSpec == Spec /\ WF_vars(\E l \in Readers : ListStep(l) /\ UNCHANGED page)

-------------------------------------------------------------------------------
(* Properties.                                                             *)

\* Every variable has its type; the lock of the list is held by the reader that
\* is inside, and by no other.
TypeOK ==
    /\ \A n \in DOMAIN jobs :
          /\ jobs[n].row \in Rows /\ jobs[n].op \in Ops /\ jobs[n].mayWrite \in BOOLEAN
          /\ jobs[n].case \in 0..Len(jobs)
          /\ jobs[n].at \in Answers \cup {"new", "attempted", "created", "recorded", "estimated"}
    /\ cases \cup searches \cup estimates \subseteq DOMAIN jobs
    /\ \A e \in trail :
          /\ e.n \in DOMAIN jobs
          /\ e.act \in Ops \cup {"estimate"}
          /\ e.out \in {"attempted", "ok", "denied"}
    /\ mayWrite \in BOOLEAN
    /\ faults \in 0..MaxFaults
    /\ cache.at \in {"none", "fresh", "aged"}
    /\ cache.held \subseteq cases
    /\ \A l \in Readers :
          /\ reader[l].at \in {"idle", "waiting", "serving", "reading"}
          /\ reader[l].at \in {"serving", "reading"} <=> listLock = l
          /\ shown[l].held \subseteq cases
    /\ \A r \in Rows :
          /\ row[r].status \in {"valid", "running", "done", "failed"}
          /\ row[r].case \in {0} \cup cases
          /\ row[r].done \subseteq Searching
    /\ clicks \in 0..MaxClicks
    /\ \A k \in Runs : queue[k] \subseteq Rows
    /\ \A k \in Runs, w \in Workers :
          LET h == hand[k][w] IN
          h = Resting \/ (h.row \in Rows /\ h.job \in DOMAIN jobs /\ jobs[h.job].row = h.row)

\* The trail tells all of search n: attempted, created, estimated.
FullyRecorded(n) ==
    {Entry(n, jobs[n].op, "attempted"), Entry(n, jobs[n].op, "ok"), Entry(n, "estimate", "ok")}
        \subseteq trail

\* A row the page shows as done has its case in Purview, and in that very case
\* both searches, each being estimated, with nothing missing from the trail:
\* whatever failed, was cut off or was retried on the way (runBatchRow).  That
\* much needs OneWorkerPerRow, as the rows of this run have it: of two workers
\* with one row, the second overwrites the case that the first has searched in.
DoneMeansDone ==
    \A r \in Rows : row[r].status = "done" =>
        /\ row[r].case \in cases
        /\ jobs[row[r].case].row = r
        /\ \A kind \in Searching :
              \E n \in estimates : /\ jobs[n].op = kind
                                   /\ jobs[n].case = row[r].case
                                   /\ FullyRecorded(n)

\* Purview holds no more than one case and two searches for each row, and one
\* more thing for each step that failed: retries resume at the step that failed.
DuplicatesNeedFaults ==
    Cardinality(cases) + Cardinality(searches) <= 3 * RowCount + faults

\* The lock of the list is always given back, after a failed walk too.
ListLockFreed == listLock # "free" ~> listLock = "free"

\* app.js on withBusy: a double click is impossible, so no two workers ever have
\* the same row.  It is not so: see the README.
OneWorkerPerRow ==
    \A j, k \in Runs, v, w \in Workers :
        hand[j][v].row # 0 /\ hand[j][v].row = hand[k][w].row => <<j, v>> = <<k, w>>
===============================================================================
