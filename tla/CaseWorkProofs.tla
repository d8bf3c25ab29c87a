----------------------------- MODULE CaseWorkProofs ----------------------------
(***************************************************************************)
(* Proofs about the server of CaseWork.tla and the batch of Batch.tla, for *)
(* every number of requests, readers and faults: nothing is created        *)
(* without a record of the attempt, no record claims what was not done,    *)
(* the request list shows what it has to, a row that is done is done, and  *)
(* nothing is created twice but for a failure.  And about the dates of     *)
(* CaseData.tla.                                                           *)
(*                                                                         *)
(* The first part follows a handler through its stages (Followed).  The    *)
(* second is about the list: whoever walks it under the lock has begun     *)
(* with all that any listing has shown, since nothing can be shown while   *)
(* the lock is held (ListInv).                                             *)
(*                                                                         *)
(* The third is about the page.  All it does in a turn is Sends: requests  *)
(* for the next steps of rows that some workers have in hand now.  So it   *)
(* is a client of the server; what its rows remember is so (Memory); and   *)
(* one request for each step of each row (Counts) needs no failure to      *)
(* explain it.  The last two need one worker to a row, which is so while   *)
(* no click comes with rows still waiting (Parted).                        *)
(*                                                                         *)
(* The fourth: the deadline is a date of the next month, for every date of *)
(* receipt; a later receipt is never due earlier; it is 28 to 31 days      *)
(* ahead, and a request is overdue exactly when today is after it.  And a  *)
(* date of receipt comes back from the description it was written into,    *)
(* whatever the operator's own text says.                                  *)
(***************************************************************************)
EXTENDS Batch, CaseData, FiniteSetTheorems, SequenceTheorems, TLAPS

-------------------------------------------------------------------------------
(* Types.                                                                  *)

Stages == Answers \cup {"new", "attempted", "created", "recorded", "estimated"}

Jobs == [row : Rows, op : Ops, case : Nat, mayWrite : BOOLEAN, at : Stages]

Caches == [at : {"none", "fresh", "aged"}, held : SUBSET Nat]

ReaderStates == [at : {"idle", "waiting", "serving", "reading"}, force : BOOLEAN,
                 need : SUBSET Nat, seen : SUBSET Nat, from : SUBSET Nat]

Listings == [held : SUBSET Nat, need : SUBSET Nat, seen : SUBSET Nat, force : BOOLEAN]

JobsTyped ==
    /\ jobs \in Seq(Jobs)
    /\ cases \subseteq Nat
    /\ mayWrite \in BOOLEAN
    /\ faults \in Nat

ListTyped ==
    /\ cache \in Caches
    /\ reader \in [Readers -> ReaderStates]
    /\ shown \in [Readers -> Listings]

\* A request keeps its number and what it asks for.
LEMMA GoesTyped ==
  ASSUME JobsTyped, NEW n \in DOMAIN jobs, NEW at \in Stages, Goes(n, at)
  PROVE  /\ jobs' \in Seq(Jobs)
         /\ DOMAIN jobs' = DOMAIN jobs
         /\ \A m \in DOMAIN jobs : m # n => jobs'[m] = jobs[m]
         /\ jobs'[n].row = jobs[n].row
         /\ jobs'[n].op = jobs[n].op
         /\ jobs'[n].case = jobs[n].case
         /\ jobs'[n].mayWrite = jobs[n].mayWrite
         /\ jobs'[n].at = at
  <1>1. jobs[n] \in Jobs
    BY DEF JobsTyped
  <1>2. jobs' = [jobs EXCEPT ![n] = [jobs[n] EXCEPT !.at = at]]
    BY DEF Goes
  <1>3. [jobs[n] EXCEPT !.at = at] \in Jobs
    BY <1>1 DEF Jobs
  <1>4. jobs' \in Seq(Jobs) /\ DOMAIN jobs' = DOMAIN jobs
    BY <1>2, <1>3 DEF JobsTyped
  <1>5. jobs'[n] = [jobs[n] EXCEPT !.at = at]
    BY <1>2 DEF JobsTyped
  <1>6. \A m \in DOMAIN jobs : m # n => jobs'[m] = jobs[m]
    BY <1>2 DEF JobsTyped
  <1>7. QED
    BY <1>1, <1>4, <1>5, <1>6 DEF Jobs

\* What arrives is added at the end, and has not begun.
LEMMA ClientAdds ==
  ASSUME JobsTyped, ClientStep
  PROVE  /\ jobs' \in Seq(Jobs)
         /\ DOMAIN jobs \subseteq DOMAIN jobs'
         /\ \A m \in DOMAIN jobs : jobs'[m] = jobs[m]
         /\ \A m \in DOMAIN jobs' : m \notin DOMAIN jobs => jobs'[m].at = "new"
  <1> DEFINE new == SubSeq(jobs', Len(jobs) + 1, Len(jobs'))
  <1>1. jobs' = jobs \o new /\ new \in Seq(Requests)
    BY DEF ClientStep
  <1> HIDE DEF new
  <1>2. Requests \subseteq Jobs
    BY DEF Requests, Jobs, Stages, JobsTyped
  <1>3. new \in Seq(Jobs) /\ \A i \in DOMAIN new : new[i].at = "new"
    <2>1. \A i \in DOMAIN new : new[i] \in Requests
      BY <1>1
    <2>2. new \in Seq(Jobs)
      BY <1>1, <1>2
    <2>3. QED
      BY <2>1, <2>2 DEF Requests
  <1>4. jobs' \in Seq(Jobs) /\ Len(jobs') = Len(jobs) + Len(new)
    BY <1>1, <1>3 DEF JobsTyped
  <1>5. \A m \in DOMAIN jobs : m \in DOMAIN jobs' /\ jobs'[m] = jobs[m]
    BY <1>1, <1>3, <1>4 DEF JobsTyped
  <1>6. \A m \in DOMAIN jobs' : m \notin DOMAIN jobs =>
            m - Len(jobs) \in DOMAIN new /\ jobs'[m] = new[m - Len(jobs)]
    BY <1>1, <1>3, <1>4 DEF JobsTyped
  <1>7. QED
    BY <1>3, <1>4, <1>5, <1>6

-------------------------------------------------------------------------------
(* A handler and its records.                                              *)

\* What is known of request n by the stage it is at.
FollowedAt(n) ==
    /\ jobs[n].at \in {"attempted", "created", "recorded", "estimated"} =>
           jobs[n].op \in Writes /\ Entry(n, jobs[n].op, "attempted") \in trail
    /\ jobs[n].at \in {"created", "recorded", "estimated"} =>
           n \in (IF jobs[n].op = "case" THEN cases ELSE searches)
    /\ jobs[n].at = "estimated" => n \in estimates
    /\ jobs[n].op = "case" /\ jobs[n].at = "ok" => n \in cases

Followed ==
    /\ \A n \in DOMAIN jobs : FollowedAt(n)
    /\ cases \cup searches \subseteq DOMAIN jobs

HandlerInv == JobsTyped /\ Followed /\ WrittenIsAttempted /\ OkIsTrue

\* The only record of a step, if it has one, and what it is allowed to be.
Truthful(e) ==
    e.out = "ok" =>
        CASE e.act = "case" -> e.n \in cases
          [] e.act \in Searching -> e.n \in searches
          [] e.act = "estimate" -> e.n \in estimates
          [] OTHER -> TRUE

LEMMA Names ==
  /\ \A n, act, out : Entry(n, act, out) = [n |-> n, act |-> act, out |-> out]
  /\ \A n, act, out : /\ Entry(n, act, out).n = n
                      /\ Entry(n, act, out).act = act
                      /\ Entry(n, act, out).out = out
  /\ "case" \notin Searching /\ "expand" \notin Writes /\ "expand" # "case"
  /\ Writes = {"case", "naive", "expanded"} /\ Searching = {"naive", "expanded"}
  BY DEF Entry, Searching, Writes

\* What a step of handler n may do outside the process: Purview and the trail
\* grow, by nothing that was not attempted and nothing that is not so.
Harmless(n) ==
    /\ cases \subseteq cases' /\ cases' \subseteq cases \cup {n}
    /\ searches \subseteq searches' /\ searches' \subseteq searches \cup {n}
    /\ estimates \subseteq estimates' /\ estimates' \subseteq estimates \cup {n}
    /\ trail \subseteq trail'
    /\ n \in (cases' \ cases) \cup (searches' \ searches)
          => Entry(n, jobs[n].op, "attempted") \in trail'
    /\ \A e \in trail' \ trail : Truthful(e)'

Effects(n) ==
    \/ UNCHANGED <<purview, trail>>
    \/ Denies(n) \/ Attempts(n) \/ Expands(n) \/ Creates(n) \/ RecordsCreated(n)
    \/ Estimates(n) \/ RecordsEstimate(n)

LEMMA NotesHarmless ==
  ASSUME NEW n, NEW act, NEW out, Notes(n, act, out),
         Truthful(Entry(n, act, out))
  PROVE  Harmless(n)
  BY DEF Notes, purview, Harmless, Truthful

LEMMA EffectsHarmless ==
  ASSUME HandlerInv, NEW n \in DOMAIN jobs, Effects(n)
  PROVE  Harmless(n)
  <1>1. CASE UNCHANGED <<purview, trail>>
    BY <1>1 DEF purview, Harmless
  <1>2. CASE Denies(n)
    <2>1. Truthful(Entry(n, jobs[n].op, "denied"))
      BY Names DEF Truthful
    <2>2. QED
      BY <1>2, <2>1, NotesHarmless DEF Denies
  <1>3. CASE Attempts(n)
    <2>1. Truthful(Entry(n, jobs[n].op, "attempted"))
      BY Names DEF Truthful
    <2>2. QED
      BY <1>3, <2>1, NotesHarmless DEF Attempts
  <1>4. CASE Expands(n)
    <2>1. Truthful(Entry(n, "expand", "ok"))
      BY Names DEF Truthful
    <2>2. QED
      BY <1>4, <2>1, NotesHarmless DEF Expands
  <1>5. CASE Creates(n)
    <2>1. Entry(n, jobs[n].op, "attempted") \in trail
      BY <1>5 DEF Creates, Is, HandlerInv, Followed, FollowedAt
    <2>2. QED
      BY <1>5, <2>1 DEF Creates, Harmless
  <1>6. CASE RecordsCreated(n)
    <2>1. n \in (IF jobs[n].op = "case" THEN cases ELSE searches) /\ jobs[n].op \in Writes
      BY <1>6 DEF RecordsCreated, Is, HandlerInv, Followed, FollowedAt
    <2>2. Truthful(Entry(n, jobs[n].op, "ok"))
      BY <2>1, Names DEF Truthful
    <2>3. QED
      BY <1>6, <2>2, NotesHarmless DEF RecordsCreated
  <1>7. CASE Estimates(n)
    BY <1>7 DEF Estimates, Harmless
  <1>8. CASE RecordsEstimate(n)
    <2>1. n \in estimates
      BY <1>8 DEF RecordsEstimate, Is, HandlerInv, Followed, FollowedAt
    <2>2. Truthful(Entry(n, "estimate", "ok"))
      BY <2>1, Names DEF Truthful
    <2>3. QED
      BY <1>8, <2>2, NotesHarmless DEF RecordsEstimate
  <1>9. QED
    BY <1>1, <1>2, <1>3, <1>4, <1>5, <1>6, <1>7, <1>8 DEF Effects

\* A step of handler n that leaves Purview growing and the trail truthful.
LEMMA HandlerKeeps ==
  ASSUME HandlerInv, NEW n \in DOMAIN jobs, NEW at \in Stages, Goes(n, at),
         Harmless(n), FollowedAt(n)', mayWrite' = mayWrite, faults' \in Nat
  PROVE  HandlerInv'
  <1>1. /\ jobs' \in Seq(Jobs)
        /\ DOMAIN jobs' = DOMAIN jobs
        /\ \A m \in DOMAIN jobs : m # n => jobs'[m] = jobs[m]
        /\ jobs'[n].op = jobs[n].op
    BY GoesTyped DEF HandlerInv
  <1>2. n \in Nat
    BY DEF HandlerInv, JobsTyped
  <1>3. JobsTyped'
    BY <1>1, <1>2 DEF HandlerInv, JobsTyped, Harmless
  <1>4. ASSUME NEW m \in DOMAIN jobs, m # n
        PROVE  FollowedAt(m)'
    BY <1>1, <1>4 DEF HandlerInv, Followed, FollowedAt, Harmless
  <1>5. Followed'
    BY <1>1, <1>4 DEF HandlerInv, Followed, Harmless
  <1>6. WrittenIsAttempted'
    BY <1>1 DEF HandlerInv, Followed, Harmless, WrittenIsAttempted
  <1>7. OkIsTrue'
    <2>1. ASSUME NEW e \in trail
          PROVE  Truthful(e)'
      BY DEF HandlerInv, OkIsTrue, Truthful, Harmless
    <2>2. QED
      BY <2>1 DEF OkIsTrue, Truthful, Harmless
  <1>8. QED
    BY <1>3, <1>5, <1>6, <1>7 DEF HandlerInv

LEMMA HandlerStepKeeps ==
  ASSUME HandlerInv, NEW n \in DOMAIN jobs, HandlerStep(n)
  PROVE  HandlerInv'
  <1> USE DEF rest
  <1>1. /\ \A at \in Stages : Goes(n, at) => /\ jobs'[n].op = jobs[n].op
                                           /\ jobs'[n].at = at
        /\ faults \in Nat
    BY GoesTyped DEF HandlerInv, JobsTyped
  <1>2. {"error", "attempted", "ok", "created", "recorded", "estimated"} \subseteq Stages
    BY DEF Stages, Answers
  <1>3. FollowedAt(n)
    BY DEF HandlerInv, Followed
  <1>4. ASSUME Goes(n, "error"), Harmless(n), mayWrite' = mayWrite, faults' \in Nat
        PROVE  HandlerInv'
    <2>1. FollowedAt(n)'
      BY <1>1, <1>2, <1>4 DEF FollowedAt
    <2>2. QED
      BY <1>2, <1>4, <2>1, HandlerKeeps
  <1>5. CASE Deny(n)
    BY <1>1, <1>4, <1>5, EffectsHarmless DEF Deny, Effects
  <1>6. CASE Attempt(n)
    <2>1. FollowedAt(n)'
      BY <1>1, <1>2, <1>6 DEF Attempt, Attempts, Is, Notes, FollowedAt
    <2>2. QED
      BY <1>1, <1>2, <1>6, <2>1, EffectsHarmless, HandlerKeeps DEF Attempt, Effects
  <1>7. CASE Expand(n)
    <2>1. FollowedAt(n)'
      BY <1>1, <1>2, <1>7, Names DEF Expand, Expands, Is, FollowedAt
    <2>2. QED
      BY <1>1, <1>2, <1>7, <2>1, EffectsHarmless, HandlerKeeps DEF Expand, Effects
  <1>8. CASE Post(n)
    <2>1. FollowedAt(n)'
      BY <1>1, <1>2, <1>3, <1>8 DEF Post, Creates, Is, FollowedAt
    <2>2. QED
      BY <1>1, <1>2, <1>8, <2>1, EffectsHarmless, HandlerKeeps DEF Post, Effects
  <1>9. CASE RecordCreated(n)
    <2>1. FollowedAt(n)'
      BY <1>1, <1>2, <1>3, <1>9 DEF RecordCreated, RecordsCreated, Is, Notes, purview, FollowedAt
    <2>2. QED
      BY <1>1, <1>2, <1>9, <2>1, EffectsHarmless, HandlerKeeps DEF RecordCreated, Effects
  <1>10. CASE AnswerCase(n)
    <2>1. FollowedAt(n)'
      BY <1>1, <1>2, <1>3, <1>10 DEF AnswerCase, Is, purview, FollowedAt
    <2>2. QED
      BY <1>1, <1>2, <1>10, <2>1, EffectsHarmless, HandlerKeeps DEF AnswerCase, Effects
  <1>11. CASE Estimate(n)
    <2>1. FollowedAt(n)'
      BY <1>1, <1>2, <1>3, <1>11, Names DEF Estimate, Estimates, Is, FollowedAt
    <2>2. QED
      BY <1>1, <1>2, <1>11, <2>1, EffectsHarmless, HandlerKeeps DEF Estimate, Effects
  <1>12. CASE AnswerSearch(n)
    <2>1. FollowedAt(n)'
      BY <1>1, <1>2, <1>3, <1>12, Names DEF AnswerSearch, RecordsEstimate, Is, FollowedAt
    <2>2. QED
      BY <1>1, <1>2, <1>12, <2>1, EffectsHarmless, HandlerKeeps DEF AnswerSearch, Effects
  <1>13. CASE Fail(n)
    <2>1. Effects(n)
      BY <1>13 DEF Fail, Effects
    <2>2. QED
      BY <1>1, <1>4, <1>13, <2>1, EffectsHarmless DEF Fail
  <1>14. CASE RefuseName(n)
    BY <1>1, <1>4, <1>14, EffectsHarmless DEF RefuseName, NameRefused, Effects
  <1>15. QED
    BY <1>14, <1>5, <1>6, <1>7, <1>8, <1>9, <1>10, <1>11, <1>12, <1>13 DEF HandlerStep

\* Whatever else happens leaves requests, Purview and the trail alone.
LEMMA OthersKeep ==
  ASSUME HandlerInv, UNCHANGED <<jobs, purview, trail>>, mayWrite' \in BOOLEAN, faults' \in Nat
  PROVE  HandlerInv'
  BY DEF HandlerInv, JobsTyped, Followed, FollowedAt, WrittenIsAttempted, OkIsTrue, purview

LEMMA ClientKeeps ==
  ASSUME HandlerInv, ClientStep
  PROVE  HandlerInv'
  <1>1. /\ jobs' \in Seq(Jobs)
        /\ DOMAIN jobs \subseteq DOMAIN jobs'
        /\ \A m \in DOMAIN jobs : jobs'[m] = jobs[m]
        /\ \A m \in DOMAIN jobs' : m \notin DOMAIN jobs => jobs'[m].at = "new"
    BY ClientAdds DEF HandlerInv
  <1>2. UNCHANGED <<cases, searches, estimates, trail, mayWrite>>
    BY DEF ClientStep, purview
  <1>3. JobsTyped'
    BY <1>1, <1>2, CaseWorkAssumption DEF ClientStep, HandlerInv, JobsTyped
  <1>4. \A m \in DOMAIN jobs' : FollowedAt(m)'
    BY <1>1, <1>2 DEF HandlerInv, Followed, FollowedAt
  <1>5. Followed'
    BY <1>1, <1>2, <1>4 DEF HandlerInv, Followed
  <1>6. WrittenIsAttempted' /\ OkIsTrue'
    BY <1>1, <1>2 DEF HandlerInv, Followed, WrittenIsAttempted, OkIsTrue
  <1>7. QED
    BY <1>3, <1>5, <1>6 DEF HandlerInv

LEMMA HandlerInvStep == HandlerInv /\ [ServerStep \/ ClientStep]_server => HandlerInv'
  <1> SUFFICES ASSUME HandlerInv, [ServerStep \/ ClientStep]_server
               PROVE  HandlerInv'
    OBVIOUS
  <1>1. mayWrite \in BOOLEAN /\ faults \in Nat /\ faults + 1 \in Nat
    BY DEF HandlerInv, JobsTyped
  <1>2. ASSUME NEW l \in Readers, ListStep(l) \/ (\E force \in BOOLEAN : ListAsk(l, force))
        PROVE  HandlerInv'
    <2>1. UNCHANGED <<jobs, purview, trail, mayWrite>> /\ faults' \in {faults, faults + 1}
      BY <1>2 DEF ListStep, ListAsk, ListCached, ListServe, ListGone, ListWalk, ListRead,
                  ListFails, work
    <2>2. QED
      BY <1>1, <2>1, OthersKeep
  <1>3. CASE CacheAges \/ SignsInAgain \/ UNCHANGED server
    BY <1>1, <1>3, OthersKeep DEF CacheAges, SignsInAgain, work, server
  <1>4. QED
    BY <1>2, <1>3, HandlerStepKeeps, ClientKeeps DEF ServerStep

\* The two properties below are inductive only together with Followed.
LEMMA HandlerInvHolds == ServerSpec => []HandlerInv
  <1>1. ServerInit => HandlerInv
    BY DEF ServerInit, HandlerInv, JobsTyped, Followed, WrittenIsAttempted, OkIsTrue
  <1>2. QED
    BY <1>1, HandlerInvStep, PTL DEF ServerSpec

\* Whatever any page sends, and wherever a handler fails: nothing is created that
\* was not recorded as attempted before.
THEOREM NothingUnrecorded == ServerSpec => []WrittenIsAttempted
  BY HandlerInvHolds, PTL DEF HandlerInv

\* Under the same conditions no record claims a case, a search or an estimate
\* that is not there.
THEOREM NothingClaimed == ServerSpec => []OkIsTrue
  BY HandlerInvHolds, PTL DEF HandlerInv

-------------------------------------------------------------------------------
(* The request list.                                                       *)

\* The reader inside holds the lock, and nobody else is inside.
LockedInside == \A l \in Readers : reader[l].at \in {"serving", "reading"} <=> listLock = l

\* S holds all that has been shown, and all that any reader under way was asked
\* to show again.
Covers(S) == \A l \in Readers : shown[l].held \subseteq S /\ reader[l].seen \subseteq S

\* A cache covers; what is walked covers, from its beginning, and holds what was
\* answered before its reader asked; a refresh is not served from the cache.
Walks ==
    /\ cache.at # "none" => Covers(cache.held)
    /\ \A l \in Readers :
          /\ reader[l].at = "reading" => /\ Covers(reader[l].from)
                                         /\ reader[l].need \subseteq reader[l].from
          /\ reader[l].at = "serving" => ~reader[l].force

\* Whatever is listed exists.
Exist ==
    /\ cache.held \subseteq cases
    /\ Covers(cases)
    /\ \A l \in Readers : reader[l].need \subseteq cases /\ reader[l].from \subseteq cases

ListInv ==
    /\ ListTyped /\ LockedInside /\ Walks /\ Exist
    /\ RefreshShowsAll /\ ListNeverGoesBack

\* The state of one reader changes.
ReaderGoes(l, x) == reader' = [reader EXCEPT ![l] = x]

LEMMA Rest ==
  /\ AtRest \in ReaderStates /\ NothingShown \in Listings /\ NoCache \in Caches
  /\ AtRest.at = "idle" /\ AtRest.seen = {} /\ AtRest.need = {} /\ AtRest.from = {}
  /\ NothingShown.held = {} /\ NothingShown.seen = {}
  /\ NoCache.at = "none" /\ NoCache.held = {}
  BY DEF AtRest, NothingShown, NoCache, ReaderStates, Listings, Caches

\* Answered cases exist.
LEMMA AnsweredExist == HandlerInv => Answered \subseteq cases
  BY DEF HandlerInv, Followed, FollowedAt, Answered

\* A step outside the list can create cases, and nothing else that matters here.
LEMMA ListUntouched ==
  ASSUME ListInv, cases \subseteq cases', UNCHANGED <<listLock, reader, shown>>,
         cache' \in {cache, NoCache}
  PROVE  ListInv'
  <1>1. ListTyped' /\ LockedInside'
    BY Rest DEF ListInv, ListTyped, LockedInside
  <1>2. Walks'
    BY Rest DEF ListInv, Walks, Covers
  <1>3. Exist'
    BY Rest DEF ListInv, Exist, Covers
  <1>4. RefreshShowsAll' /\ ListNeverGoesBack'
    BY DEF ListInv, RefreshShowsAll, ListNeverGoesBack
  <1>5. QED
    BY <1>1, <1>2, <1>3, <1>4 DEF ListInv

LEMMA AskKeeps ==
  ASSUME HandlerInv, ListInv, NEW l \in Readers, NEW force \in BOOLEAN, ListAsk(l, force)
  PROVE  ListInv'
  <1> DEFINE x == [at |-> "waiting", force |-> force, need |-> Answered, seen |-> SeenSoFar,
                   from |-> {}]
  <1>1. Answered \subseteq cases /\ cases \subseteq Nat
    BY AnsweredExist DEF HandlerInv, JobsTyped
  <1>2. ASSUME NEW S, Covers(S)
        PROVE  SeenSoFar \subseteq S
    BY <1>2 DEF Covers, SeenSoFar
  <1>3. SeenSoFar \subseteq cases
    BY <1>2 DEF ListInv, Exist
  <1>4. x \in ReaderStates
    BY <1>1, <1>3 DEF ReaderStates
  <1>5. /\ reader' = [reader EXCEPT ![l] = x] /\ reader[l].at = "idle"
        /\ shown' = [shown EXCEPT ![l] = NothingShown]
        /\ UNCHANGED <<cases, cache, listLock>>
    BY DEF ListAsk, work, purview
  <1>6. /\ reader'[l] = x /\ shown'[l] = NothingShown
        /\ \A k \in Readers : k # l => reader'[k] = reader[k] /\ shown'[k] = shown[k]
    BY <1>5 DEF ListInv, ListTyped
  <1>7. /\ x.at = "waiting" /\ x.need = Answered /\ x.seen = SeenSoFar /\ x.from = {}
    OBVIOUS
  <1> HIDE DEF x
  <1>8. ListTyped'
    BY <1>4, <1>5, Rest DEF ListInv, ListTyped
  <1>9. LockedInside'
    BY <1>5, <1>6, <1>7 DEF ListInv, LockedInside
  <1>10. ASSUME NEW S, Covers(S)
         PROVE  Covers(S)'
    <2>1. SeenSoFar \subseteq S
      BY <1>2, <1>10
    <2>2. QED
      BY <1>6, <1>7, <1>10, <2>1, Rest DEF Covers
  <1>11. Walks'
    <2>1. cache'.at # "none" => Covers(cache.held)'
      BY <1>5, <1>10 DEF ListInv, Walks
    <2>2. ASSUME NEW k \in Readers, reader'[k].at = "reading"
          PROVE  Covers(reader[k].from)' /\ reader'[k].need \subseteq reader'[k].from
      <3>1. k # l /\ reader'[k] = reader[k]
        BY <1>6, <1>7, <2>2
      <3>2. Covers(reader[k].from) /\ reader[k].need \subseteq reader[k].from
        BY <2>2, <3>1 DEF ListInv, Walks
      <3>3. QED
        BY <1>10, <3>1, <3>2 DEF Covers
    <2>3. \A k \in Readers : reader'[k].at = "serving" => ~reader'[k].force
      BY <1>6, <1>7 DEF ListInv, Walks
    <2>4. QED
      BY <1>5, <2>1, <2>2, <2>3 DEF Walks, Covers
  <1>12. Exist'
    <2>1. Covers(cases)'
      BY <1>5, <1>10 DEF ListInv, Exist, Covers
    <2>2. QED
      BY <1>1, <1>5, <1>6, <1>7, <2>1 DEF ListInv, Exist
  <1>13. RefreshShowsAll' /\ ListNeverGoesBack'
    BY <1>6, Rest DEF ListInv, RefreshShowsAll, ListNeverGoesBack, NothingShown
  <1>14. QED
    BY <1>8, <1>9, <1>11, <1>12, <1>13 DEF ListInv

\* Reader l returns a listing that covers, and gives the lock back.
LEMMA ShowsKeeps ==
  ASSUME ListInv, NEW l \in Readers, NEW held \in SUBSET cases, Shows(l, held), listLock = l,
         listLock' = "free", UNCHANGED cases, Covers(held),
         reader[l].force => reader[l].need \subseteq held,
         cache' \in Caches, cache'.held \subseteq cases, cache'.at # "none" => cache'.held = held,
         cases \subseteq Nat
  PROVE  ListInv'
  <1> DEFINE v == [held |-> held, need |-> reader[l].need, seen |-> reader[l].seen,
                   force |-> reader[l].force]
  <1>1. reader[l] \in ReaderStates
    BY DEF ListInv, ListTyped
  <1>2. v \in Listings
    BY <1>1 DEF Listings, ReaderStates
  <1>3. v.held = held /\ v.need = reader[l].need /\ v.seen = reader[l].seen
    OBVIOUS
  <1>4. (v.force <=> reader[l].force) /\ v.seen \subseteq held
    BY DEF Covers
  <1>5. shown' = [shown EXCEPT ![l] = v] /\ reader' = [reader EXCEPT ![l] = AtRest]
    BY DEF Shows
  <1> HIDE DEF v
  <1>6. /\ reader'[l] = AtRest /\ shown'[l] = v
        /\ \A k \in Readers : k # l => reader'[k] = reader[k] /\ shown'[k] = shown[k]
    BY <1>5 DEF ListInv, ListTyped
  <1>7. ListTyped'
    BY <1>2, <1>5, Rest DEF ListInv, ListTyped
  <1>8. \A k \in Readers : reader'[k].at \notin {"serving", "reading"}
    BY <1>6, Rest DEF ListInv, LockedInside
  <1>9. LockedInside'
    BY <1>8, CaseWorkAssumption DEF LockedInside
  <1>10. Covers(held)'
    BY <1>3, <1>6, Rest DEF Covers
  <1>11. Walks'
    BY <1>8, <1>10 DEF Walks, Covers
  <1>12. Exist'
    <2>1. Covers(cases)'
      BY <1>10 DEF Covers
    <2>2. QED
      BY <1>6, <2>1, Rest DEF ListInv, Exist
  <1>13. RefreshShowsAll'
    BY <1>3, <1>4, <1>6 DEF ListInv, RefreshShowsAll
  <1>14. ListNeverGoesBack'
    BY <1>3, <1>4, <1>6 DEF ListInv, ListNeverGoesBack
  <1>15. QED
    BY <1>7, <1>9, <1>11, <1>12, <1>13, <1>14 DEF ListInv

\* Reader l fails and gives the lock back.
LEMMA GivesUpKeeps ==
  ASSUME ListInv, NEW l \in Readers, ReaderGoes(l, AtRest), listLock = l,
         listLock' = "free", UNCHANGED <<cases, cache, shown>>
  PROVE  ListInv'
  <1>1. /\ reader'[l] = AtRest
        /\ \A k \in Readers : k # l => reader'[k] = reader[k]
    BY DEF ListInv, ListTyped, ReaderGoes
  <1>2. ListTyped'
    BY Rest DEF ListInv, ListTyped, ReaderGoes
  <1>3. \A k \in Readers : reader'[k].at \notin {"serving", "reading"}
    BY <1>1, Rest DEF ListInv, LockedInside
  <1>4. LockedInside'
    BY <1>3, CaseWorkAssumption DEF LockedInside
  <1>5. \A S : Covers(S) => Covers(S)'
    BY <1>1, Rest DEF Covers
  <1>6. Walks'
    BY <1>3, <1>5 DEF ListInv, Walks, Covers
  <1>7. Exist'
    BY <1>1, <1>5, Rest DEF ListInv, Exist, Covers
  <1>8. RefreshShowsAll' /\ ListNeverGoesBack'
    BY DEF ListInv, RefreshShowsAll, ListNeverGoesBack
  <1>9. QED
    BY <1>2, <1>4, <1>6, <1>7, <1>8 DEF ListInv

\* Reader l goes inside, to serve what is cached or to walk.
LEMMA EntersKeeps ==
  ASSUME ListInv, NEW l \in Readers, reader[l].at = "waiting", listLock = "free",
         ListCached(l) \/ ListWalk(l), cases \subseteq Nat
  PROVE  ListInv'
  <1> DEFINE x == reader'[l]
  <1>1. reader[l] \in ReaderStates /\ reader \in [Readers -> ReaderStates]
    BY DEF ListInv, ListTyped
  <1>2. UNCHANGED <<cases, cache, shown>> /\ listLock' = l
    BY DEF ListCached, ListWalk, work, purview
  <1>3. \/ Serves(l) /\ reader' = [reader EXCEPT ![l] = [reader[l] EXCEPT !.at = "serving"]]
        \/ reader' = [reader EXCEPT ![l] = [reader[l] EXCEPT !.at = "reading", !.from = cases]]
    BY <1>1 DEF ListCached, ListWalk
  <1>4. /\ x \in ReaderStates /\ reader' \in [Readers -> ReaderStates]
        /\ x.force = reader[l].force /\ x.need = reader[l].need /\ x.seen = reader[l].seen
        /\ \/ Serves(l) /\ x.at = "serving" /\ x.from = reader[l].from
           \/ x.at = "reading" /\ x.from = cases
    <2>1. CASE reader' = [reader EXCEPT ![l] = [reader[l] EXCEPT !.at = "serving"]] /\ Serves(l)
      <3>1. [reader[l] EXCEPT !.at = "serving"] \in ReaderStates
        BY <1>1 DEF ReaderStates
      <3>2. x = [reader[l] EXCEPT !.at = "serving"]
        BY <1>1, <2>1
      <3>3. QED
        BY <1>1, <2>1, <3>1, <3>2 DEF ReaderStates
    <2>2. CASE reader' = [reader EXCEPT ![l] = [reader[l] EXCEPT !.at = "reading", !.from = cases]]
      <3>1. [reader[l] EXCEPT !.at = "reading", !.from = cases] \in ReaderStates
        BY <1>1 DEF ReaderStates
      <3>2. x = [reader[l] EXCEPT !.at = "reading", !.from = cases]
        BY <1>1, <2>2
      <3>3. QED
        BY <1>1, <2>2, <3>1, <3>2 DEF ReaderStates
    <2>3. QED
      BY <1>3, <2>1, <2>2
  <1>5. \A k \in Readers : k # l => reader'[k] = reader[k]
    BY <1>1, <1>3
  <1> HIDE DEF x
  <1>6. \A k \in Readers : k # l => reader[k].at \notin {"serving", "reading"}
    BY CaseWorkAssumption DEF ListInv, LockedInside
  <1>7. \A S : Covers(S) => Covers(S)'
    BY <1>2, <1>4, <1>5 DEF Covers, x
  <1>8. ListTyped'
    BY <1>2, <1>4 DEF ListInv, ListTyped
  <1>9. LockedInside'
    BY <1>2, <1>4, <1>5, <1>6 DEF LockedInside, x
  <1>10. Walks'
    <2>1. cache'.at # "none" => Covers(cache.held)'
      BY <1>2, <1>7 DEF ListInv, Walks
    <2>2. reader'[l].at = "reading" => /\ Covers(reader[l].from)'
                                       /\ reader'[l].need \subseteq reader'[l].from
      <3>1. Covers(cases)' /\ reader[l].need \subseteq cases
        BY <1>2, <1>7 DEF ListInv, Exist, Covers
      <3>2. reader'[l].at = "reading" => reader'[l].from = cases
        BY <1>4 DEF x
      <3>3. reader'[l].need = reader[l].need
        BY <1>4 DEF x
      <3>4. QED
        BY <1>2, <3>1, <3>2, <3>3 DEF Covers
    <2>3. reader'[l].at = "serving" => ~reader'[l].force
      BY <1>4 DEF Serves, x
    <2>4. \A k \in Readers : k # l => reader'[k].at \notin {"serving", "reading"}
      BY <1>5, <1>6
    <2>5. QED
      BY <1>2, <2>1, <2>2, <2>3, <2>4 DEF Walks, Covers
  <1>11. Exist'
    BY <1>2, <1>4, <1>5, <1>7 DEF ListInv, Exist, Covers, x
  <1>12. RefreshShowsAll' /\ ListNeverGoesBack'
    BY <1>2 DEF ListInv, RefreshShowsAll, ListNeverGoesBack
  <1>13. QED
    BY <1>8, <1>9, <1>10, <1>11, <1>12 DEF ListInv

LEMMA ListStepKeeps ==
  ASSUME HandlerInv, ListInv, NEW l \in Readers, ListStep(l)
  PROVE  ListInv'
  <1>1. cases \subseteq Nat
    BY DEF HandlerInv, JobsTyped
  <1>2. reader[l].at \in {"serving", "reading"} => listLock = l
    BY DEF ListInv, LockedInside
  <1>3. CASE ListCached(l) \/ ListWalk(l)
    BY <1>1, <1>3, EntersKeeps DEF ListCached, ListWalk
  <1>4. CASE ListServe(l)
    <2>1. cache.held \in SUBSET cases /\ Covers(cache.held) /\ ~reader[l].force
      BY <1>4 DEF ListServe, ListInv, Walks, Exist
    <2>2. cache \in Caches
      BY DEF ListInv, ListTyped
    <2>3. Shows(l, cache.held) /\ listLock = l /\ listLock' = "free" /\ UNCHANGED <<cases, cache>>
      BY <1>2, <1>4 DEF ListServe, work, purview
    <2>4. QED
      BY <1>1, <2>1, <2>2, <2>3, ShowsKeeps
  <1>5. CASE ListGone(l) \/ ListFails(l)
    <2>1. ReaderGoes(l, AtRest) /\ listLock = l /\ listLock' = "free"
      BY <1>2, <1>5 DEF ListGone, ListFails, ReaderGoes
    <2>2. UNCHANGED <<cases, cache, shown>>
      BY <1>5 DEF ListGone, ListFails, work, purview
    <2>3. QED
      BY <2>1, <2>2, GivesUpKeeps
  <1>6. CASE ListRead(l)
    <2>1. PICK late \in SUBSET (cases \ reader[l].from) :
             /\ cache' = [at |-> "fresh", held |-> reader[l].from \cup late]
             /\ Shows(l, reader[l].from \cup late)
      BY <1>6 DEF ListRead
    <2> DEFINE held == reader[l].from \cup late
    <2>2. reader[l].from \subseteq cases /\ Covers(reader[l].from)
          /\ reader[l].need \subseteq reader[l].from
      BY <1>6 DEF ListRead, ListInv, Walks, Exist
    <2>3. held \in SUBSET cases /\ Covers(held) /\ reader[l].need \subseteq held
      BY <2>2 DEF Covers
    <2>4. cache' = [at |-> "fresh", held |-> held] /\ Shows(l, held)
      BY <2>1
    <2>5. listLock = l /\ listLock' = "free" /\ UNCHANGED cases
      BY <1>2, <1>6 DEF ListRead, work, purview
    <2> HIDE DEF held
    <2>6. cache' \in Caches /\ cache'.held = held
      BY <1>1, <2>3, <2>4 DEF Caches
    <2>7. QED
      BY <1>1, <2>3, <2>4, <2>5, <2>6, ShowsKeeps
  <1>7. QED
    BY <1>3, <1>4, <1>5, <1>6 DEF ListStep

LEMMA AgesKeeps ==
  ASSUME ListInv, CacheAges
  PROVE  ListInv'
  <1>1. cache \in Caches /\ cache' = [cache EXCEPT !.at = "aged"] /\ cache.at = "fresh"
    BY DEF ListInv, ListTyped, CacheAges
  <1>2. cache' \in Caches /\ cache'.held = cache.held
    BY <1>1 DEF Caches
  <1>3. UNCHANGED <<cases, listLock, reader, shown>>
    BY DEF CacheAges, work, purview
  <1>4. ListTyped' /\ LockedInside'
    BY <1>2, <1>3 DEF ListInv, ListTyped, LockedInside
  <1>5. Walks' /\ Exist'
    BY <1>1, <1>2, <1>3 DEF ListInv, Walks, Exist, Covers
  <1>6. RefreshShowsAll' /\ ListNeverGoesBack'
    BY <1>3 DEF ListInv, RefreshShowsAll, ListNeverGoesBack
  <1>7. QED
    BY <1>4, <1>5, <1>6 DEF ListInv

LEMMA ListInvStep == HandlerInv /\ ListInv /\ [ServerStep \/ ClientStep]_server => ListInv'
  <1> SUFFICES ASSUME HandlerInv, ListInv, [ServerStep \/ ClientStep]_server
               PROVE  ListInv'
    OBVIOUS
  <1>1. ASSUME NEW n \in DOMAIN jobs, HandlerStep(n)
        PROVE  ListInv'
    <2>1. UNCHANGED <<listLock, reader, shown>> /\ cache' \in {cache, NoCache}
      BY <1>1 DEF HandlerStep, Deny, Attempt, Expand, Post, RefuseName, RecordCreated,
                  AnswerCase, Estimate, AnswerSearch, Fail, rest, listing
    <2>2. Effects(n)
      BY <1>1 DEF HandlerStep, Deny, Attempt, Expand, Post, RefuseName, NameRefused,
                  RecordCreated, AnswerCase, Estimate, AnswerSearch, Fail, Effects
    <2>3. cases \subseteq cases'
      BY <2>2, EffectsHarmless DEF Harmless
    <2>4. QED
      BY <2>1, <2>3, ListUntouched
  <1>2. CASE ClientStep \/ SignsInAgain \/ UNCHANGED server
    BY <1>2, ListUntouched DEF ClientStep, SignsInAgain, server, listing, purview
  <1>3. QED
    BY <1>1, <1>2, ListStepKeeps, AskKeeps, AgesKeeps DEF ServerStep

\* The two properties below are inductive only together with what is known of
\* the cache and of the walk under way.
LEMMA ListInvHolds == ServerSpec => []ListInv
  <1>1. ServerInit => ListInv
    <2>1. SUFFICES ASSUME ServerInit
                   PROVE  ListInv
      OBVIOUS
    <2>2. /\ \A l \in Readers : reader[l] = AtRest /\ shown[l] = NothingShown
          /\ cache = NoCache /\ listLock = "free" /\ cases = {}
      BY <2>1 DEF ServerInit
    <2>3. ListTyped
      BY <2>1, Rest DEF ServerInit, ListTyped
    <2>4. LockedInside
      BY <2>2, Rest, CaseWorkAssumption DEF LockedInside
    <2>5. Walks /\ Exist
      BY <2>2, Rest DEF Walks, Exist, Covers
    <2>6. RefreshShowsAll /\ ListNeverGoesBack
      BY <2>2, Rest DEF RefreshShowsAll, ListNeverGoesBack, NothingShown
    <2>7. QED
      BY <2>3, <2>4, <2>5, <2>6 DEF ListInv
  <1>2. QED
    BY <1>1, ListInvStep, HandlerInvHolds, PTL DEF ServerSpec

\* A refresh shows every case whose creation was answered before it was asked
\* for, with any number of readers and however often the cache is dropped.
THEOREM RefreshIsComplete == ServerSpec => []RefreshShowsAll
  BY ListInvHolds, PTL DEF ListInv

\* No reader is shown less than an earlier listing showed, although the cache is
\* dropped without the lock and walks may be slow or fail.
THEOREM ListIsMonotone == ServerSpec => []ListNeverGoesBack
  BY ListInvHolds, PTL DEF ListInv

-------------------------------------------------------------------------------
(* A request, by the stage it is at.                                       *)

\* What the trail and Purview tell of request n by the stage it is at, beyond
\* Followed.
ToldOf(n) ==
    /\ n \in cases => jobs[n].op = "case"
    /\ n \in searches => jobs[n].op \in Searching
    /\ jobs[n].at \in {"new", "attempted"} => n \notin cases \cup searches
    /\ jobs[n].at \in {"recorded", "estimated"} => Entry(n, jobs[n].op, "ok") \in trail
    /\ jobs[n].at = "ok" /\ jobs[n].op \in Searching => n \in estimates /\ FullyRecorded(n)

Told ==
    /\ \A n \in DOMAIN jobs : ToldOf(n)
    /\ estimates \subseteq DOMAIN jobs

\* What a step of handler n may do to the requests.
LEMMA HandlerGoes ==
  ASSUME HandlerInv, NEW n \in DOMAIN jobs, HandlerStep(n)
  PROVE  /\ Effects(n) /\ mayWrite' = mayWrite
         /\ \E at \in Stages \ {"new"} : Goes(n, at)
         /\ jobs[n].at \notin Answers
         /\ \/ faults' = faults /\ ~Goes(n, "error")
            \/ faults' = faults /\ (Deny(n) \/ RefuseName(n))
            \/ faults' = faults + 1 /\ faults < MaxFaults /\ Fail(n)
  <1> USE DEF rest
  <1>1. {"error", "attempted", "ok", "created", "recorded", "estimated"} \subseteq Stages \ {"new"}
    BY DEF Stages, Answers
  <1>2. ASSUME NEW at \in Stages, at # "error", Goes(n, at)
        PROVE  ~Goes(n, "error")
    BY <1>2, GoesTyped DEF HandlerInv, Stages, Answers
  <1>3. CASE Deny(n)
    BY <1>1, <1>3 DEF Deny, Denies, Effects, Answers
  <1>4. CASE Attempt(n)
    BY <1>1, <1>2, <1>4 DEF Attempt, Attempts, Is, Effects, Answers
  <1>5. CASE Expand(n)
    BY <1>1, <1>2, <1>5 DEF Expand, Expands, Is, Effects, Answers
  <1>6. CASE Post(n)
    BY <1>1, <1>2, <1>6 DEF Post, Creates, Is, Effects, Answers
  <1>7. CASE RecordCreated(n)
    BY <1>1, <1>2, <1>7 DEF RecordCreated, RecordsCreated, Is, Effects, Answers
  <1>8. CASE AnswerCase(n)
    BY <1>1, <1>2, <1>8 DEF AnswerCase, Is, Effects, Answers
  <1>9. CASE Estimate(n)
    BY <1>1, <1>2, <1>9 DEF Estimate, Estimates, Is, Effects, Answers
  <1>10. CASE AnswerSearch(n)
    BY <1>1, <1>2, <1>10 DEF AnswerSearch, RecordsEstimate, Is, Effects, Answers
  <1>11. CASE Fail(n)
    BY <1>1, <1>11 DEF Fail, Effects
  <1>12. CASE RefuseName(n)
    BY <1>1, <1>12 DEF RefuseName, NameRefused, Is, Effects, Answers
  <1>13. QED
    BY <1>12, <1>3, <1>4, <1>5, <1>6, <1>7, <1>8, <1>9, <1>10, <1>11 DEF HandlerStep

LEMMA HandlerTells ==
  ASSUME HandlerInv, Told, NEW n \in DOMAIN jobs, HandlerStep(n)
  PROVE  Told'
  <1> USE DEF rest
  <1>1. PICK at \in Stages \ {"new"} : Goes(n, at)
    BY HandlerGoes
  <1>2. /\ DOMAIN jobs' = DOMAIN jobs
        /\ \A m \in DOMAIN jobs : m # n => jobs'[m] = jobs[m]
        /\ jobs'[n].op = jobs[n].op
        /\ jobs'[n].at = at
    BY <1>1, GoesTyped DEF HandlerInv
  <1>3. Harmless(n)
    BY HandlerGoes, EffectsHarmless
  <1>4. ASSUME NEW m \in DOMAIN jobs, m # n
        PROVE  ToldOf(m)'
    BY <1>2, <1>3, <1>4 DEF Told, ToldOf, FullyRecorded, Harmless
  <1>5. ToldOf(n) /\ FollowedAt(n)
    BY DEF Told, HandlerInv, Followed
  <1>6. /\ \A b \in Stages : Goes(n, b) => b = at
        /\ {"error", "attempted", "ok", "created", "recorded", "estimated"} \subseteq Stages
    BY <1>2, GoesTyped DEF HandlerInv, Stages, Answers
  <1>7. /\ n \in cases' => jobs[n].op = "case"
        /\ n \in searches' => jobs[n].op \in Searching
    <2>1. CASE n \notin cases' \ cases /\ n \notin searches' \ searches
      BY <1>5, <2>1 DEF ToldOf
    <2>2. CASE n \in (cases' \ cases) \cup (searches' \ searches)
      <3>1. Creates(n)
        BY <2>2, HandlerGoes DEF Effects, Denies, Attempts, Expands, RecordsCreated, Estimates,
                                 RecordsEstimate, Notes, purview
      <3>2. QED
        BY <1>5, <3>1, <2>2, Names DEF Creates, Is, ToldOf
    <2>3. QED
      BY <2>1, <2>2
  <1>8. at \in {"recorded", "estimated"} => Entry(n, jobs[n].op, "ok") \in trail'
    <2>1. CASE at = "recorded"
      <3>1. RecordCreated(n)
        BY <1>6, <2>1 DEF HandlerStep, Deny, Attempt, Expand, Post, RefuseName, AnswerCase, Estimate,
                          AnswerSearch, Fail
      <3>2. QED
        BY <3>1 DEF RecordCreated, RecordsCreated, Notes
    <2>2. CASE at = "estimated"
      <3>1. Estimate(n)
        BY <1>6, <2>2 DEF HandlerStep, Deny, Attempt, Expand, Post, RefuseName, AnswerCase, RecordCreated,
                          AnswerSearch, Fail
      <3>2. QED
        BY <1>3, <1>5, <3>1 DEF Estimate, Estimates, Is, ToldOf, Harmless
    <2>3. QED
      BY <2>1, <2>2
  <1>9. at = "ok" /\ jobs[n].op \in Searching =>
           /\ n \in estimates'
           /\ {Entry(n, jobs[n].op, "attempted"), Entry(n, jobs[n].op, "ok"),
               Entry(n, "estimate", "ok")} \subseteq trail'
    <2>1. SUFFICES ASSUME at = "ok", jobs[n].op \in Searching
                   PROVE  /\ n \in estimates'
                          /\ {Entry(n, jobs[n].op, "attempted"), Entry(n, jobs[n].op, "ok"),
                              Entry(n, "estimate", "ok")} \subseteq trail'
      OBVIOUS
    <2>2. AnswerSearch(n)
      BY <1>6, <2>1, Names DEF HandlerStep, Deny, Attempt, Expand, Expands, Post, RefuseName, AnswerCase,
                        RecordCreated, Estimate, Fail, Is
    <2>3. jobs[n].at = "estimated" /\ Entry(n, "estimate", "ok") \in trail'
      BY <2>2 DEF AnswerSearch, RecordsEstimate, Is, Notes
    <2>4. QED
      BY <1>3, <1>5, <2>3 DEF ToldOf, FollowedAt, Harmless
  <1>12. at = "attempted" => n \notin cases' \cup searches'
    <2>1. SUFFICES ASSUME at = "attempted" PROVE n \notin cases' \cup searches'
      OBVIOUS
    <2>2. Attempt(n)
      BY <1>6, <2>1 DEF HandlerStep, Deny, Expand, Post, RefuseName, AnswerCase, Estimate,
                        RecordCreated, AnswerSearch, Fail
    <2>3. QED
      BY <1>5, <2>2 DEF Attempt, Attempts, Is, Notes, purview, ToldOf
  <1>10. ToldOf(n)'
    BY <1>2, <1>7, <1>8, <1>9, <1>12 DEF ToldOf, FullyRecorded
  <1>11. QED
    BY <1>2, <1>3, <1>4, <1>10 DEF Told, Harmless

LEMMA ToldStep == HandlerInv /\ Told /\ [ServerStep \/ ClientStep]_server => Told'
  <1> SUFFICES ASSUME HandlerInv, Told, [ServerStep \/ ClientStep]_server
               PROVE  Told'
    OBVIOUS
  <1>1. ASSUME NEW l \in Readers, ListStep(l) \/ (\E force \in BOOLEAN : ListAsk(l, force))
        PROVE  UNCHANGED <<jobs, purview, trail>>
    BY <1>1 DEF ListStep, ListAsk, ListCached, ListServe, ListGone, ListWalk, ListRead,
                ListFails, work
  <1>2. UNCHANGED <<jobs, purview, trail>> => Told'
    BY DEF Told, ToldOf, FullyRecorded, purview
  <1>3. CASE CacheAges \/ SignsInAgain \/ UNCHANGED server
    BY <1>2, <1>3 DEF CacheAges, SignsInAgain, work, server
  <1>4. CASE ClientStep
    <2>1. UNCHANGED <<cases, searches, estimates, trail>>
      BY <1>4 DEF ClientStep, purview
    <2>2. QED
      BY <1>4, <2>1, ClientAdds DEF HandlerInv, Followed, Told, ToldOf, FullyRecorded
  <1>5. QED
    BY <1>1, <1>2, <1>3, <1>4, HandlerTells DEF ServerStep

LEMMA ToldHolds == ServerSpec => []Told
  <1>1. ServerInit => Told
    BY DEF ServerInit, Told
  <1>2. QED
    BY <1>1, ToldStep, HandlerInvHolds, PTL DEF ServerSpec

-------------------------------------------------------------------------------
(* The page.                                                               *)

RowStates == [status : {"valid", "running", "done", "failed"}, case : Nat,
              expansion : BOOLEAN, done : SUBSET Searching]

Hands == [row : Rows \cup {0}, job : Nat]

\* What a worker has in hand is a request about its row.
Holds(h) == h.row \in Rows /\ h.job \in DOMAIN jobs /\ jobs[h.job].row = h.row

PageTyped ==
    /\ row \in [Rows -> RowStates]
    /\ clicks \in 0..MaxClicks
    /\ queue \in [Runs -> SUBSET Rows]
    /\ hand \in [Runs -> [Workers -> Hands]]
    /\ \A k \in Runs, w \in Workers : hand[k][w] = Resting \/ Holds(hand[k][w])
    /\ faults \in 0..MaxFaults
    /\ \A k \in Runs, w \in Workers : k > clicks => queue[k] = {} /\ hand[k][w] = Resting

\* Two rows that remember the same.
Alike(x, y) == x.case = y.case /\ x.expansion = y.expansion /\ x.done = y.done

\* Worker w of run k, of those in W, now rests or has a new request in hand, the
\* next one of its row.
Sent(rows, h) ==
    \/ h = Resting
    \/ /\ h.row \in Rows
       /\ h.job \in DOMAIN jobs' \ DOMAIN jobs
       /\ NextOp(rows[h.row]) # "done"
       /\ jobs'[h.job] = Request(rows, h.row)

\* What the page does in one turn, once its rows remember `rows`: it sends some
\* requests, each of which some worker of W has in hand now.
Sends(W, rows) ==
    /\ \E s \in Seq(Requests) : jobs' = jobs \o s
    /\ \A n \in DOMAIN jobs' \ DOMAIN jobs :
          \E k \in Runs, w \in Workers : <<k, w>> \in W /\ hand'[k][w].job = n
    /\ \A k \in Runs, w \in Workers :
          IF <<k, w>> \in W THEN Sent(rows, hand'[k][w]) ELSE hand'[k][w] = hand[k][w]
    /\ \A r \in Rows :
          /\ Alike(row'[r], rows[r])
          /\ row'[r].status = "done" => rows[r].status = "done" \/ NextOp(rows[r]) = "done"
    /\ row' \in [Rows -> RowStates]
    /\ queue' \in [Runs -> SUBSET Rows]
    /\ hand' \in [Runs -> [Workers -> Hands]]
    /\ clicks' \in clicks..MaxClicks
    /\ \A k \in Runs : k > clicks' => queue'[k] = queue[k] /\ \A w \in Workers : <<k, w>> \notin W

LEMMA RestingIs == Resting.row = 0 /\ Resting.job = 0 /\ Resting \in Hands /\ 0 \notin Rows
  BY BatchAssumption DEF Resting, Hands

LEMMA NextOpIs == \A x : NextOp(x) \in {"case", "expand", "naive", "expanded", "done"}
  BY DEF NextOp

LEMMA RequestIs ==
  ASSUME HandlerInv, NEW rows \in [Rows -> RowStates], NEW r \in Rows, NextOp(rows[r]) # "done"
  PROVE  /\ Request(rows, r) \in Requests
         /\ Request(rows, r).row = r /\ Request(rows, r).op = NextOp(rows[r])
         /\ Request(rows, r).case = rows[r].case /\ Request(rows, r).at = "new"
  <1>1. rows[r].case \in Nat
    BY DEF RowStates
  <1>2. NextOp(rows[r]) \in Ops
    BY NextOpIs DEF Ops, Writes, Searching
  <1>3. QED
    BY <1>1, <1>2 DEF Request, Received, Requests

\* The rows with other statuses.
LEMMA Restated ==
  ASSUME NEW rows \in [Rows -> RowStates],
         NEW status \in [Rows -> {"valid", "running", "done", "failed"}],
         row' = [r \in Rows |-> [rows[r] EXCEPT !.status = status[r]]]
  PROVE  /\ row' \in [Rows -> RowStates]
         /\ \A r \in Rows : Alike(row'[r], rows[r]) /\ row'[r].status = status[r]
  <1>1. \A r \in Rows : /\ rows[r] \in RowStates
                        /\ row'[r] = [rows[r] EXCEPT !.status = status[r]]
                        /\ status[r] \in {"valid", "running", "done", "failed"}
    OBVIOUS
  <1>2. \A r \in Rows : row'[r] \in RowStates /\ Alike(row'[r], rows[r]) /\ row'[r].status = status[r]
    BY <1>1 DEF RowStates, Alike
  <1>3. row' \in [Rows -> RowStates]
    <2>1. row' = [r \in Rows |-> row'[r]]
      BY Zenon
    <2>2. QED
      BY <1>2, <2>1
  <1>4. QED
    BY <1>2, <1>3

\* One request more.
LEMMA AppendIs ==
  ASSUME HandlerInv, NEW x \in Requests, jobs' = Append(jobs, x)
  PROVE  /\ \E s \in Seq(Requests) : jobs' = jobs \o s
         /\ DOMAIN jobs' \ DOMAIN jobs = {Len(jobs) + 1}
         /\ jobs'[Len(jobs) + 1] = x
  <1>1. jobs \in Seq(Jobs) /\ Requests \subseteq Jobs
    BY DEF HandlerInv, JobsTyped, Requests, Jobs, Stages
  <1>2. <<x>> \in Seq(Requests) /\ jobs' = jobs \o <<x>>
    BY <1>1
  <1>3. \E s \in Seq(Requests) : jobs' = jobs \o s
    BY <1>2, Zenon
  <1>4. DOMAIN jobs = 1..Len(jobs) /\ DOMAIN jobs' = 1..(Len(jobs) + 1) /\ Len(jobs) \in Nat
    BY <1>1
  <1>5. jobs'[Len(jobs) + 1] = x
    BY <1>1
  <1>6. QED
    BY <1>3, <1>4, <1>5

LEMMA OnwardSends ==
  ASSUME HandlerInv, PageTyped, NEW k \in Runs, NEW w \in Workers, k <= clicks,
         NEW rows \in [Rows -> RowStates], NEW along \in SUBSET Rows,
         Onward(k, w, rows, along)
  PROVE  Sends({<<k, w>>}, rows)
  <1> DEFINE open == {r \in along : NextOp(rows[r]) # "done"}
             status == [r \in Rows |-> IF r \in along /\ \A o \in open : r < o THEN "done"
                          ELSE IF r \in open /\ \A o \in open : r <= o THEN "running"
                          ELSE rows[r].status]
  <1>1. /\ row' = [r \in Rows |-> [rows[r] EXCEPT !.status = status[r]]]
        /\ queue' = [queue EXCEPT ![k] = {r \in along : \E o \in open : o < r}]
        /\ clicks' = clicks
    BY DEF Onward
  <1>2. \/ /\ hand' = [hand EXCEPT ![k][w] = Resting]
           /\ jobs' = jobs
        \/ \E r \in open :
              /\ hand' = [hand EXCEPT ![k][w] = [row |-> r, job |-> Len(jobs) + 1]]
              /\ jobs' = Append(jobs, Request(rows, r))
    BY DEF Onward
  <1>3. \A r \in Rows : status[r] = "done" => rows[r].status = "done" \/ NextOp(rows[r]) = "done"
    <2>1. SUFFICES ASSUME NEW r \in Rows, r \in along, \A o \in open : r < o,
                          NextOp(rows[r]) # "done"
                   PROVE  FALSE
      OBVIOUS
    <2>2. r < r /\ r \in Nat
      BY <2>1, BatchAssumption
    <2>3. QED
      BY <2>2
  <1>4. status \in [Rows -> {"valid", "running", "done", "failed"}]
    BY DEF RowStates
  <1>5. {r \in along : \E o \in open : o < r} \in SUBSET Rows /\ open \subseteq Rows
    OBVIOUS
  <1>6. \A r \in open : NextOp(rows[r]) # "done"
    OBVIOUS
  <1> HIDE DEF open, status
  <1>7. /\ row' \in [Rows -> RowStates]
        /\ \A r \in Rows : Alike(row'[r], rows[r]) /\ row'[r].status = status[r]
    BY <1>1, <1>4, Restated
  <1>8. /\ queue' \in [Runs -> SUBSET Rows] /\ clicks' \in clicks..MaxClicks
        /\ \A j \in Runs : j > clicks' =>
               queue'[j] = queue[j] /\ \A v \in Workers : <<j, v>> \notin {<<k, w>>}
    <2>1. \A j \in Runs : j > clicks => j # k
      BY DEF PageTyped, Runs
    <2>2. QED
      BY <1>1, <1>5, <2>1, BatchAssumption DEF PageTyped
  <1>9. jobs \in Seq(Jobs) /\ hand \in [Runs -> [Workers -> Hands]]
    BY DEF HandlerInv, JobsTyped, PageTyped
  <1>10. ASSUME NEW h \in Hands, hand' = [hand EXCEPT ![k][w] = h]
         PROVE  /\ hand' \in [Runs -> [Workers -> Hands]] /\ hand'[k][w] = h
                /\ \A j \in Runs, v \in Workers : <<j, v>> # <<k, w>> => hand'[j][v] = hand[j][v]
    BY <1>9, <1>10
  <1>11. CASE hand' = [hand EXCEPT ![k][w] = Resting] /\ jobs' = jobs
    <2>1. <<>> \in Seq(Requests) /\ jobs' = jobs \o <<>>
      BY <1>9, <1>11
    <2>2. Sent(rows, Resting)
      BY DEF Sent
    <2>3. \E s \in Seq(Requests) : jobs' = jobs \o s
      BY <2>1
    <2>4. DOMAIN jobs' \ DOMAIN jobs = {}
      BY <1>11
    <2>5. /\ hand' \in [Runs -> [Workers -> Hands]] /\ hand'[k][w] = Resting
          /\ \A j \in Runs, v \in Workers : <<j, v>> # <<k, w>> => hand'[j][v] = hand[j][v]
      BY <1>10, <1>11, RestingIs
    <2>6. QED
      BY <1>3, <1>7, <1>8, <2>2, <2>3, <2>4, <2>5 DEF Sends
  <1>12. ASSUME NEW r \in open, hand' = [hand EXCEPT ![k][w] = [row |-> r, job |-> Len(jobs) + 1]],
                jobs' = Append(jobs, Request(rows, r))
         PROVE  Sends({<<k, w>>}, rows)
    <2> DEFINE h == [row |-> r, job |-> Len(jobs) + 1]
    <2>1. h \in Hands /\ h.row = r /\ h.job = Len(jobs) + 1
      BY <1>5, <1>9 DEF Hands
    <2>2. hand' = [hand EXCEPT ![k][w] = h]
      BY <1>12
    <2> HIDE DEF h
    <2>3. r \in Rows /\ NextOp(rows[r]) # "done"
      BY <1>5, <1>6
    <2>4. Request(rows, r) \in Requests
      BY <2>3, RequestIs
    <2>5. /\ \E s \in Seq(Requests) : jobs' = jobs \o s
          /\ DOMAIN jobs' \ DOMAIN jobs = {Len(jobs) + 1}
          /\ jobs'[Len(jobs) + 1] = Request(rows, r)
      BY <1>12, <2>4, AppendIs
    <2>6. Sent(rows, h)
      BY <2>1, <2>3, <2>5 DEF Sent
    <2>7. /\ hand' \in [Runs -> [Workers -> Hands]] /\ hand'[k][w] = h
          /\ \A j \in Runs, v \in Workers : <<j, v>> # <<k, w>> => hand'[j][v] = hand[j][v]
      BY <1>10, <2>1, <2>2
    <2>8. \A n \in DOMAIN jobs' \ DOMAIN jobs :
             \E j \in Runs, v \in Workers : <<j, v>> \in {<<k, w>>} /\ hand'[j][v].job = n
      BY <2>1, <2>5, <2>7
    <2>9. \A j \in Runs, v \in Workers :
             IF <<j, v>> \in {<<k, w>>} THEN Sent(rows, hand'[j][v]) ELSE hand'[j][v] = hand[j][v]
      BY <2>6, <2>7
    <2>10. \A r1 \in Rows :
             /\ Alike(row'[r1], rows[r1])
             /\ row'[r1].status = "done" => rows[r1].status = "done" \/ NextOp(rows[r1]) = "done"
      BY <1>3, <1>7
    <2>11. QED
      BY <1>7, <1>8, <2>5, <2>7, <2>8, <2>9, <2>10 DEF Sends
  <1>13. QED
    BY <1>2, <1>11, <1>12

LEMMA ClickSends ==
  ASSUME HandlerInv, PageTyped, NEW status, Click(status), status \in {"valid", "failed"}
  PROVE  /\ clicks + 1 \in Runs /\ clicks' = clicks + 1
         /\ Sends({clicks + 1} \X Workers, row)
         /\ \A j \in Runs : j # clicks + 1 => queue'[j] = queue[j]
  <1> DEFINE rows == OfStatus(status)
             open == {r \in rows : NextOp(row[r]) # "done"}
             m == IF Cardinality(open) < Width THEN Cardinality(open) ELSE Width
             k == clicks + 1
             taken(first) == {first[i] : i \in 1..m}
             left(first) == {r \in rows : m = Width /\ \A i \in 1..m : first[i] < r}
             news(first) == [r \in Rows |-> IF r \in taken(first) THEN "running"
                                            ELSE IF r \in rows \ (open \cup left(first)) THEN "done"
                                            ELSE row[r].status]
             hands(first) == [w \in Workers |->
                                IF w <= m THEN [row |-> first[w], job |-> Len(jobs) + w] ELSE Resting]
             sent(first) == [i \in 1..m |-> Request(row, first[i])]
  <1>0. PICK first \in [1..m -> open] :
           /\ row' = [r \in Rows |-> [row[r] EXCEPT !.status =
                        IF r \in taken(first) THEN "running"
                        ELSE IF r \in rows \ (open \cup left(first)) THEN "done" ELSE row[r].status]]
           /\ queue' = [queue EXCEPT ![k] = left(first)]
           /\ hand' = [hand EXCEPT ![k] = hands(first)]
           /\ jobs' = jobs \o sent(first)
    BY DEF Click
  <1>1. /\ row' = [r \in Rows |-> [row[r] EXCEPT !.status = news(first)[r]]]
        /\ queue' = [queue EXCEPT ![k] = left(first)]
        /\ hand' = [hand EXCEPT ![k] = hands(first)]
        /\ jobs' = jobs \o sent(first)
    BY <1>0
  <1>2. clicks < MaxClicks /\ clicks' = k
    BY DEF Click
  <1>3. k \in Runs /\ clicks' \in clicks..MaxClicks
    BY <1>2, BatchAssumption DEF PageTyped, Runs
  <1>4. open \subseteq Rows /\ rows \subseteq Rows /\ \A r \in open : NextOp(row[r]) # "done"
    BY DEF OfStatus
  <1>5. m \in Nat /\ m <= Width
    <2>1. IsFiniteSet(Rows)
      BY BatchAssumption, FS_Interval
    <2>2. IsFiniteSet(open)
      BY <1>4, <2>1, FS_Subset
    <2>3. Cardinality(open) \in Nat
      BY <2>2, FS_CardinalityType
    <2>4. QED
      BY <2>3, BatchAssumption
  <1>6. \A r \in Rows : news(first)[r] = "done" => row[r].status = "done" \/ NextOp(row[r]) = "done"
    OBVIOUS
  <1>7. news(first) \in [Rows -> {"valid", "running", "done", "failed"}]
    BY DEF PageTyped, RowStates
  <1>8. /\ hands(first) \in [Workers -> Hands]
        /\ \A w \in Workers : hands(first)[w] = IF w <= m THEN [row |-> first[w], job |-> Len(jobs) + w] ELSE Resting
    <2>1. Len(jobs) \in Nat
      BY DEF HandlerInv, JobsTyped
    <2>2. \A w \in Workers : w <= m => [row |-> first[w], job |-> Len(jobs) + w] \in Hands
      <3>1. SUFFICES ASSUME NEW w \in Workers, w <= m
                     PROVE  [row |-> first[w], job |-> Len(jobs) + w] \in Hands
        OBVIOUS
      <3>2. w \in 1..m /\ Len(jobs) + w \in Nat
        BY <1>5, <2>1, <3>1, BatchAssumption DEF Workers
      <3>3. first[w] \in Rows
        BY <1>4, <3>2
      <3>4. QED
        BY <3>2, <3>3 DEF Hands
    <2>3. QED
      BY <2>2, RestingIs
  <1>9. /\ sent(first) \in [1..m -> Requests]
        /\ \A i \in 1..m : sent(first)[i] = Request(row, first[i])
    BY <1>4, RequestIs DEF PageTyped
  <1>10. left(first) \in SUBSET Rows
    BY <1>4
  <1> DEFINE n == news(first)
             h == hands(first)
             s == sent(first)
             l == left(first)
  <1>11. /\ row' = [r \in Rows |-> [row[r] EXCEPT !.status = n[r]]]
         /\ queue' = [queue EXCEPT ![k] = l]
         /\ hand' = [hand EXCEPT ![k] = h]
         /\ jobs' = jobs \o s
    BY <1>1
  <1>12. /\ \A r \in Rows : n[r] = "done" => row[r].status = "done" \/ NextOp(row[r]) = "done"
         /\ n \in [Rows -> {"valid", "running", "done", "failed"}]
         /\ h \in [Workers -> Hands] /\ l \in SUBSET Rows /\ s \in [1..m -> Requests]
    BY <1>6, <1>7, <1>8, <1>9, <1>10
  <1>13. /\ \A w \in Workers : h[w] = IF w <= m THEN [row |-> first[w], job |-> Len(jobs) + w] ELSE Resting
         /\ \A i \in 1..m : s[i] = Request(row, first[i])
         /\ \A i \in 1..m : first[i] \in Rows /\ NextOp(row[first[i]]) # "done"
    BY <1>4, <1>8, <1>9
  <1> HIDE DEF n, h, s, l, open, rows, k, m
  <1>14. /\ row' \in [Rows -> RowStates]
         /\ \A r \in Rows : Alike(row'[r], row[r]) /\ row'[r].status = n[r]
    BY <1>11, <1>12, Restated DEF PageTyped
  <1>15. /\ queue' \in [Runs -> SUBSET Rows]
         /\ hand' \in [Runs -> [Workers -> Hands]]
         /\ hand'[k] = h
         /\ \A j \in Runs : j # k => hand'[j] = hand[j] /\ queue'[j] = queue[j]
    BY <1>3, <1>11, <1>12 DEF PageTyped
  <1>16. s \in Seq(Requests) /\ Len(s) = m /\ jobs \in Seq(Jobs) /\ Len(jobs) \in Nat
    BY <1>5, <1>12 DEF HandlerInv, JobsTyped
  <1>17. \E t \in Seq(Requests) : jobs' = jobs \o t
    BY <1>11, <1>16, Zenon
  <1>18. /\ DOMAIN jobs = 1..Len(jobs) /\ DOMAIN jobs' = 1..(Len(jobs) + m)
         /\ \A i \in 1..m : jobs'[Len(jobs) + i] = s[i]
    BY <1>5, <1>11, <1>16
  <1>19. \A w \in Workers : Sent(row, h[w])
    <2>1. SUFFICES ASSUME NEW w \in Workers, w <= m
                   PROVE  Sent(row, h[w])
      BY <1>13 DEF Sent
    <2>2. w \in 1..m
      BY <1>5, <2>1, BatchAssumption DEF Workers
    <2>3. h[w].row = first[w] /\ h[w].job = Len(jobs) + w
      <3>1. h[w] = [row |-> first[w], job |-> Len(jobs) + w]
        BY <1>13, <2>1
      <3>2. QED
        BY <3>1
    <2>4. Len(jobs) + w \in DOMAIN jobs' \ DOMAIN jobs
      BY <1>5, <1>16, <1>18, <2>2
    <2>5. jobs'[Len(jobs) + w] = Request(row, first[w])
      BY <1>13, <1>18, <2>2
    <2>6. QED
      BY <1>13, <2>2, <2>3, <2>4, <2>5 DEF Sent
  <1>20. ASSUME NEW j \in DOMAIN jobs' \ DOMAIN jobs
         PROVE  \E w \in Workers : h[w].job = j
    <2> DEFINE w == j - Len(jobs)
    <2>1. w \in 1..m /\ j = Len(jobs) + w
      BY <1>5, <1>16, <1>18
    <2>2. w \in Workers /\ w <= m
      BY <1>5, <2>1, BatchAssumption DEF Workers
    <2> HIDE DEF w
    <2>3. h[w].job = j
      <3>1. h[w] = [row |-> first[w], job |-> Len(jobs) + w]
        BY <1>13, <2>2
      <3>2. QED
        BY <2>1, <3>1
    <2>4. QED
      BY <2>2, <2>3
  <1>21. \A j \in DOMAIN jobs' \ DOMAIN jobs :
            \E i \in Runs, w \in Workers : <<i, w>> \in {k} \X Workers /\ hand'[i][w].job = j
    BY <1>3, <1>15, <1>20
  <1>22. \A j \in Runs, w \in Workers :
            IF <<j, w>> \in {k} \X Workers THEN Sent(row, hand'[j][w])
            ELSE hand'[j][w] = hand[j][w]
    BY <1>15, <1>19
  <1>23. \A r \in Rows :
            /\ Alike(row'[r], row[r])
            /\ row'[r].status = "done" => row[r].status = "done" \/ NextOp(row[r]) = "done"
    BY <1>12, <1>14
  <1>26. \A j \in Runs : j > clicks' =>
            queue'[j] = queue[j] /\ \A v \in Workers : <<j, v>> \notin {k} \X Workers
    <2>1. \A j \in Runs : j > k => j # k
      BY <1>3, BatchAssumption DEF Runs
    <2>2. QED
      BY <1>2, <1>15, <2>1
  <1>24. Sends({k} \X Workers, row)
    BY <1>2, <1>3, <1>14, <1>15, <1>17, <1>21, <1>22, <1>23, <1>26 DEF Sends
  <1>25. QED
    BY <1>2, <1>3, <1>15, <1>24 DEF k

\* What the rows remember once the answer of worker w of run k is in.
Answer(k, w) ==
    LET r == hand[k][w].row
        n == hand[k][w].job
    IN  [row EXCEPT ![r] = IF jobs[n].at = "ok" THEN Remembers(row[r], n) ELSE Failed(row[r])]

RememberingFailure(k, w) == [row EXCEPT ![hand[k][w].row] = Failed(row[hand[k][w].row])]

LEMMA RemembersIs ==
  ASSUME HandlerInv, NEW n \in DOMAIN jobs, NEW x \in RowStates
  PROVE  /\ Remembers(x, n) \in RowStates
         /\ Remembers(x, n).status = x.status
         /\ Remembers(x, n).case = IF jobs[n].op = "case" THEN n ELSE x.case
         /\ Remembers(x, n).expansion = (x.expansion \/ jobs[n].op = "expand")
         /\ Remembers(x, n).done = x.done \cup ({jobs[n].op} \cap Searching)
  <1>1. jobs[n].op \in {"case", "expand", "naive", "expanded"} /\ n \in Nat
    <2>1. jobs[n] \in Jobs /\ n \in Nat
      BY DEF HandlerInv, JobsTyped
    <2>2. QED
      BY <2>1 DEF Jobs, Ops, Writes, Searching
  <1>2. CASE jobs[n].op = "case"
    BY <1>1, <1>2 DEF Remembers, RowStates, Searching
  <1>3. CASE jobs[n].op = "expand"
    BY <1>1, <1>3 DEF Remembers, RowStates, Searching
  <1>4. CASE jobs[n].op \in Searching
    BY <1>1, <1>4 DEF Remembers, RowStates, Searching
  <1>5. QED
    BY <1>1, <1>2, <1>3, <1>4 DEF Searching

LEMMA FailedIs ==
  ASSUME NEW x \in RowStates
  PROVE  Failed(x) \in RowStates /\ Alike(Failed(x), x) /\ Failed(x).status = "failed"
  BY DEF Failed, RowStates, Alike

LEMMA InHand ==
  ASSUME PageTyped, NEW k \in Runs, NEW w \in Workers, hand[k][w].job # 0
  PROVE  /\ k <= clicks /\ hand[k][w].row \in Rows
         /\ hand[k][w].job \in DOMAIN jobs
         /\ jobs[hand[k][w].job].row = hand[k][w].row
  <1>1. hand[k][w] # Resting
    BY RestingIs
  <1>2. ~(k > clicks)
    BY <1>1 DEF PageTyped
  <1>3. k <= clicks
    BY <1>2 DEF PageTyped, Runs
  <1>4. QED
    BY <1>1, <1>3 DEF PageTyped, Holds

\* One turn of the page, for worker w of run k.
LEMMA WorkerSends ==
  ASSUME HandlerInv, PageTyped, NEW k \in Runs, NEW w \in Workers, WorkerStep(k, w)
  PROVE  /\ hand[k][w].job # 0
         /\ \/ /\ Deliver(k, w) \/ DeliverError(k, w)
               /\ jobs[hand[k][w].job].at \in Answers
               /\ Sends({<<k, w>>}, Answer(k, w))
               /\ faults' = faults
            \/ /\ Sends({<<k, w>>}, RememberingFailure(k, w))
               /\ faults < MaxFaults /\ faults' = faults + 1
         /\ UNCHANGED <<purview, trail, mayWrite, listing>>
  <1> DEFINE r == hand[k][w].row
             n == hand[k][w].job
             F == [row EXCEPT ![r] = Failed(row[r])]
             R == [row EXCEPT ![r] = Remembers(row[r], n)]
  <1>1. n # 0 /\ UNCHANGED <<purview, trail, mayWrite, listing>>
    BY DEF WorkerStep, Deliver, DeliverError, Cut
  <1>2. k <= clicks /\ r \in Rows /\ n \in DOMAIN jobs
    BY <1>1, InHand
  <1>3. row \in [Rows -> RowStates] /\ queue[k] \in SUBSET Rows
    BY DEF PageTyped
  <1>4. F \in [Rows -> RowStates] /\ R \in [Rows -> RowStates]
    BY <1>2, <1>3, FailedIs, RemembersIs
  <1>5. CASE Deliver(k, w)
    <2>1. R = Answer(k, w) /\ jobs[n].at = "ok" /\ faults' = faults
      BY <1>5 DEF Deliver, Answer
    <2>2. Onward(k, w, R, {r} \cup queue[k])
      BY <1>5 DEF Deliver
    <2>3. {r} \cup queue[k] \in SUBSET Rows
      BY <1>2, <1>3
    <2> HIDE DEF R, r
    <2>4. Sends({<<k, w>>}, R)
      BY <1>2, <1>4, <2>2, <2>3, OnwardSends
    <2>5. QED
      BY <1>1, <1>5, <2>1, <2>4 DEF Answers
  <1>6. CASE DeliverError(k, w)
    <2>1. F = Answer(k, w) /\ jobs[n].at = "error" /\ faults' = faults
      BY <1>6 DEF DeliverError, Answer
    <2>2. Onward(k, w, F, queue[k])
      BY <1>6 DEF DeliverError
    <2> HIDE DEF F, r
    <2>3. Sends({<<k, w>>}, F)
      BY <1>2, <1>3, <1>4, <2>2, OnwardSends
    <2>4. QED
      BY <1>1, <1>6, <2>1, <2>3 DEF Answers
  <1>7. CASE Cut(k, w)
    <2>1. F = RememberingFailure(k, w) /\ faults < MaxFaults /\ faults' = faults + 1
      BY <1>7 DEF Cut, RememberingFailure
    <2>2. Onward(k, w, F, queue[k])
      BY <1>7 DEF Cut
    <2> HIDE DEF F, r
    <2>3. Sends({<<k, w>>}, F)
      BY <1>2, <1>3, <1>4, <2>2, OnwardSends
    <2>4. QED
      BY <1>1, <2>1, <2>3
  <1>8. QED
    BY <1>5, <1>6, <1>7 DEF WorkerStep

\* What the page sends is what any client may send.
LEMMA SendsIsClient ==
  ASSUME HandlerInv, PageTyped, NEW W, NEW rows, Sends(W, rows), faults' \in faults..MaxFaults,
         UNCHANGED <<purview, trail, mayWrite, listing>>
  PROVE  ClientStep
  <1>1. PICK s \in Seq(Requests) : jobs' = jobs \o s
    BY DEF Sends
  <1>2. jobs \in Seq(Jobs)
    BY DEF HandlerInv, JobsTyped
  <1>3. SubSeq(jobs', Len(jobs) + 1, Len(jobs')) = s
    <2>1. Len(jobs) \in Nat /\ Len(s) \in Nat /\ Len(jobs') = Len(jobs) + Len(s)
      BY <1>1, <1>2
    <2>2. s \in Seq(Jobs)
      <3>1. Requests \subseteq Jobs
        BY DEF Requests, Jobs, Stages, HandlerInv, JobsTyped
      <3>2. QED
        BY <3>1
    <2>3. SubSeq(jobs \o s, Len(jobs) + 1, Len(jobs) + Len(s)) = SubSeq(s, 1, Len(s))
      <3>1. Len(jobs) + 1 - Len(jobs) = 1 /\ Len(jobs) + Len(s) - Len(jobs) = Len(s)
        BY <2>1
      <3>2. Len(jobs) + 1 \in Len(jobs) + 1 .. Len(jobs) + Len(s) + 1
        BY <2>1
      <3>3. Len(jobs) + Len(s) \in Len(jobs) + 1 - 1 .. Len(jobs) + Len(s)
        BY <2>1
      <3>4. QED
        BY <1>2, <2>2, <3>1, <3>2, <3>3, SubSeqOfConcat2
    <2>4. SubSeq(s, 1, Len(s)) = s
      BY <2>2, SubSeqFull
    <2>5. QED
      BY <1>1, <2>1, <2>3, <2>4
  <1>4. QED
    BY <1>1, <1>3 DEF ClientStep

LEMMA SendsTyped ==
  ASSUME HandlerInv, PageTyped, NEW W, NEW rows, Sends(W, rows), faults' \in 0..MaxFaults,
         ClientStep
  PROVE  PageTyped'
  <1>1. /\ DOMAIN jobs \subseteq DOMAIN jobs'
        /\ \A m \in DOMAIN jobs : jobs'[m] = jobs[m]
    BY ClientAdds DEF HandlerInv
  <1>2. ASSUME NEW k \in Runs, NEW w \in Workers
        PROVE  hand'[k][w] = Resting \/ Holds(hand[k][w])'
    <2>1. CASE <<k, w>> \in W
      <3>1. Sent(rows, hand'[k][w])
        BY <2>1 DEF Sends
      <3>2. \A r : Request(rows, r).row = r
        BY DEF Request, Received
      <3>3. QED
        BY <3>1, <3>2 DEF Sent, Holds
    <2>2. CASE <<k, w>> \notin W
      <3>1. hand'[k][w] = hand[k][w]
        BY <2>2 DEF Sends
      <3>2. hand[k][w] = Resting \/ Holds(hand[k][w])
        BY DEF PageTyped
      <3>3. QED
        BY <1>1, <3>1, <3>2 DEF Holds
    <2>3. QED
      BY <2>1, <2>2
  <1>3. ASSUME NEW k \in Runs, NEW w \in Workers, k > clicks'
        PROVE  queue'[k] = {} /\ hand'[k][w] = Resting
    <2>1. k > clicks
      BY <1>3, BatchAssumption DEF Sends, PageTyped, Runs
    <2>2. queue'[k] = queue[k] /\ hand'[k][w] = hand[k][w]
      BY <1>3 DEF Sends
    <2>3. QED
      BY <2>1, <2>2 DEF PageTyped
  <1>4. clicks' \in 0..MaxClicks
    BY BatchAssumption DEF Sends, PageTyped
  <1>5. /\ row' \in [Rows -> RowStates]
        /\ queue' \in [Runs -> SUBSET Rows]
        /\ hand' \in [Runs -> [Workers -> Hands]]
    BY DEF Sends
  <1>6. QED
    BY <1>2, <1>3, <1>4, <1>5 DEF PageTyped

LEMMA PageSends ==
  ASSUME HandlerInv, PageTyped, PageStep
  PROVE  ClientStep /\ PageTyped'
  <1>1. \E W, rows : Sends(W, rows)
    BY ClickSends, WorkerSends DEF PageStep
  <1>2. faults' \in faults..MaxFaults /\ UNCHANGED <<purview, trail, mayWrite, listing>>
    <2>1. faults \in 0..MaxFaults /\ MaxFaults \in Nat
      BY CaseWorkAssumption DEF PageTyped
    <2>2. CASE \E status \in {"valid", "failed"} : Click(status)
      BY <2>1, <2>2 DEF Click
    <2>3. ASSUME NEW k \in Runs, NEW w \in Workers, WorkerStep(k, w)
          PROVE  faults' \in faults..MaxFaults /\ UNCHANGED <<purview, trail, mayWrite, listing>>
      <3>1. /\ faults' = faults \/ (faults < MaxFaults /\ faults' = faults + 1)
            /\ UNCHANGED <<purview, trail, mayWrite, listing>>
        BY <2>3, WorkerSends
      <3>2. QED
        BY <2>1, <3>1
    <2>4. QED
      BY <2>2, <2>3 DEF PageStep
  <1>3. ClientStep
    BY <1>1, <1>2, SendsIsClient
  <1>4. faults' \in 0..MaxFaults
    BY <1>2 DEF PageTyped
  <1>5. QED
    BY <1>1, <1>3, <1>4, SendsTyped

\* Whatever the server does, requests stay where they are, and what they ask.
LEMMA ServerSettles ==
  ASSUME HandlerInv, ServerStep
  PROVE  /\ DOMAIN jobs' = DOMAIN jobs
         /\ \A n \in DOMAIN jobs : /\ jobs'[n].row = jobs[n].row
                                   /\ jobs'[n].op = jobs[n].op
                                   /\ jobs'[n].case = jobs[n].case
         /\ faults' \in {faults} \cup {f \in {faults + 1} : faults < MaxFaults}
         /\ (UNCHANGED <<jobs, purview, trail>>) \/ \E n \in DOMAIN jobs : HandlerStep(n)
  <1>1. ASSUME NEW n \in DOMAIN jobs, HandlerStep(n)
        PROVE  /\ DOMAIN jobs' = DOMAIN jobs
               /\ \A m \in DOMAIN jobs : /\ jobs'[m].row = jobs[m].row
                                         /\ jobs'[m].op = jobs[m].op
                                         /\ jobs'[m].case = jobs[m].case
               /\ faults' \in {faults} \cup {f \in {faults + 1} : faults < MaxFaults}
    BY <1>1, HandlerGoes, GoesTyped DEF HandlerInv
  <1>2. ASSUME NEW l \in Readers, ListStep(l) \/ (\E force \in BOOLEAN : ListAsk(l, force))
        PROVE  /\ UNCHANGED <<jobs, purview, trail>>
               /\ faults' \in {faults} \cup {f \in {faults + 1} : faults < MaxFaults}
    BY <1>2 DEF ListStep, ListAsk, ListCached, ListServe, ListGone, ListWalk, ListRead,
                ListFails, work
  <1>3. CASE CacheAges \/ SignsInAgain
    BY <1>3 DEF CacheAges, SignsInAgain, work
  <1>4. QED
    BY <1>1, <1>2, <1>3 DEF ServerStep

LEMMA PageTypedStep == HandlerInv /\ PageTyped /\ [Next]_vars => PageTyped'
  <1> SUFFICES ASSUME HandlerInv, PageTyped, [Next]_vars
               PROVE  PageTyped'
    OBVIOUS
  <1>1. CASE ServerStep /\ UNCHANGED page
    <2>1. faults' \in 0..MaxFaults
      BY <1>1, ServerSettles, CaseWorkAssumption DEF PageTyped
    <2>2. \A h : Holds(h) => Holds(h)'
      BY <1>1, ServerSettles DEF Holds
    <2>3. QED
      BY <1>1, <2>1, <2>2 DEF page, PageTyped
  <1>2. CASE PageStep
    BY <1>2, PageSends
  <1>3. CASE UNCHANGED vars
    BY <1>3 DEF vars, server, page, PageTyped, Holds
  <1>4. QED
    BY <1>1, <1>2, <1>3 DEF Next

PageInv == HandlerInv /\ Told /\ PageTyped

\* A step of the batch is a step of the server, or one of a client.
LEMMA NextIsServed == HandlerInv /\ PageTyped /\ [Next]_vars => [ServerStep \/ ClientStep]_server
  BY PageSends DEF Next, vars, server

LEMMA PageInvHolds == Spec => []PageInv
  <1>1. Init => PageInv
    <2>1. SUFFICES ASSUME Init PROVE PageInv
      OBVIOUS
    <2>2. HandlerInv /\ Told
      BY <2>1 DEF Init, ServerInit, HandlerInv, JobsTyped, Followed, WrittenIsAttempted, OkIsTrue, Told
    <2>3. Fresh \in RowStates
      BY DEF Fresh, RowStates
    <2>4. PageTyped
      BY <2>1, <2>3, RestingIs, BatchAssumption, CaseWorkAssumption DEF Init, ServerInit, PageTyped
    <2>5. QED
      BY <2>2, <2>4 DEF PageInv
  <1>2. PageInv /\ [Next]_vars => PageInv'
    BY NextIsServed, HandlerInvStep, ToldStep, PageTypedStep DEF PageInv
  <1>3. QED
    BY <1>1, <1>2, PTL DEF Spec

\* To the server the page of the batch is a client like any other, so that all that
\* is proved of ServerSpec holds under runBatch: no request it sends is of another
\* kind, or has a role but that of its session.
THEOREM BatchIsServed == Spec => ServerSpec
  <1>1. Init => ServerInit
    BY DEF Init
  <1>2. PageInv /\ [Next]_vars => [ServerStep \/ ClientStep]_server
    BY NextIsServed DEF PageInv
  <1>3. QED
    BY <1>1, <1>2, PageInvHolds, PTL DEF Spec, ServerSpec

-------------------------------------------------------------------------------
(* What a row remembers.                                                   *)

\* What is so if row r remembers what x does.
Kept(x, r) ==
    /\ x.case = 0 => x.done = {}
    /\ x.case # 0 => x.case \in cases /\ jobs[x.case].row = r
    /\ \A kind \in x.done :
          \E n \in estimates : jobs[n].op = kind /\ jobs[n].case = x.case /\ FullyRecorded(n)
    /\ x.status = "done" => NextOp(x) = "done"

\* The request in hand h is the next one of its row x.
Awaits(h, x) == h.job # 0 => jobs[h.job].op = NextOp(x) /\ jobs[h.job].case = x.case

Memory ==
    /\ \A r \in Rows : Kept(row[r], r)
    /\ \A k \in Runs, w \in Workers :
          hand[k][w].job # 0 => Awaits(hand[k][w], row[hand[k][w].row])

LEMMA AlikeNext == \A x, y : Alike(x, y) => NextOp(x) = NextOp(y)
  BY DEF Alike, NextOp

\* Nothing that a row remembers is undone.
LEMMA StaysKept ==
  ASSUME PageInv, NEW x, NEW r, Kept(x, r),
         cases \subseteq cases', estimates \subseteq estimates', trail \subseteq trail',
         \A n \in DOMAIN jobs : /\ jobs'[n].row = jobs[n].row
                                /\ jobs'[n].op = jobs[n].op
                                /\ jobs'[n].case = jobs[n].case
  PROVE  Kept(x, r)'
  <1>1. cases \subseteq DOMAIN jobs /\ estimates \subseteq DOMAIN jobs
    BY DEF PageInv, HandlerInv, Followed, Told
  <1>2. ASSUME NEW n \in estimates, FullyRecorded(n)
        PROVE  FullyRecorded(n)'
    BY <1>1, <1>2 DEF FullyRecorded
  <1>3. ASSUME NEW kind \in x.done
        PROVE  \E n \in estimates' : /\ jobs'[n].op = kind
                                     /\ jobs'[n].case = x.case
                                     /\ FullyRecorded(n)'
    BY <1>1, <1>2 DEF Kept
  <1>4. QED
    BY <1>1, <1>3 DEF Kept

LEMMA ServerKeepsMemory ==
  ASSUME PageInv, Memory, ServerStep, UNCHANGED page
  PROVE  Memory'
  <1>1. \A n \in DOMAIN jobs : /\ jobs'[n].row = jobs[n].row
                               /\ jobs'[n].op = jobs[n].op
                               /\ jobs'[n].case = jobs[n].case
    BY ServerSettles DEF PageInv
  <1>2. cases \subseteq cases' /\ estimates \subseteq estimates' /\ trail \subseteq trail'
    <2>1. ASSUME NEW n \in DOMAIN jobs, HandlerStep(n)
          PROVE  Harmless(n)
      BY <2>1, HandlerGoes, EffectsHarmless DEF PageInv
    <2>2. QED
      BY <2>1, ServerSettles DEF PageInv, Harmless, purview
  <1>3. \A r \in Rows : Kept(row[r], r)'
    <2>1. ASSUME NEW r \in Rows
          PROVE  Kept(row[r], r)'
      <3>1. PICK x : x = row[r]
        OBVIOUS
      <3>2. Kept(x, r)'
        BY <1>1, <1>2, <3>1, StaysKept DEF Memory
      <3>3. x = row'[r]
        BY <3>1 DEF page
      <3>4. QED
        BY <3>2, <3>3 DEF Kept
    <2>2. QED
      BY <2>1
  <1>4. ASSUME NEW k \in Runs, NEW w \in Workers, hand[k][w].job # 0
        PROVE  /\ jobs'[hand[k][w].job].op = NextOp(row[hand[k][w].row])
               /\ jobs'[hand[k][w].job].case = row[hand[k][w].row].case
    BY <1>1, <1>4, InHand DEF PageInv, Memory, Awaits
  <1>5. QED
    BY <1>3, <1>4 DEF Memory, Awaits, page

\* One turn of the page, whose rows remember `rows` after it.
LEMMA SendsKeepMemory ==
  ASSUME PageInv, NEW W, NEW rows, Sends(W, rows), ClientStep,
         \A r \in Rows : Kept(rows[r], r),
         \A k \in Runs, w \in Workers :
            <<k, w>> \notin W /\ hand[k][w].job # 0 => Awaits(hand[k][w], rows[hand[k][w].row])
  PROVE  Memory'
  <1>1. /\ DOMAIN jobs \subseteq DOMAIN jobs'
        /\ \A m \in DOMAIN jobs : jobs'[m] = jobs[m]
        /\ UNCHANGED <<cases, searches, estimates, trail>>
    BY ClientAdds DEF PageInv, HandlerInv, ClientStep, purview
  <1>2. \A r \in Rows :
           /\ Alike(row'[r], rows[r])
           /\ row'[r].status = "done" => rows[r].status = "done" \/ NextOp(rows[r]) = "done"
    BY DEF Sends
  <1>3. ASSUME NEW r \in Rows
        PROVE  Kept(row[r], r)'
    <2>1. PICK x : x = rows[r]
      OBVIOUS
    <2>2. Kept(x, r)'
      BY <1>1, <2>1, StaysKept
    <2>3. Alike(row'[r], x) /\ NextOp(row'[r]) = NextOp(x)
          /\ (row'[r].status = "done" => x.status = "done" \/ NextOp(x) = "done")
      BY <1>2, <2>1, AlikeNext
    <2>4. QED
      BY <2>2, <2>3 DEF Kept, Alike
  <1>4. ASSUME NEW k \in Runs, NEW w \in Workers, hand'[k][w].job # 0
        PROVE  /\ jobs'[hand'[k][w].job].op = NextOp(row'[hand'[k][w].row])
               /\ jobs'[hand'[k][w].job].case = row'[hand'[k][w].row].case
    <2>1. CASE <<k, w>> \in W
      <3>1. PICK h : h = hand'[k][w]
        OBVIOUS
      <3>2. /\ h.row \in Rows
            /\ jobs'[h.job] = Request(rows, h.row)
        BY <1>4, <2>1, <3>1, RestingIs DEF Sends, Sent
      <3>3. /\ jobs'[h.job].op = NextOp(rows[h.row])
            /\ jobs'[h.job].case = rows[h.row].case
        BY <3>2 DEF Request, Received
      <3>4. Alike(row'[h.row], rows[h.row]) /\ NextOp(row'[h.row]) = NextOp(rows[h.row])
        BY <1>2, <3>2, AlikeNext
      <3>5. QED
        BY <3>1, <3>3, <3>4 DEF Alike
    <2>2. CASE <<k, w>> \notin W
      <3>1. PICK h : h = hand[k][w]
        OBVIOUS
      <3>2. hand'[k][w] = h
        BY <2>2, <3>1 DEF Sends
      <3>3. h.row \in Rows /\ h.job \in DOMAIN jobs
        BY <1>4, <3>1, <3>2, InHand DEF PageInv
      <3>4. jobs[h.job].op = NextOp(rows[h.row]) /\ jobs[h.job].case = rows[h.row].case
        BY <1>4, <2>2, <3>1, <3>2 DEF Awaits
      <3>5. Alike(row'[h.row], rows[h.row]) /\ NextOp(row'[h.row]) = NextOp(rows[h.row])
        BY <1>2, <3>3, AlikeNext
      <3>6. QED
        BY <1>1, <3>2, <3>3, <3>4, <3>5 DEF Alike
    <2>3. QED
      BY <2>1, <2>2
  <1>5. QED
    BY <1>3, <1>4 DEF Memory, Awaits

\* A row that failed remembers what it did.
LEMMA FailureKept ==
  ASSUME PageInv, Memory, NEW r \in Rows
  PROVE  Kept(Failed(row[r]), r)
  <1>1. row[r] \in RowStates
    BY DEF PageInv, PageTyped
  <1>2. PICK x : x = row[r]
    OBVIOUS
  <1>3. PICK y : y = Failed(row[r])
    OBVIOUS
  <1>4. Alike(y, x) /\ y.status = "failed" /\ Kept(x, r)
    BY <1>1, <1>2, <1>3, FailedIs DEF Memory
  <1>5. Kept(y, r)
    BY <1>4 DEF Kept, Alike
  <1>6. QED
    BY <1>3, <1>5

\* An answer is remembered of what is so.
LEMMA AnswerKept ==
  ASSUME PageInv, Memory, NEW k \in Runs, NEW w \in Workers, hand[k][w].job # 0,
         jobs[hand[k][w].job].at = "ok"
  PROVE  Kept(Remembers(row[hand[k][w].row], hand[k][w].job), hand[k][w].row)
  <1> DEFINE r == hand[k][w].row
             n == hand[k][w].job
             x == row[r]
             y == Remembers(x, n)
  <1>1. r \in Rows /\ n \in DOMAIN jobs /\ jobs[n].row = r
    BY InHand DEF PageInv
  <1>2. x \in RowStates /\ HandlerInv /\ Told /\ Kept(x, r)
    BY <1>1 DEF PageInv, PageTyped, Memory
  <1>3. jobs[n].op = NextOp(x) /\ jobs[n].case = x.case
    BY DEF Memory, Awaits
  <1>4. /\ y.status = x.status
        /\ y.case = IF jobs[n].op = "case" THEN n ELSE x.case
        /\ y.done = x.done \cup ({jobs[n].op} \cap Searching)
    BY <1>1, <1>2, RemembersIs
  <1>5. jobs[n].op \in Ops /\ n # 0 /\ ToldOf(n) /\ FollowedAt(n) /\ jobs[n].at = "ok"
    <2>1. jobs[n] \in Jobs /\ n # 0
      BY <1>1, <1>2 DEF HandlerInv, JobsTyped
    <2>2. QED
      BY <1>1, <1>2, <2>1 DEF Jobs, Told, HandlerInv, Followed
  <1>6. y.status # "done"
    BY <1>2, <1>3, <1>4, <1>5 DEF Kept, Ops, Writes, Searching
  <1> HIDE DEF r, n, x, y
  <1>7. CASE jobs[n].op = "case"
    <2>1. x.case = 0 /\ x.done = {}
      BY <1>2, <1>3, <1>7 DEF NextOp, Kept
    <2>2. n \in cases /\ y.case = n /\ y.done = {}
      BY <1>4, <1>5, <1>7, <2>1, Names DEF FollowedAt
    <2>3. QED
      BY <1>1, <1>5, <1>6, <2>2 DEF Kept, r, n, x, y
  <1>8. CASE jobs[n].op # "case"
    <2>1. x.case # 0 /\ y.case = x.case
      BY <1>3, <1>4, <1>8 DEF NextOp
    <2>2. \A kind \in y.done :
             \E j \in estimates : /\ jobs[j].op = kind
                                  /\ jobs[j].case = y.case
                                  /\ FullyRecorded(j)
      <3>1. SUFFICES ASSUME NEW kind \in y.done
                     PROVE  \E j \in estimates : /\ jobs[j].op = kind
                                                 /\ jobs[j].case = y.case
                                                 /\ FullyRecorded(j)
        OBVIOUS
      <3>2. CASE kind \in x.done
        BY <1>2, <2>1, <3>2 DEF Kept
      <3>3. CASE kind = jobs[n].op /\ jobs[n].op \in Searching
        BY <1>3, <1>5, <2>1, <3>3 DEF ToldOf
      <3>4. QED
        BY <1>4, <3>1, <3>2, <3>3
    <2>3. QED
      BY <1>2, <1>6, <2>1, <2>2 DEF Kept, r, n, x, y
  <1>9. QED
    BY <1>7, <1>8

LEMMA PageKeepsMemory ==
  ASSUME PageInv, Memory, OneWorkerPerRow, PageStep
  PROVE  Memory'
  <1>1. ClientStep
    BY PageSends DEF PageInv
  <1>2. CASE \E status \in {"valid", "failed"} : Click(status)
    BY <1>1, <1>2, ClickSends, SendsKeepMemory DEF PageInv, Memory
  <1>3. ASSUME NEW k \in Runs, NEW w \in Workers, WorkerStep(k, w)
        PROVE  Memory'
    <2> DEFINE r == hand[k][w].row
    <2>1. hand[k][w].job # 0
      BY <1>3, WorkerSends DEF PageInv
    <2>2. r \in Rows /\ row \in [Rows -> RowStates]
      BY <2>1, InHand DEF PageInv, PageTyped
    <2>3. ASSUME NEW x, Kept(x, r), Sends({<<k, w>>}, [row EXCEPT ![r] = x])
          PROVE  Memory'
      <3> DEFINE rows == [row EXCEPT ![r] = x]
      <3>1. \A q \in Rows : Kept(rows[q], q)
        BY <2>2, <2>3 DEF Memory
      <3>2. ASSUME NEW j \in Runs, NEW v \in Workers, <<j, v>> \notin {<<k, w>>},
                   hand[j][v].job # 0
            PROVE  Awaits(hand[j][v], rows[hand[j][v].row])
        <4>1. hand[j][v].row \in Rows
          BY <3>2, InHand DEF PageInv
        <4>2. hand[j][v].row # r
          BY <3>2, <4>1, RestingIs DEF OneWorkerPerRow
        <4>3. QED
          BY <2>2, <3>2, <4>1, <4>2 DEF Memory
      <3> HIDE DEF rows
      <3>3. Sends({<<k, w>>}, rows)
        BY <2>3 DEF rows
      <3>4. QED
        BY <1>1, <3>1, <3>2, <3>3, SendsKeepMemory
    <2>4. Kept(Failed(row[r]), r)
      BY <2>2, FailureKept
    <2>5. CASE Sends({<<k, w>>}, RememberingFailure(k, w))
      BY <2>3, <2>4, <2>5 DEF RememberingFailure
    <2>6. CASE Sends({<<k, w>>}, Answer(k, w))
      <3>1. CASE jobs[hand[k][w].job].at = "ok"
        BY <2>1, <2>3, <2>6, <3>1, AnswerKept DEF Answer
      <3>2. CASE jobs[hand[k][w].job].at # "ok"
        BY <2>3, <2>4, <2>6, <3>2 DEF Answer
      <3>3. QED
        BY <3>1, <3>2
    <2>7. QED
      BY <1>3, <2>5, <2>6, WorkerSends DEF PageInv
  <1>4. QED
    BY <1>2, <1>3 DEF PageStep

LEMMA MemoryHolds == Spec /\ []OneWorkerPerRow => []Memory
  <1>1. Init => Memory
    <2>1. SUFFICES ASSUME Init PROVE Memory
      OBVIOUS
    <2>2. \A r \in Rows : row[r] = Fresh
      BY <2>1 DEF Init
    <2>3. \A k \in Runs, w \in Workers : hand[k][w].job = 0
      BY <2>1, RestingIs DEF Init
    <2>4. \A r : Kept(Fresh, r)
      BY DEF Kept, Fresh
    <2>5. QED
      BY <2>2, <2>3, <2>4 DEF Memory
  <1>2. PageInv /\ Memory /\ OneWorkerPerRow /\ [Next]_vars => Memory'
    <2>1. SUFFICES ASSUME PageInv, Memory, OneWorkerPerRow, [Next]_vars
                   PROVE  Memory'
      OBVIOUS
    <2>2. CASE UNCHANGED vars
      BY <2>1, <2>2 DEF Memory, Kept, Awaits, FullyRecorded, vars, server, purview, page
    <2>3. QED
      BY <2>1, <2>2, ServerKeepsMemory, PageKeepsMemory DEF Next
  <1>3. QED
    BY <1>1, <1>2, PageInvHolds, PTL DEF Spec

\* A row shown as done has its case, and both its searches in that case, being
\* estimated and fully recorded: for any table, whatever failed, was cut off or was
\* retried on the way, as long as no two workers have one row.
THEOREM DoneIsDone == Spec /\ []OneWorkerPerRow => []DoneMeansDone
  <1>1. Memory /\ PageInv => DoneMeansDone
    <2>1. SUFFICES ASSUME Memory, PageInv, NEW r \in Rows, row[r].status = "done"
                   PROVE  /\ row[r].case \in cases
                          /\ jobs[row[r].case].row = r
                          /\ \A kind \in Searching :
                                \E n \in estimates : /\ jobs[n].op = kind
                                                     /\ jobs[n].case = row[r].case
                                                     /\ FullyRecorded(n)
      BY DEF DoneMeansDone
    <2>2. Kept(row[r], r) /\ NextOp(row[r]) = "done"
      BY <2>1 DEF Memory, Kept
    <2>3. row[r].case # 0 /\ Searching \subseteq row[r].done
      BY <2>2 DEF NextOp, Searching
    <2>4. QED
      BY <2>2, <2>3 DEF Kept
  <1>2. QED
    BY <1>1, MemoryHolds, PageInvHolds, PTL

-------------------------------------------------------------------------------
(* When no two workers have one row.                                       *)

\* No click came while rows were waiting: only the latest run has any.
OneRunAtATime == \A k \in Runs : k # clicks => queue[k] = {}

\* The rows in hand are running, those that wait are not, and come after them in
\* the table.
Parted ==
    /\ OneWorkerPerRow
    /\ \A k \in Runs, w \in Workers :
          /\ hand[k][w].row # 0 => row[hand[k][w].row].status = "running"
          /\ \A q \in queue[k] : hand[k][w].row < q
    /\ \A k \in Runs : \A q \in queue[k] : row[q].status # "running"

LEMMA OnwardParts ==
  ASSUME PageInv, Parted, OneRunAtATime, NEW k \in Runs, NEW w \in Workers, hand[k][w].job # 0,
         NEW x \in RowStates, x.status \in {"running", "failed"},
         NEW along, along = queue[k] \/ (along = {hand[k][w].row} \cup queue[k] /\ x.status = "running"),
         Onward(k, w, [row EXCEPT ![hand[k][w].row] = x], along)
  PROVE  Parted'
  <1> DEFINE r == hand[k][w].row
             rows == [row EXCEPT ![r] = x]
             open == {q \in along : NextOp(rows[q]) # "done"}
             status == [q \in Rows |-> IF q \in along /\ \A o \in open : q < o THEN "done"
                          ELSE IF q \in open /\ \A o \in open : q <= o THEN "running"
                          ELSE rows[q].status]
             later == {q \in along : \E o \in open : o < q}
  <1>1. r \in Rows /\ k <= clicks /\ Rows \subseteq Nat /\ 0 \notin Rows
    BY InHand, BatchAssumption DEF PageInv
  <1>2. /\ row \in [Rows -> RowStates] /\ queue \in [Runs -> SUBSET Rows]
        /\ hand \in [Runs -> [Workers -> Hands]]
    BY DEF PageInv, PageTyped
  <1>3. rows \in [Rows -> RowStates] /\ rows[r] = x /\ \A q \in Rows : q # r => rows[q] = row[q]
    BY <1>1, <1>2
  <1>4. row' = [q \in Rows |-> [rows[q] EXCEPT !.status = status[q]]]
    BY DEF Onward
  <1>5. queue' = [queue EXCEPT ![k] = later]
    BY DEF Onward
  <1>6. \/ hand' = [hand EXCEPT ![k][w] = Resting]
        \/ \E o \in open : /\ \A q \in open : o <= q
                           /\ hand' = [hand EXCEPT ![k][w] = [row |-> o, job |-> Len(jobs) + 1]]
    BY DEF Onward
  <1>7. /\ \A q \in queue[k] : r < q /\ q \in Rows
        /\ \A q \in along : q \in Rows
        /\ along \subseteq {r} \cup queue[k] /\ (r \in along => x.status = "running")
    BY <1>1, <1>2 DEF Parted
  <1>8. /\ open \subseteq along
        /\ \A q \in later : q \in along /\ \E o \in open : o < q
    OBVIOUS
  <1>9. \A q \in Rows : q \notin along => status[q] = rows[q].status
    OBVIOUS
  <1>10. \A q \in later : status[q] = rows[q].status
    <2>1. SUFFICES ASSUME NEW q \in later
                   PROVE  status[q] = rows[q].status
      OBVIOUS
    <2>2. PICK o \in open : o < q
      BY <1>8
    <2>3. o \in Nat /\ q \in Nat /\ q \in Rows
      <3>1. o \in along /\ q \in along
        BY <1>8
      <3> HIDE DEF later, open, rows, status, r
      <3>2. QED
        BY <1>1, <1>7, <3>1
    <2>4. ~(q < o) /\ ~(q <= o)
      BY <2>2, <2>3
    <2>5. QED
      BY <2>2, <2>3, <2>4
  <1>11. \A o \in open : (\A q \in open : o <= q) => status[o] = "running"
    <2>1. SUFFICES ASSUME NEW o \in open, \A q \in open : o <= q
                   PROVE  status[o] = "running"
      OBVIOUS
    <2>2. o \in Nat /\ o \in Rows /\ ~(o < o)
      <3>1. o \in along
        BY <1>8
      <3> HIDE DEF later, open, rows, status, r
      <3>2. QED
        BY <1>1, <1>7, <3>1
    <2>3. QED
      BY <2>1, <2>2
  <1>12. status \in [Rows -> {"valid", "running", "done", "failed"}]
    BY <1>3 DEF RowStates
  <1>13. \A q \in later, o \in open : (\A p \in open : o <= p) => o < q
    <2>1. SUFFICES ASSUME NEW q \in later, NEW o \in open, \A p \in open : o <= p
                   PROVE  o < q
      OBVIOUS
    <2>2. PICK p \in open : p < q
      BY <1>8
    <2>3. o \in Nat /\ p \in Nat /\ q \in Nat /\ o <= p
      BY <1>1, <1>7, <1>8, <2>1
    <2>4. QED
      BY <2>2, <2>3
  <1> HIDE DEF status, open, later, rows, r
  <1>14. \A q \in Rows : row'[q].status = status[q]
    BY <1>3, <1>4, <1>12, Restated
  <1>15. later \subseteq queue[k]
    <2>1. SUFFICES ASSUME r \in later
                   PROVE  FALSE
      BY <1>7, <1>8
    <2>2. PICK o \in open : o < r
      BY <1>8, <2>1
    <2>3. o \in Nat /\ r \in Nat /\ (o = r \/ r < o)
      BY <1>1, <1>7, <1>8
    <2>4. QED
      BY <2>2, <2>3
  <1>16. PICK h \in Hands :
            /\ hand' = [hand EXCEPT ![k][w] = h]
            /\ \/ h.row = 0
               \/ h.row \in open /\ \A q \in open : h.row <= q
    <2>1. ASSUME NEW o \in open,
                 hand' = [hand EXCEPT ![k][w] = [row |-> o, job |-> Len(jobs) + 1]]
          PROVE  /\ [row |-> o, job |-> Len(jobs) + 1] \in Hands
                 /\ [row |-> o, job |-> Len(jobs) + 1].row = o
      BY <1>7, <1>8 DEF Hands, PageInv, HandlerInv, JobsTyped
    <2>2. QED
      BY <1>6, <2>1, RestingIs
  <1>17. /\ hand'[k][w] = h
         /\ \A j \in Runs, v \in Workers : <<j, v>> # <<k, w>> => hand'[j][v] = hand[j][v]
    BY <1>2, <1>16
  <1>18. queue'[k] = later /\ \A j \in Runs : j # k => queue'[j] = queue[j]
    BY <1>2, <1>5
  <1>19. \A j \in Runs : \A q \in queue'[j] : q \in queue[j] /\ row'[q].status # "running"
    <2>1. SUFFICES ASSUME NEW j \in Runs, NEW q \in queue'[j]
                   PROVE  q \in queue[j] /\ row'[q].status # "running"
      OBVIOUS
    <2>2. q \in queue[j] /\ q \in Rows /\ row[q].status # "running"
      BY <1>2, <1>15, <1>18 DEF Parted
    <2>3. q # r
      BY <1>1, <2>2 DEF Parted, r
    <2>4. CASE j = k
      BY <1>3, <1>10, <1>14, <1>18, <2>2, <2>3, <2>4
    <2>5. CASE j # k
      <3>1. queue[k] = {} 
        BY <2>2, <2>5 DEF OneRunAtATime
      <3>2. q \notin along
        BY <1>7, <2>3, <3>1
      <3>3. QED
        BY <1>3, <1>9, <1>14, <2>2, <2>3, <3>2
    <2>6. QED
      BY <2>2, <2>4, <2>5
  <1>20. ASSUME NEW j \in Runs, NEW v \in Workers, <<j, v>> # <<k, w>>, hand[j][v].row # 0
         PROVE  /\ hand[j][v].row # r /\ hand[j][v].row \notin along
                /\ row'[hand[j][v].row].status = "running"
    <2> DEFINE o == hand[j][v].row
    <2>1. o \in Rows /\ row[o].status = "running"
      BY <1>2, <1>20 DEF Parted, Hands
    <2>2. o # r
      BY <1>1, <1>20 DEF Parted, OneWorkerPerRow, r
    <2>3. o \notin queue[k]
      BY <2>1 DEF Parted
    <2> HIDE DEF o
    <2>4. QED
      BY <1>3, <1>7, <1>9, <1>14, <2>1, <2>2, <2>3 DEF o
  <1>21. h.row # 0 => row'[h.row].status = "running" /\ h.row \in along
    BY <1>7, <1>8, <1>11, <1>14, <1>16
  <1>22. OneWorkerPerRow'
    BY <1>17, <1>20, <1>21 DEF Parted, OneWorkerPerRow
  <1>23. ASSUME NEW j \in Runs, NEW v \in Workers
         PROVE  /\ hand'[j][v].row # 0 => row'[hand'[j][v].row].status = "running"
                /\ \A q \in queue'[j] : hand'[j][v].row < q
    <2>1. CASE <<j, v>> = <<k, w>>
      <3>1. \A q \in queue'[k] : h.row < q
        <4>1. CASE h.row = 0
          <5>1. ASSUME NEW q \in queue'[k]
                PROVE  h.row < q
            <6>1. q \in Rows /\ q \in Nat /\ q # 0
              BY <1>1, <1>7, <1>15, <1>18
            <6>2. QED
              BY <4>1, <6>1
          <5>2. QED
            BY <5>1
        <4>2. CASE h.row # 0
          BY <1>13, <1>16, <1>18, <4>2
        <4>3. QED
          BY <4>1, <4>2
      <3>2. QED
        BY <1>17, <1>21, <2>1, <3>1
    <2>2. CASE <<j, v>> # <<k, w>>
      BY <1>17, <1>19, <1>20, <2>2 DEF Parted
    <2>3. QED
      BY <2>1, <2>2
  <1>24. QED
    BY <1>19, <1>22, <1>23 DEF Parted

LEMMA ClickParts ==
  ASSUME PageInv, Parted, OneRunAtATime, OneRunAtATime', NEW what \in {"valid", "failed"},
         Click(what)
  PROVE  Parted'
  <1> DEFINE rows == OfStatus(what)
             open == {r \in rows : NextOp(row[r]) # "done"}
             m == IF Cardinality(open) < Width THEN Cardinality(open) ELSE Width
             k == clicks + 1
             taken(first) == {first[i] : i \in 1..m}
             left(first) == {r \in rows : m = Width /\ \A i \in 1..m : first[i] < r}
             status(first) == [r \in Rows |-> IF r \in taken(first) THEN "running"
                                ELSE IF r \in rows \ (open \cup left(first)) THEN "done"
                                ELSE row[r].status]
             hands(first) == [w \in Workers |->
                                IF w <= m THEN [row |-> first[w], job |-> Len(jobs) + w] ELSE Resting]
  <1>1. PICK first \in [1..m -> open] :
           /\ \A i \in 1..m : Cardinality({r \in open : r <= first[i]}) = i
           /\ row' = [r \in Rows |-> [row[r] EXCEPT !.status =
                        IF r \in taken(first) THEN "running"
                        ELSE IF r \in rows \ (open \cup left(first)) THEN "done" ELSE row[r].status]]
           /\ queue' = [queue EXCEPT ![k] = left(first)]
           /\ hand' = [hand EXCEPT ![k] = hands(first)]
    BY DEF Click
  <1>2. row' = [r \in Rows |-> [row[r] EXCEPT !.status = status(first)[r]]]
    BY <1>1
  <1>3. /\ row \in [Rows -> RowStates] /\ queue \in [Runs -> SUBSET Rows]
        /\ hand \in [Runs -> [Workers -> Hands]]
        /\ k \in Runs /\ clicks' = k /\ Rows \subseteq Nat /\ 0 \notin Rows
    BY ClickSends, BatchAssumption DEF PageInv, PageTyped
  <1>4. /\ open \subseteq rows /\ rows \subseteq Rows
        /\ \A r \in rows : row[r].status # "running"
    BY DEF OfStatus
  <1>5. \A i \in 1..m : first[i] \in open /\ first[i] \in taken(first)
    OBVIOUS
  <1>6. \A q \in taken(first) : \E i \in 1..m : q = first[i]
    OBVIOUS
  <1>7. \A q \in left(first) : /\ q \in rows
                               /\ \A i \in 1..m : first[i] < q
    OBVIOUS
  <1>8. status(first) \in [Rows -> {"valid", "running", "done", "failed"}]
    BY <1>3 DEF RowStates
  <1>9. /\ \A q \in taken(first) : q \in Rows => status(first)[q] = "running"
        /\ \A q \in Rows : q \notin rows => status(first)[q] = row[q].status
        /\ \A q \in Rows : q \notin taken(first) => status(first)[q] \in {"done", row[q].status}
    BY <1>4, <1>5, <1>6
  <1>10. ASSUME NEW w \in Workers, hands(first)[w].row # 0
         PROVE  w \in 1..m /\ hands(first)[w].row = first[w]
    <2>1. hands(first)[w] = IF w <= m THEN [row |-> first[w], job |-> Len(jobs) + w] ELSE Resting
      OBVIOUS
    <2>2. w <= m
      BY <1>10, <2>1, RestingIs
    <2>3. m \in Int
      <3>1. IsFiniteSet(Rows)
        BY BatchAssumption, FS_Interval
      <3>2. IsFiniteSet(open)
        BY <1>4, <3>1, FS_Subset
      <3>3. Cardinality(open) \in Nat
        BY <3>2, FS_CardinalityType
      <3>4. QED
        BY <3>3, BatchAssumption
    <2>4. QED
      BY <2>1, <2>2, <2>3, BatchAssumption DEF Workers
  <1> DEFINE st == status(first)
             hs == hands(first)
             l == left(first)
             t == taken(first)
  <1>11. /\ row' = [r \in Rows |-> [row[r] EXCEPT !.status = st[r]]]
         /\ queue' = [queue EXCEPT ![k] = l]
         /\ hand' = [hand EXCEPT ![k] = hs]
    BY <1>1, <1>2
  <1>12. /\ st \in [Rows -> {"valid", "running", "done", "failed"}]
         /\ \A q \in t : q \in Rows => st[q] = "running"
         /\ \A q \in Rows : q \notin rows => st[q] = row[q].status
         /\ \A q \in Rows : q \notin t => st[q] \in {"done", row[q].status}
         /\ \A w \in Workers : hs[w].row # 0 => w \in 1..m /\ hs[w].row = first[w]
    BY <1>8, <1>9, <1>10
  <1>13. /\ \A i \in 1..m : first[i] \in open /\ first[i] \in t
         /\ \A q \in t : \E i \in 1..m : q = first[i]
         /\ \A q \in l : q \in rows /\ \A i \in 1..m : first[i] < q
         /\ \A i, j \in 1..m : first[i] = first[j] => i = j
    BY <1>1, <1>5, <1>6, <1>7
  <1> HIDE DEF st, hs, l, t, open, rows, m, k
  <1>14. \A q \in Rows : row'[q].status = st[q]
    <2>1. st \in [Rows -> {"valid", "running", "done", "failed"}] /\ row \in [Rows -> RowStates]
      BY <1>3, <1>12
    <2>2. row' = [r \in Rows |-> [row[r] EXCEPT !.status = st[r]]]
      BY <1>11
    <2>3. QED
      BY <2>1, <2>2, Restated
  <1>15. /\ hand'[k] = hs /\ queue'[k] = l
         /\ \A j \in Runs : j # k => hand'[j] = hand[j] /\ queue'[j] = queue[j]
    BY <1>3, <1>11
  <1>16. \A j \in Runs : j # k => queue'[j] = {}
    BY <1>3 DEF OneRunAtATime
  <1>17. \A q \in l : row'[q].status # "running"
    <2>1. SUFFICES ASSUME NEW q \in l PROVE row'[q].status # "running"
      OBVIOUS
    <2>2. q \in rows /\ q \in Rows /\ row[q].status # "running"
      BY <1>4, <1>13
    <2>3. q \notin t
      <3>1. SUFFICES ASSUME NEW i \in 1..m, q = first[i] PROVE FALSE
        BY <1>13
      <3>2. first[i] < first[i] /\ first[i] \in Nat
        BY <1>3, <1>4, <1>13, <3>1
      <3>3. QED
        BY <3>2
    <2>4. QED
      BY <1>12, <1>14, <2>2, <2>3
  <1>18. ASSUME NEW j \in Runs, NEW w \in Workers, j # k, hand[j][w].row # 0
         PROVE  hand[j][w].row \notin rows /\ row'[hand[j][w].row].status = "running"
    <2>1. hand[j][w].row \in Rows /\ row[hand[j][w].row].status = "running"
      BY <1>3, <1>18 DEF Parted, Hands
    <2>2. QED
      BY <1>4, <1>12, <1>14, <2>1
  <1>19. ASSUME NEW w \in Workers, hs[w].row # 0
         PROVE  hs[w].row \in rows /\ row'[hs[w].row].status = "running"
    <2>1. w \in 1..m /\ hs[w].row = first[w]
      BY <1>12, <1>19
    <2>2. first[w] \in t /\ first[w] \in rows /\ first[w] \in Rows
      BY <1>4, <1>13, <2>1
    <2>3. QED
      BY <1>12, <1>14, <2>1, <2>2
  <1>20. OneWorkerPerRow'
    <2>1. ASSUME NEW i \in Runs, NEW j \in Runs, NEW v \in Workers, NEW w \in Workers,
                 hand'[i][v].row # 0, hand'[i][v].row = hand'[j][w].row
          PROVE  <<i, v>> = <<j, w>>
      <3>1. CASE i = k /\ j = k
        BY <1>12, <1>13, <1>15, <2>1, <3>1
      <3>2. CASE i # k /\ j # k
        BY <1>15, <2>1, <3>2 DEF Parted, OneWorkerPerRow
      <3>3. CASE i = k /\ j # k
        BY <1>15, <1>18, <1>19, <2>1, <3>3
      <3>4. CASE i # k /\ j = k
        BY <1>15, <1>18, <1>19, <2>1, <3>4
      <3>5. QED
        BY <3>1, <3>2, <3>3, <3>4
    <2>2. QED
      BY <2>1 DEF OneWorkerPerRow
  <1>21. ASSUME NEW j \in Runs, NEW w \in Workers
         PROVE  /\ hand'[j][w].row # 0 => row'[hand'[j][w].row].status = "running"
                /\ \A q \in queue'[j] : hand'[j][w].row < q
    <2>1. CASE j # k
      BY <1>15, <1>16, <1>18, <2>1
    <2>2. CASE j = k
      <3>1. ASSUME NEW q \in l
            PROVE  hs[w].row < q
        <4>1. q \in Nat /\ q # 0
          BY <1>3, <1>4, <1>13
        <4>2. CASE hs[w].row = 0
          BY <4>1, <4>2
        <4>3. CASE hs[w].row # 0
          BY <1>12, <1>13, <4>3
        <4>4. QED
          BY <4>2, <4>3
      <3>2. QED
        BY <1>15, <1>19, <2>2, <3>1
    <2>3. QED
      BY <2>1, <2>2
  <1>22. \A j \in Runs : \A q \in queue'[j] : row'[q].status # "running"
    BY <1>15, <1>16, <1>17
  <1>23. QED
    BY <1>20, <1>21, <1>22 DEF Parted

LEMMA PartedStep ==
  PageInv /\ Parted /\ OneRunAtATime /\ OneRunAtATime' /\ [Next]_vars => Parted'
  <1> SUFFICES ASSUME PageInv, Parted, OneRunAtATime, OneRunAtATime', [Next]_vars
               PROVE  Parted'
    OBVIOUS
  <1>1. CASE UNCHANGED page
    BY <1>1 DEF page, Parted, OneWorkerPerRow
  <1>2. CASE \E status \in {"valid", "failed"} : Click(status)
    BY <1>2, ClickParts
  <1>3. ASSUME NEW k \in Runs, NEW w \in Workers, WorkerStep(k, w)
        PROVE  Parted'
    <2> DEFINE r == hand[k][w].row
               n == hand[k][w].job
    <2>1. n # 0
      BY <1>3, WorkerSends DEF PageInv
    <2>2. r \in Rows /\ n \in DOMAIN jobs /\ row[r] \in RowStates /\ row[r].status = "running"
      BY <2>1, InHand, RestingIs DEF PageInv, PageTyped, Parted
    <2>3. Failed(row[r]) \in RowStates /\ Failed(row[r]).status = "failed"
      BY <2>2, FailedIs
    <2>4. Remembers(row[r], n) \in RowStates /\ Remembers(row[r], n).status = "running"
      BY <2>2, RemembersIs DEF PageInv
    <2>5. CASE Deliver(k, w)
      <3>1. Onward(k, w, [row EXCEPT ![r] = Remembers(row[r], n)], {r} \cup queue[k])
        BY <2>5 DEF Deliver
      <3>2. QED
        BY <2>1, <2>4, <3>1, OnwardParts
    <2>6. CASE DeliverError(k, w) \/ Cut(k, w)
      <3>1. Onward(k, w, [row EXCEPT ![r] = Failed(row[r])], queue[k])
        BY <2>6 DEF DeliverError, Cut
      <3>2. QED
        BY <2>1, <2>3, <3>1, OnwardParts
    <2>7. QED
      BY <1>3, <2>5, <2>6 DEF WorkerStep
  <1>4. QED
    BY <1>1, <1>2, <1>3 DEF Next, PageStep, vars

\* As long as Run or Retry is not clicked while rows are waiting, no two workers
\* have one row.
THEOREM OneRunOneWorker == Spec /\ []OneRunAtATime => []OneWorkerPerRow
  <1>1. Init => Parted
    <2>1. SUFFICES ASSUME Init PROVE Parted
      OBVIOUS
    <2>2. \A k \in Runs : queue[k] = {} /\ \A w \in Workers : hand[k][w].row = 0
      BY <2>1, RestingIs DEF Init
    <2>3. QED
      BY <2>2 DEF Parted, OneWorkerPerRow
  <1>2. Parted => OneWorkerPerRow
    BY DEF Parted
  <1>3. QED
    BY <1>1, <1>2, PartedStep, PageInvHolds, PTL DEF Spec

NoneWaits == \A k \in Runs : queue[k] = {}

LEMMA OnwardLeavesNone ==
  ASSUME PageInv, NoneWaits, NEW k \in Runs, NEW w \in Workers, NEW rows, NEW r \in Rows, NEW along,
         along = {r} \/ along = {}, Onward(k, w, rows, along)
  PROVE  NoneWaits'
  <1> DEFINE open == {q \in along : NextOp(rows[q]) # "done"}
             later == {q \in along : \E o \in open : o < q}
  <1>1. queue' = [queue EXCEPT ![k] = later] /\ queue \in [Runs -> SUBSET Rows]
    BY DEF Onward, PageInv, PageTyped
  <1>2. later = {}
    <2>1. r \in Nat /\ ~(r < r)
      BY BatchAssumption
    <2>2. QED
      BY <2>1
  <1> HIDE DEF later
  <1>3. QED
    BY <1>1, <1>2 DEF NoneWaits

LEMMA ClickLeavesNone ==
  ASSUME PageInv, NoneWaits, RowCount <= Width, NEW what, Click(what), what \in {"valid", "failed"}
  PROVE  NoneWaits'
  <1> DEFINE rows == OfStatus(what)
             open == {r \in rows : NextOp(row[r]) # "done"}
             m == IF Cardinality(open) < Width THEN Cardinality(open) ELSE Width
             k == clicks + 1
             left(first) == {r \in rows : m = Width /\ \A i \in 1..m : first[i] < r}
  <1>1. PICK first \in [1..m -> open] :
           /\ \A i \in 1..m : Cardinality({r \in open : r <= first[i]}) = i
           /\ queue' = [queue EXCEPT ![k] = left(first)]
    BY DEF Click
  <1>2. left(first) = {}
    <2>1. SUFFICES ASSUME NEW q \in left(first)
                   PROVE  FALSE
      OBVIOUS
    <2>2. q \in Rows /\ m = Width /\ \A i \in 1..m : first[i] < q
      BY DEF OfStatus
    <2>3. m \in 1..m /\ Width \in Nat /\ RowCount \in Nat
      BY <2>2, BatchAssumption
    <2> DEFINE T == {r \in open : r <= first[m]}
    <2>4. T \subseteq Rows /\ Cardinality(T) = m
      BY <1>1, <2>3 DEF OfStatus
    <2>5. q \notin T
      <3>1. first[m] < q /\ first[m] \in open
        BY <2>2, <2>3
      <3>4. first[m] \in Rows
        BY <3>1 DEF OfStatus
      <3>5. first[m] \in Nat /\ q \in Nat
        BY <2>2, <3>4, BatchAssumption
      <3>2. ~(q <= first[m])
        BY <3>1, <3>5
      <3>3. QED
        BY <3>2
    <2> HIDE DEF T, m, open, rows
    <2>6. IsFiniteSet(Rows) /\ Cardinality(Rows) = RowCount
      <3>1. IsFiniteSet(1..RowCount) /\ Cardinality(1..RowCount) = IF 1 > RowCount THEN 0 ELSE RowCount - 1 + 1
        BY <2>3, FS_Interval
      <3>2. QED
        BY <3>1, BatchAssumption
    <2>7. IsFiniteSet(T)
      BY <2>4, <2>6, FS_Subset
    <2>8. IsFiniteSet(T \cup {q}) /\ Cardinality(T \cup {q}) = Cardinality(T) + 1
      BY <2>5, <2>7, FS_AddElement
    <2>9. Cardinality(T \cup {q}) <= RowCount
      BY <2>2, <2>4, <2>6, FS_Subset
    <2>10. QED
      BY <2>2, <2>3, <2>4, <2>8, <2>9
  <1> DEFINE l == left(first)
  <1>3. queue' = [queue EXCEPT ![k] = l] /\ l = {}
    BY <1>1, <1>2
  <1> HIDE DEF l, k
  <1>4. QED
    BY <1>3 DEF NoneWaits, PageInv, PageTyped

LEMMA NoneWaitsStep == RowCount <= Width /\ PageInv /\ NoneWaits /\ [Next]_vars => NoneWaits'
  <1> SUFFICES ASSUME RowCount <= Width, PageInv, NoneWaits, [Next]_vars
               PROVE  NoneWaits'
    OBVIOUS
  <1>1. CASE UNCHANGED page
    BY <1>1 DEF page, NoneWaits
  <1>2. CASE \E status \in {"valid", "failed"} : Click(status)
    BY <1>2, ClickLeavesNone
  <1>3. ASSUME NEW k \in Runs, NEW w \in Workers, WorkerStep(k, w)
        PROVE  NoneWaits'
    <2>1. hand[k][w].row \in Rows /\ queue[k] = {}
      BY <1>3, WorkerSends, InHand DEF PageInv, NoneWaits
    <2>2. PICK rows, along : /\ along = {hand[k][w].row} \/ along = {}
                             /\ Onward(k, w, rows, along)
      BY <1>3, <2>1 DEF WorkerStep, Deliver, DeliverError, Cut
    <2>3. QED
      BY <2>1, <2>2, OnwardLeavesNone
  <1>4. QED
    BY <1>1, <1>2, <1>3 DEF Next, PageStep, vars

\* So it is, in particular, with no more rows than workers.
THEOREM FewRowsOneWorker == RowCount <= Width => (Spec => []OneWorkerPerRow)
  <1> SUFFICES ASSUME RowCount <= Width
               PROVE  Spec => []OneWorkerPerRow
    OBVIOUS
  <1>1. Init => NoneWaits
    BY DEF Init, NoneWaits
  <1>2. NoneWaits => OneRunAtATime
    BY DEF NoneWaits, OneRunAtATime
  <1>3. PageInv /\ NoneWaits /\ [Next]_vars => NoneWaits'
    BY NoneWaitsStep
  <1>4. QED
    BY <1>1, <1>2, <1>3, PageInvHolds, OneRunOneWorker, PTL DEF Spec

-------------------------------------------------------------------------------
(* What is created twice.                                                  *)

Slot(n) == <<jobs[n].row, jobs[n].op>>

Remembered(x, op) ==
    CASE op = "case" -> x.case # 0
      [] op = "expand" -> x.expansion
      [] OTHER -> op \in x.done

\* The requests to write that are not of D, and that have created something or
\* still may.
Lost(D) ==
    {n \in DOMAIN jobs \ D : /\ jobs[n].op \in Writes
                             /\ n \in cases \cup searches \/ jobs[n].at \notin Answers}

\* D has one request at most for each step of each row: one that a worker waits
\* for, or whose answer the row remembers.  Every other request to write has
\* been paid for by something that failed.
Counts(D) ==
    /\ D \subseteq DOMAIN jobs
    /\ \A m, n \in D : Slot(m) = Slot(n) => m = n
    /\ \A n \in D : jobs[n].at # "error"
    /\ \A k \in Runs, w \in Workers :
          hand[k][w].job # 0 /\ jobs[hand[k][w].job].at # "error" => hand[k][w].job \in D
    /\ \A n \in D : \/ Remembered(row[jobs[n].row], jobs[n].op)
                    \/ \E k \in Runs, w \in Workers : hand[k][w].job = n
    /\ Cardinality(Lost(D)) <= faults

Counted == \E D : Counts(D)

LEMMA LostFinite ==
  ASSUME PageInv, NEW D
  PROVE  IsFiniteSet(Lost(D)) /\ Cardinality(Lost(D)) \in Nat /\ IsFiniteSet(DOMAIN jobs)
  <1>1. jobs \in Seq(Jobs)
    BY DEF PageInv, HandlerInv, JobsTyped
  <1>2. IsFiniteSet(DOMAIN jobs)
    BY <1>1, FS_Interval
  <1>3. Lost(D) \in SUBSET DOMAIN jobs
    BY DEF Lost
  <1>4. QED
    BY <1>2, <1>3, FS_Subset, FS_CardinalityType

\* A row does not send a request again that it remembers.
LEMMA NextNotRemembered == \A x : NextOp(x) # "done" => ~Remembered(x, NextOp(x))
  BY DEF NextOp, Remembered

LEMMA AlikeRemembered == \A x, y, op : Alike(x, y) => (Remembered(x, op) <=> Remembered(y, op))
  BY DEF Alike, Remembered

\* One more may be lost for one more failure.
LEMMA OneMoreLost ==
  ASSUME PageInv, PageInv', NEW D, NEW E, NEW C, Cardinality(Lost(D)) <= faults,
         Lost(E)' \subseteq Lost(D) \cup C,
         \/ C = {} /\ faults' \in {faults, faults + 1}
         \/ (\E n : C = {n}) /\ faults' = faults + 1
  PROVE  Cardinality(Lost(E)') <= faults'
  <1>1. IsFiniteSet(Lost(D)) /\ Cardinality(Lost(D)) \in Nat /\ faults \in Nat
    BY LostFinite DEF PageInv, HandlerInv, JobsTyped
  <1>2. CASE C = {} /\ faults' \in {faults, faults + 1}
    <2>1. Lost(E)' \in SUBSET Lost(D)
      BY <1>2
    <2>2. IsFiniteSet(Lost(E)') /\ Cardinality(Lost(E)') <= Cardinality(Lost(D))
      BY <1>1, <2>1, FS_Subset
    <2>3. Cardinality(Lost(E)') \in Nat
      BY <2>2, FS_CardinalityType
    <2>4. QED
      BY <1>1, <1>2, <2>2, <2>3
  <1>3. ASSUME NEW n, C = {n}, faults' = faults + 1
        PROVE  Cardinality(Lost(E)') <= faults'
    <2>1. /\ IsFiniteSet(Lost(D) \cup {n})
          /\ Cardinality(Lost(D) \cup {n}) <= Cardinality(Lost(D)) + 1
          /\ Cardinality(Lost(D) \cup {n}) \in Nat
      <3>1. /\ IsFiniteSet(Lost(D) \cup {n})
            /\ Cardinality(Lost(D) \cup {n}) = IF n \in Lost(D) THEN Cardinality(Lost(D))
                                               ELSE Cardinality(Lost(D)) + 1
        BY <1>1, FS_AddElement
      <3>2. Cardinality(Lost(D) \cup {n}) \in Nat
        BY <3>1, FS_CardinalityType
      <3>3. QED
        BY <1>1, <3>1, <3>2
    <2>2. Lost(E)' \in SUBSET (Lost(D) \cup {n})
      BY <1>3
    <2>3. IsFiniteSet(Lost(E)') /\ Cardinality(Lost(E)') <= Cardinality(Lost(D) \cup {n})
      BY <2>1, <2>2, FS_Subset
    <2>4. Cardinality(Lost(E)') \in Nat
      BY <2>3, FS_CardinalityType
    <2>5. QED
      BY <1>1, <1>3, <2>1, <2>3, <2>4
  <1>4. QED
    BY <1>2, <1>3

LEMMA HandlerCounts ==
  ASSUME PageInv, PageInv', NEW D, Counts(D), NEW n \in DOMAIN jobs, HandlerStep(n), UNCHANGED page
  PROVE  Counted'
  <1>1. PICK at \in Stages \ {"new"} : Goes(n, at)
    BY HandlerGoes DEF PageInv
  <1>2. /\ DOMAIN jobs' = DOMAIN jobs
        /\ \A m \in DOMAIN jobs : m # n => jobs'[m] = jobs[m]
        /\ jobs'[n].row = jobs[n].row /\ jobs'[n].op = jobs[n].op /\ jobs'[n].at = at
    BY <1>1, GoesTyped DEF PageInv, HandlerInv
  <1>3. \A m \in DOMAIN jobs : jobs'[m].row = jobs[m].row /\ jobs'[m].op = jobs[m].op
    BY <1>2
  <1>4. Harmless(n) /\ jobs[n].at \notin Answers
    BY HandlerGoes, EffectsHarmless DEF PageInv
  <1>5. ASSUME NEW E, E \subseteq D, \A m \in D : m # n => m \in E, n \in E => at # "error",
               at # "error" => E = D, Cardinality(Lost(E)') <= faults'
        PROVE  Counted'
    <2>1. \A m \in E : jobs'[m].at # "error"
      BY <1>2, <1>5 DEF Counts
    <2>2. \A l, m \in E : Slot(l)' = Slot(m)' => l = m
      BY <1>3, <1>5 DEF Counts, Slot
    <2>3. \A k \in Runs, w \in Workers :
             hand[k][w].job # 0 /\ jobs'[hand[k][w].job].at # "error" => hand[k][w].job \in E
      <3>1. SUFFICES ASSUME NEW k \in Runs, NEW w \in Workers, hand[k][w].job # 0,
                            jobs'[hand[k][w].job].at # "error"
                     PROVE  hand[k][w].job \in E
        OBVIOUS
      <3>2. PICK j : j = hand[k][w].job
        OBVIOUS
      <3>3. j \in DOMAIN jobs
        BY <3>1, <3>2, InHand DEF PageInv
      <3>4. jobs[j].at # "error"
        BY <1>2, <1>4, <3>1, <3>2, <3>3 DEF Answers
      <3>5. j \in D
        BY <3>1, <3>2, <3>4 DEF Counts
      <3>6. QED
        BY <1>2, <1>5, <3>1, <3>2, <3>5
    <2>4. \A m \in E : \/ Remembered(row[jobs'[m].row], jobs'[m].op)
                       \/ \E k \in Runs, w \in Workers : hand[k][w].job = m
      BY <1>3, <1>5 DEF Counts
    <2>5. Counts(E)'
      BY <1>2, <1>5, <2>1, <2>2, <2>3, <2>4 DEF Counts, page
    <2>6. QED
      BY <2>5 DEF Counted
  <1>6. ASSUME NEW E, E \subseteq D, \A m \in D : m # n => m \in E
        PROVE  Lost(E)' \subseteq Lost(D) \cup {n}
    BY <1>2, <1>4, <1>6 DEF Lost, Harmless
  <1>7. CASE faults' = faults /\ ~Goes(n, "error")
    <2>1. at # "error"
      BY <1>1, <1>7
    <2>2. Lost(D)' \subseteq Lost(D)
      <3>1. n \in Lost(D)' => n \in Lost(D)
        BY <1>2, <1>4 DEF Lost
      <3>2. QED
        BY <1>6, <3>1
    <2>3. Cardinality(Lost(D)') <= faults'
      BY <1>7, <2>2, OneMoreLost DEF Counts
    <2>4. QED
      BY <1>5, <2>1, <2>3
  <1>8. CASE faults' = faults /\ (Deny(n) \/ RefuseName(n))
    <2>1. PICK E : E = D \ {n}
      OBVIOUS
    <2>2. n \notin cases' \cup searches' /\ at = "error"
      <3>1. jobs[n].at \in {"new", "attempted"} /\ UNCHANGED purview /\ Goes(n, "error")
        BY <1>8 DEF Deny, Denies, Notes, RefuseName, NameRefused, Is
      <3>2. n \notin cases \cup searches
        BY <3>1 DEF PageInv, Told, ToldOf
      <3>3. "error" \in Stages
        BY DEF Stages, Answers
      <3>4. QED
        BY <1>2, <3>1, <3>2, <3>3, GoesTyped DEF PageInv, HandlerInv, purview
    <2>3. Lost(E)' \subseteq Lost(D)
      <3>1. n \notin Lost(E)'
        BY <1>2, <2>2 DEF Lost, Answers
      <3>2. QED
        BY <1>6, <2>1, <3>1
    <2>4. Cardinality(Lost(E)') <= faults'
      BY <1>8, <2>3, OneMoreLost DEF Counts
    <2>5. QED
      BY <1>5, <2>1, <2>2, <2>4
  <1>9. CASE faults' = faults + 1 /\ Fail(n)
    <2>1. PICK E : E = D \ {n}
      OBVIOUS
    <2>2. at = "error"
      <3>1. Goes(n, "error") /\ "error" \in Stages
        BY <1>9 DEF Fail, Stages, Answers
      <3>2. QED
        BY <1>2, <3>1, GoesTyped DEF PageInv, HandlerInv
    <2>3. Cardinality(Lost(E)') <= faults'
      BY <1>6, <1>9, <2>1, OneMoreLost DEF Counts
    <2>4. QED
      BY <1>5, <2>1, <2>2, <2>3
  <1>10. QED
    BY <1>7, <1>8, <1>9, HandlerGoes DEF PageInv

\* One turn of the page: the requests of C, which it gives up, are paid for, and
\* those it sends are for steps no other request of D is for.
LEMMA SendsCount ==
  ASSUME PageInv, PageInv', OneWorkerPerRow', NEW W, NEW rows, Sends(W, rows), ClientStep,
         NEW D, Counts(D), NEW C \in SUBSET D,
         \A r \in Rows : \A op : Remembered(row[r], op) => Remembered(rows[r], op),
         \A k \in Runs, w \in Workers :
            IF <<k, w>> \in W
            THEN hand[k][w].job \in D \ C =>
                   Remembered(rows[jobs[hand[k][w].job].row], jobs[hand[k][w].job].op)
            ELSE hand[k][w].job \notin C,
         \/ C = {} /\ faults' \in {faults, faults + 1}
         \/ (\E n : C = {n}) /\ faults' = faults + 1
  PROVE  Counted'
  <1> DEFINE News == DOMAIN jobs' \ DOMAIN jobs
  <1>1. /\ DOMAIN jobs \subseteq DOMAIN jobs'
        /\ \A m \in DOMAIN jobs : jobs'[m] = jobs[m]
        /\ UNCHANGED <<cases, searches, estimates, trail>>
        /\ \A m \in News : jobs'[m].at = "new"
    BY ClientAdds DEF PageInv, HandlerInv, ClientStep, purview
  <1>2. PICK E : E = (D \ C) \cup News
    OBVIOUS
  <1>3. D \subseteq DOMAIN jobs /\ E \subseteq DOMAIN jobs' /\ D \cap News = {}
    BY <1>1, <1>2 DEF Counts
  <1>4. ASSUME NEW n \in News
        PROVE  \E k \in Runs, w \in Workers :
                  /\ <<k, w>> \in W /\ hand'[k][w].job = n
                  /\ hand'[k][w].row \in Rows /\ NextOp(rows[hand'[k][w].row]) # "done"
                  /\ jobs'[n].row = hand'[k][w].row
                  /\ jobs'[n].op = NextOp(rows[hand'[k][w].row])
    <2>1. PICK k \in Runs, w \in Workers : <<k, w>> \in W /\ hand'[k][w].job = n
      BY DEF Sends
    <2>2. Sent(rows, hand'[k][w]) /\ n # 0
      <3>1. n # 0
        BY DEF PageInv, HandlerInv, JobsTyped
      <3>2. QED
        BY <2>1, <3>1 DEF Sends
    <2>3. /\ hand'[k][w].row \in Rows /\ NextOp(rows[hand'[k][w].row]) # "done"
          /\ jobs'[n] = Request(rows, hand'[k][w].row)
      BY <2>1, <2>2, RestingIs DEF Sent
    <2>4. \A r : Request(rows, r).row = r /\ Request(rows, r).op = NextOp(rows[r])
      BY DEF Request, Received
    <2>5. QED
      BY <2>1, <2>3, <2>4
  <1>5. ASSUME NEW n \in D \ C, NEW k \in Runs, NEW w \in Workers, hand[k][w].job = n
        PROVE  \/ Remembered(rows[jobs[n].row], jobs[n].op)
               \/ <<k, w>> \notin W /\ hand'[k][w] = hand[k][w]
    <2>1. CASE <<k, w>> \in W
      BY <1>5, <2>1
    <2>2. CASE <<k, w>> \notin W
      BY <2>2 DEF Sends
    <2>3. QED
      BY <2>1, <2>2
  <1>6. ASSUME NEW n \in D \ C
        PROVE  /\ jobs[n].row \in Rows /\ n \in DOMAIN jobs /\ n # 0
               /\ \/ Remembered(rows[jobs[n].row], jobs[n].op)
                  \/ \E k \in Runs, w \in Workers :
                        /\ <<k, w>> \notin W /\ hand'[k][w] = hand[k][w] /\ hand[k][w].job = n
    <2>1. n \in DOMAIN jobs /\ n # 0 /\ jobs[n].row \in Rows
      <3>1. jobs \in Seq(Jobs) /\ n \in DOMAIN jobs
        BY <1>3 DEF PageInv, HandlerInv, JobsTyped
      <3>2. jobs[n] \in Jobs /\ n # 0
        BY <3>1
      <3>3. QED
        BY <3>1, <3>2 DEF Jobs
    <2>2. \/ Remembered(row[jobs[n].row], jobs[n].op)
          \/ \E k \in Runs, w \in Workers : hand[k][w].job = n
      BY DEF Counts
    <2>3. QED
      BY <1>5, <2>1, <2>2
  <1>7. ASSUME NEW m \in News, NEW n \in D \ C
        PROVE  Slot(m)' # Slot(n)'
    <2>1. SUFFICES ASSUME jobs'[m].row = jobs'[n].row, jobs'[m].op = jobs'[n].op
                   PROVE  FALSE
      BY DEF Slot
    <2>2. PICK k \in Runs, w \in Workers :
             /\ <<k, w>> \in W /\ hand'[k][w].job = m
             /\ hand'[k][w].row \in Rows /\ NextOp(rows[hand'[k][w].row]) # "done"
             /\ jobs'[m].row = hand'[k][w].row
             /\ jobs'[m].op = NextOp(rows[hand'[k][w].row])
      BY <1>4
    <2>3. jobs'[n] = jobs[n]
      BY <1>1, <1>6
    <2>4. ~Remembered(rows[jobs[n].row], jobs[n].op)
      BY <2>1, <2>2, <2>3, NextNotRemembered
    <2>5. PICK j \in Runs, v \in Workers :
             <<j, v>> \notin W /\ hand'[j][v] = hand[j][v] /\ hand[j][v].job = n
      BY <1>6, <2>4
    <2>6. jobs[n].row = hand[j][v].row
      BY <1>6, <2>5, InHand DEF PageInv
    <2>7. hand'[j][v].row = hand'[k][w].row /\ hand'[k][w].row # 0
      BY <2>1, <2>2, <2>3, <2>5, <2>6, RestingIs
    <2>8. <<j, v>> = <<k, w>>
      BY <2>7 DEF OneWorkerPerRow
    <2>9. QED
      BY <2>2, <2>5, <2>8
  <1>8. ASSUME NEW m \in News, NEW n \in News, Slot(m)' = Slot(n)'
        PROVE  m = n
    <2>1. PICK k \in Runs, w \in Workers :
             /\ <<k, w>> \in W /\ hand'[k][w].job = m
             /\ hand'[k][w].row \in Rows /\ NextOp(rows[hand'[k][w].row]) # "done"
             /\ jobs'[m].row = hand'[k][w].row
             /\ jobs'[m].op = NextOp(rows[hand'[k][w].row])
      BY <1>4
    <2>2. PICK j \in Runs, v \in Workers :
             /\ <<j, v>> \in W /\ hand'[j][v].job = n
             /\ hand'[j][v].row \in Rows /\ NextOp(rows[hand'[j][v].row]) # "done"
             /\ jobs'[n].row = hand'[j][v].row
             /\ jobs'[n].op = NextOp(rows[hand'[j][v].row])
      BY <1>4
    <2>3. hand'[j][v].row = hand'[k][w].row /\ hand'[k][w].row # 0
      BY <1>8, <2>1, <2>2, RestingIs DEF Slot
    <2>4. <<j, v>> = <<k, w>>
      BY <2>3 DEF OneWorkerPerRow
    <2>5. QED
      BY <2>1, <2>2, <2>4
  <1>9. ASSUME NEW m \in D \ C, NEW n \in D \ C, Slot(m)' = Slot(n)'
        PROVE  m = n
    <2>1. Slot(m) = Slot(n)
      BY <1>1, <1>6, <1>9 DEF Slot
    <2>2. QED
      BY <2>1 DEF Counts
  <1>10. \A m, n \in E : Slot(m)' = Slot(n)' => m = n
    BY <1>2, <1>7, <1>8, <1>9
  <1>11. \A n \in E : jobs'[n].at # "error"
    BY <1>1, <1>2, <1>3 DEF Counts
  <1>12. ASSUME NEW k \in Runs, NEW w \in Workers, hand'[k][w].job # 0,
                jobs'[hand'[k][w].job].at # "error"
         PROVE  hand'[k][w].job \in E
    <2>1. CASE <<k, w>> \in W
      BY <1>2, <1>12, <2>1, RestingIs DEF Sends, Sent
    <2>2. CASE <<k, w>> \notin W
      <3>1. hand'[k][w] = hand[k][w] /\ hand[k][w].job \notin C
        BY <2>2 DEF Sends
      <3>2. hand[k][w].job \in DOMAIN jobs
        BY <1>12, <3>1, InHand DEF PageInv
      <3>3. hand[k][w].job \in D
        BY <1>1, <1>12, <3>1, <3>2 DEF Counts
      <3>4. QED
        BY <1>2, <3>1, <3>3
    <2>3. QED
      BY <2>1, <2>2
  <1>13. ASSUME NEW n \in E
         PROVE  \/ Remembered(row'[jobs'[n].row], jobs'[n].op)
                \/ \E k \in Runs, w \in Workers : hand'[k][w].job = n
    <2>1. CASE n \in News
      <3>1. PICK k \in Runs, w \in Workers :
               /\ <<k, w>> \in W /\ hand'[k][w].job = n
               /\ hand'[k][w].row \in Rows /\ NextOp(rows[hand'[k][w].row]) # "done"
               /\ jobs'[n].row = hand'[k][w].row
               /\ jobs'[n].op = NextOp(rows[hand'[k][w].row])
        BY <1>4, <2>1
      <3>2. QED
        BY <3>1
    <2>2. CASE n \in D \ C
      <3>1. jobs'[n] = jobs[n] /\ jobs[n].row \in Rows
        BY <1>1, <1>6, <2>2
      <3>2. \A op : Remembered(rows[jobs[n].row], op) => Remembered(row'[jobs[n].row], op)
        BY <3>1, AlikeRemembered DEF Sends
      <3>3. CASE Remembered(rows[jobs[n].row], jobs[n].op)
        BY <3>1, <3>2, <3>3
      <3>4. ASSUME NEW k \in Runs, NEW w \in Workers, hand'[k][w] = hand[k][w], hand[k][w].job = n
            PROVE  \E j \in Runs, v \in Workers : hand'[j][v].job = n
        BY <3>4
      <3>5. QED
        BY <1>6, <2>2, <3>1, <3>3, <3>4
    <2>3. QED
      BY <1>2, <2>1, <2>2
  <1>14. Lost(E)' \subseteq Lost(D) \cup C
    <2>1. SUFFICES ASSUME NEW n \in Lost(E)', n \notin C
                   PROVE  n \in Lost(D)
      OBVIOUS
    <2>2. n \in DOMAIN jobs /\ n \notin D
      BY <1>2, <2>1 DEF Lost
    <2>3. QED
      BY <1>1, <2>1, <2>2 DEF Lost
  <1>15. Cardinality(Lost(E)') <= faults'
    BY <1>14, OneMoreLost DEF Counts
  <1>16. Counts(E)'
    BY <1>3, <1>10, <1>11, <1>12, <1>13, <1>15 DEF Counts
  <1>17. QED
    BY <1>16 DEF Counted

LEMMA PageCounts ==
  ASSUME PageInv, PageInv', OneWorkerPerRow, OneWorkerPerRow', PageStep, Counted
  PROVE  Counted'
  <1>1. PICK D : Counts(D)
    BY DEF Counted
  <1>2. ClientStep
    BY PageSends DEF PageInv
  <1>3. CASE \E status \in {"valid", "failed"} : Click(status)
    <2>1. /\ clicks + 1 \in Runs
          /\ Sends({clicks + 1} \X Workers, row)
          /\ faults' = faults
      BY <1>3, ClickSends DEF PageInv, Click
    <2>2. \A k \in Runs, w \in Workers : <<k, w>> \in {clicks + 1} \X Workers => hand[k][w].job = 0
      <3>1. SUFFICES ASSUME NEW k \in Runs, NEW w \in Workers, k = clicks + 1, hand[k][w].job # 0
                     PROVE  FALSE
        OBVIOUS
      <3>2. k <= clicks
        BY <3>1, InHand DEF PageInv
      <3>3. QED
        BY <3>1, <3>2 DEF PageInv, PageTyped
    <2>3. 0 \notin D
      BY <1>1 DEF Counts, PageInv, HandlerInv, JobsTyped
    <2>4. PICK W : W = {clicks + 1} \X Workers
      OBVIOUS
    <2>7. PICK C : C = {}
      OBVIOUS
    <2>8. PICK rows : rows = row
      OBVIOUS
    <2>5. /\ Sends(W, rows) /\ C \in SUBSET D
          /\ \A r \in Rows : \A op : Remembered(row[r], op) => Remembered(rows[r], op)
          /\ \A k \in Runs, w \in Workers :
                IF <<k, w>> \in W
                THEN hand[k][w].job \in D \ C =>
                       Remembered(rows[jobs[hand[k][w].job].row], jobs[hand[k][w].job].op)
                ELSE hand[k][w].job \notin C
      BY <2>1, <2>2, <2>3, <2>4, <2>7, <2>8
    <2>6. QED
      BY <1>1, <1>2, <2>1, <2>5, <2>7, SendsCount
  <1>4. ASSUME NEW k \in Runs, NEW w \in Workers, WorkerStep(k, w)
        PROVE  Counted'
    <2> DEFINE r == hand[k][w].row
               n == hand[k][w].job
    <2>1. n # 0 /\ r \in Rows /\ n \in DOMAIN jobs /\ jobs[n].row = r
      BY <1>4, WorkerSends, InHand DEF PageInv
    <2>2. /\ row \in [Rows -> RowStates] /\ row[r] \in RowStates
          /\ faults \in Nat
      BY <2>1, CaseWorkAssumption DEF PageInv, PageTyped
    <2>3. ASSUME NEW j \in Runs, NEW v \in Workers, hand[j][v].job = n
          PROVE  <<j, v>> = <<k, w>>
      <3>1. hand[j][v].row = r
        BY <2>1, <2>3, InHand DEF PageInv
      <3>2. QED
        BY <2>1, <3>1, RestingIs DEF OneWorkerPerRow
    <2>4. Alike(Failed(row[r]), row[r])
      BY <2>2, FailedIs
    <2>5. ASSUME NEW x, \A op : Remembered(row[r], op) => Remembered(x, op)
          PROVE  /\ \A q \in Rows : \A op : Remembered(row[q], op) => Remembered([row EXCEPT ![r] = x][q], op)
                 /\ [row EXCEPT ![r] = x][r] = x
      BY <2>1, <2>2, <2>5
    <2>6. \A op : Remembered(row[r], op) => Remembered(Failed(row[r]), op)
      BY <2>4, AlikeRemembered
    <2>7. CASE Sends({<<k, w>>}, RememberingFailure(k, w)) /\ faults' = faults + 1
      <3>1. PICK C : C = D \cap {n}
        OBVIOUS
      <3>2. C = {} \/ C = {n}
        BY <3>1
      <3>3. \A q \in Rows : \A op : Remembered(row[q], op) => Remembered(RememberingFailure(k, w)[q], op)
        BY <2>5, <2>6 DEF RememberingFailure
      <3>4. PICK rows : rows = RememberingFailure(k, w)
        OBVIOUS
      <3>5. \A j \in Runs, v \in Workers :
               IF <<j, v>> \in {<<k, w>>}
               THEN hand[j][v].job \in D \ C =>
                      Remembered(rows[jobs[hand[j][v].job].row], jobs[hand[j][v].job].op)
               ELSE hand[j][v].job \notin C
        BY <2>3, <3>1
      <3>6. \/ C = {} /\ faults' \in {faults, faults + 1}
            \/ (\E m : C = {m}) /\ faults' = faults + 1
        BY <2>7, <3>2
      <3>7. C \in SUBSET D
        BY <3>1
      <3>8. Sends({<<k, w>>}, rows)
        BY <2>7, <3>4
      <3>9. \A q \in Rows : \A op : Remembered(row[q], op) => Remembered(rows[q], op)
        BY <3>3, <3>4
      <3> HIDE DEF n, r
      <3>10. QED
        BY <1>1, <1>2, <3>5, <3>6, <3>7, <3>8, <3>9, SendsCount
    <2>8. CASE Sends({<<k, w>>}, Answer(k, w)) /\ faults' = faults /\ jobs[n].at \in Answers
      <3>1. n \in D => jobs[n].at = "ok"
        BY <1>1, <2>8 DEF Counts, Answers
      <3>2. ASSUME jobs[n].at = "ok"
            PROVE  /\ \A op : Remembered(row[r], op) => Remembered(Remembers(row[r], n), op)
                   /\ Remembered(Remembers(row[r], n), jobs[n].op)
        <4>1. PICK x : x = row[r]
          OBVIOUS
        <4>2. PICK y : y = Remembers(row[r], n)
          OBVIOUS
        <4>3. /\ y.case = (IF jobs[n].op = "case" THEN n ELSE x.case)
              /\ y.expansion = (x.expansion \/ jobs[n].op = "expand")
              /\ y.done = x.done \cup ({jobs[n].op} \cap Searching)
          BY <2>1, <2>2, <4>1, <4>2, RemembersIs DEF PageInv
        <4>4. jobs[n].op \in Ops /\ x.expansion \in BOOLEAN
          <5>1. jobs[n] \in Jobs
            BY <2>1 DEF PageInv, HandlerInv, JobsTyped
          <5>2. QED
            BY <2>2, <4>1, <5>1 DEF Jobs, RowStates
        <4> HIDE DEF n, r
        <4>5. ASSUME NEW op, Remembered(x, op)
              PROVE  Remembered(y, op)
          BY <2>1, <4>3, <4>4, <4>5 DEF Remembered
        <4>6. Remembered(y, jobs[n].op)
          BY <2>1, <4>3, <4>4 DEF Remembered, Ops, Writes, Searching
        <4>7. QED
          BY <4>1, <4>2, <4>5, <4>6
      <3>3. PICK rows : rows = Answer(k, w)
        OBVIOUS
      <3>4. /\ \A q \in Rows : \A op : Remembered(row[q], op) => Remembered(rows[q], op)
            /\ n \in D => Remembered(rows[r], jobs[n].op)
        <4>1. CASE jobs[n].at = "ok"
          BY <2>5, <3>2, <3>3, <4>1 DEF Answer
        <4>2. CASE jobs[n].at # "ok"
          BY <2>5, <2>6, <3>1, <3>3, <4>2 DEF Answer
        <4>3. QED
          BY <4>1, <4>2
      <3>8. PICK C : C = {}
        OBVIOUS
      <3>5. \A j \in Runs, v \in Workers :
               IF <<j, v>> \in {<<k, w>>}
               THEN hand[j][v].job \in D \ C =>
                      Remembered(rows[jobs[hand[j][v].job].row], jobs[hand[j][v].job].op)
               ELSE hand[j][v].job \notin C
        BY <2>1, <3>4, <3>8
      <3>6. /\ Sends({<<k, w>>}, rows) /\ C \in SUBSET D
            /\ C = {} /\ faults' \in {faults, faults + 1}
        BY <2>8, <3>3, <3>8
      <3> HIDE DEF n, r
      <3>7. QED
        BY <1>1, <1>2, <3>4, <3>5, <3>6, SendsCount
    <2>9. QED
      BY <1>4, <2>7, <2>8, WorkerSends DEF PageInv
  <1>5. QED
    BY <1>3, <1>4 DEF PageStep

LEMMA CountedStep ==
  PageInv /\ PageInv' /\ OneWorkerPerRow /\ OneWorkerPerRow' /\ Counted /\ [Next]_vars => Counted'
  <1> SUFFICES ASSUME PageInv, PageInv', OneWorkerPerRow, OneWorkerPerRow', Counted, [Next]_vars
               PROVE  Counted'
    OBVIOUS
  <1>1. PICK D : Counts(D)
    BY DEF Counted
  <1>2. ASSUME UNCHANGED <<jobs, purview, page>>, faults' \in {faults, faults + 1}
        PROVE  Counted'
    <2>1. Lost(D)' \subseteq Lost(D) \cup {}
      BY <1>2 DEF Lost, purview
    <2>2. Cardinality(Lost(D)') <= faults'
      BY <1>1, <1>2, <2>1, OneMoreLost DEF Counts
    <2>3. Counts(D)'
      BY <1>1, <1>2, <2>2 DEF Counts, Slot, page
    <2>4. QED
      BY <2>3 DEF Counted
  <1>3. CASE ServerStep /\ UNCHANGED page
    <2>1. faults' \in {faults, faults + 1}
      BY <1>3, ServerSettles DEF PageInv
    <2>2. QED
      BY <1>1, <1>2, <1>3, <2>1, ServerSettles, HandlerCounts DEF PageInv
  <1>4. CASE UNCHANGED vars
    BY <1>2, <1>4 DEF vars, server
  <1>5. QED
    BY <1>3, <1>4, PageCounts DEF Next

LEMMA CountedHolds == Spec /\ []OneWorkerPerRow => []Counted
  <1>1. Init => Counted
    <2>1. SUFFICES ASSUME Init PROVE Counted
      OBVIOUS
    <2>2. jobs = <<>> /\ faults = 0
      BY <2>1 DEF Init, ServerInit
    <2>3. \A k \in Runs, w \in Workers : hand[k][w].job = 0
      BY <2>1, RestingIs DEF Init
    <2>4. Lost({}) = {}
      BY <2>2 DEF Lost
    <2>5. Cardinality(Lost({})) <= faults
      BY <2>2, <2>4, FS_EmptySet
    <2>6. Counts({})
      BY <2>3, <2>5 DEF Counts
    <2>7. QED
      BY <2>6 DEF Counted
  <1>2. QED
    BY <1>1, CountedStep, PageInvHolds, PTL DEF Spec

LEMMA CountedSuffices == PageInv /\ Counted => DuplicatesNeedFaults
  <1> SUFFICES ASSUME PageInv, Counted
               PROVE  DuplicatesNeedFaults
    OBVIOUS
  <1>1. PICK D : Counts(D)
    BY DEF Counted
  <1> DEFINE K == cases \cup searches
  <1>2. jobs \in Seq(Jobs) /\ faults \in Nat
    BY DEF PageInv, HandlerInv, JobsTyped
  <1>3. \A n \in K : n \in DOMAIN jobs /\ jobs[n].row \in Rows /\ jobs[n].op \in Writes
    <2>1. SUFFICES ASSUME NEW n \in K
                   PROVE  n \in DOMAIN jobs /\ jobs[n].row \in Rows /\ jobs[n].op \in Writes
      OBVIOUS
    <2>2. n \in DOMAIN jobs /\ ToldOf(n)
      BY DEF PageInv, HandlerInv, Followed, Told
    <2>3. jobs[n] \in Jobs
      BY <1>2, <2>2
    <2>4. QED
      BY <2>2, <2>3 DEF ToldOf, Writes, Jobs
  <1>4. /\ cases \cap searches = {}
        /\ IsFiniteSet(cases) /\ IsFiniteSet(searches) /\ IsFiniteSet(K)
        /\ Cardinality(cases) + Cardinality(searches) = Cardinality(K)
    <2>1. cases \cap searches = {}
      <3>1. \A n \in K : ToldOf(n)
        BY <1>3 DEF PageInv, Told
      <3>2. QED
        BY <3>1, Names DEF ToldOf
    <2>2. IsFiniteSet(DOMAIN jobs) /\ cases \in SUBSET DOMAIN jobs /\ searches \in SUBSET DOMAIN jobs
      BY <1>3, LostFinite
    <2>3. IsFiniteSet(cases) /\ IsFiniteSet(searches)
      BY <2>2, FS_Subset
    <2>4. /\ IsFiniteSet(K)
          /\ Cardinality(K) = Cardinality(cases) + Cardinality(searches) - Cardinality({})
      BY <2>1, <2>3, FS_Union
    <2>5. Cardinality({}) = 0 /\ Cardinality(cases) \in Nat /\ Cardinality(searches) \in Nat
      BY <2>3, FS_EmptySet, FS_CardinalityType
    <2>6. QED
      BY <2>1, <2>3, <2>4, <2>5
  <1>5. Cardinality(K \ D) <= faults /\ IsFiniteSet(K \ D) /\ Cardinality(K \ D) \in Nat
    <2>1. K \ D \in SUBSET Lost(D)
      BY <1>3 DEF Lost
    <2>2. IsFiniteSet(K \ D) /\ Cardinality(K \ D) <= Cardinality(Lost(D))
      BY <2>1, LostFinite, FS_Subset
    <2>3. QED
      BY <1>1, <1>2, <2>2, LostFinite, FS_CardinalityType DEF Counts
  <1>6. /\ IsFiniteSet(Rows \X Writes)
        /\ Cardinality(Rows \X Writes) = RowCount * 3
    <2>1. IsFiniteSet(Rows) /\ Cardinality(Rows) = RowCount
      <3>1. Rows = 1..RowCount /\ RowCount \in Nat \ {0}
        BY BatchAssumption
      <3>2. QED
        BY <3>1, FS_Interval
    <2>2. IsFiniteSet(Writes) /\ Cardinality(Writes) = 3
      <3>1. IsFiniteSet({"case"}) /\ Cardinality({"case"}) = 1
        BY FS_Singleton
      <3>2. IsFiniteSet({"case"} \cup {"naive"}) /\ Cardinality({"case"} \cup {"naive"}) = 2
        BY <3>1, FS_AddElement
      <3>3. /\ IsFiniteSet(({"case"} \cup {"naive"}) \cup {"expanded"})
            /\ Cardinality(({"case"} \cup {"naive"}) \cup {"expanded"}) = 3
        BY <3>2, FS_AddElement
      <3>4. Writes = ({"case"} \cup {"naive"}) \cup {"expanded"}
        BY DEF Writes, Searching
      <3>5. QED
        BY <3>3, <3>4
    <2>3. QED
      BY <2>1, <2>2, FS_Product
  <1>7. Cardinality(K \cap D) <= RowCount * 3 /\ IsFiniteSet(K \cap D) /\ Cardinality(K \cap D) \in Nat
    <2> DEFINE f == [n \in K \cap D |-> Slot(n)]
    <2>1. \A n \in K \cap D : f[n] = Slot(n) /\ Slot(n) \in Rows \X Writes
      BY <1>3 DEF Slot
    <2>2. f \in [K \cap D -> Rows \X Writes]
      BY <2>1
    <2>3. \A a, b \in DOMAIN f : f[a] = f[b] => a = b
      BY <1>1, <2>1 DEF Counts
    <2>4. f \in Injection(K \cap D, Rows \X Writes)
      BY <2>2, <2>3 DEF Injection, IsInjective
    <2>5. IsFiniteSet(K \cap D) /\ Cardinality(K \cap D) <= Cardinality(Rows \X Writes)
      BY <1>6, <2>4, FS_Injection
    <2>6. QED
      BY <1>6, <2>5, FS_CardinalityType
  <1>8. Cardinality(K) = Cardinality(K \cap D) + Cardinality(K \ D)
    <2>1. Cardinality(K \ D) = Cardinality(K) - Cardinality(K \cap D)
      BY <1>4, FS_Difference
    <2>2. Cardinality(K) \in Nat
      BY <1>4, FS_CardinalityType
    <2>3. QED
      BY <1>5, <1>7, <2>1, <2>2
  <1>9. RowCount \in Nat
    BY BatchAssumption
  <1> HIDE DEF K
  <1>10. QED
    BY <1>2, <1>4, <1>5, <1>7, <1>8, <1>9 DEF DuplicatesNeedFaults

\* Purview is never asked for more than one case and two searches a row but for what
\* failed: each thing more has a failure of its own to blame.  For any number of
\* rows, of clicks and of failures, as long as no two workers have one row.
THEOREM DuplicatesArePaidFor == Spec /\ []OneWorkerPerRow => []DuplicatesNeedFaults
  BY CountedHolds, CountedSuffices, PageInvHolds, PTL

-------------------------------------------------------------------------------
(* The deadline of a case, and its date of receipt.                        *)

LEMMA YearIs == \A y : y \in Years <=> y \in Int /\ y >= 1 /\ y <= 9999
<1>1. \A y : y \in 1..9999 => y \in Int OBVIOUS
<1>2. \A y \in Int : y \in 1..9999 <=> y >= 1 /\ y <= 9999 OBVIOUS
<1>3. \A y : y \in Years => y \in Int BY <1>1 DEF Years
<1>4. \A y \in Int : y \in Years <=> y >= 1 /\ y <= 9999 BY <1>2 DEF Years
<1> SUFFICES ASSUME NEW y PROVE y \in Years <=> y \in Int /\ y >= 1 /\ y <= 9999
  OBVIOUS
<1>5. CASE y \in Int BY <1>4, <1>5
<1>6. CASE y \notin Int BY <1>3, <1>6
<1> QED BY <1>5, <1>6

LEMMA LengthIs == \A y \in Int, m \in Months : Length(y, m) \in 28..31
BY DEF Length, Months

LEMMA DateFields ==
    ASSUME NEW r \in Dates
    PROVE  /\ r.y \in Int /\ r.y >= 1 /\ r.y <= 9999
           /\ r.m \in Int /\ r.m >= 1 /\ r.m <= 12 /\ r.m \in Months
           /\ r.d \in Int /\ r.d >= 1 /\ r.d <= 31 /\ r.d <= Length(r.y, r.m)
<1>1. r \in [y : Years, m : Months, d : 1..31] /\ r.d <= Length(r.y, r.m) BY DEF Dates
<1>2. r.y \in Years /\ r.m \in Months /\ r.d \in 1..31 BY <1>1
<1>3. r.y \in Int /\ r.y >= 1 /\ r.y <= 9999 BY <1>2, YearIs
<1>4. r.m \in Int /\ r.m >= 1 /\ r.m <= 12 BY <1>2 DEF Months
<1>5. r.d \in Int /\ r.d >= 1 /\ r.d <= 31 BY <1>2
<1> QED BY <1>1, <1>2, <1>3, <1>4, <1>5

\* The month after that of r.
IsNext(r, y, m) == IF r.m = 12 THEN y = r.y + 1 /\ m = 1 ELSE y = r.y /\ m = r.m + 1

LEMMA DueFields ==
    ASSUME NEW r \in Dates
    PROVE  LET y == DueYear(r, MONTHS)
               m == DueMonth(r, MONTHS)
           IN  y \in Int /\ m \in Months /\ IsNext(r, y, m)
<1>1. r.y \in Int /\ r.m \in Int /\ r.m >= 1 /\ r.m <= 12 BY DateFields
<1>2. r.m - 1 + MONTHS = r.m BY <1>1 DEF MONTHS
<1>3. CASE r.m = 12
  <2>1. 12 \div 12 = 1 /\ (12 % 12) + 1 = 1 OBVIOUS
  <2>2. DueYear(r, MONTHS) = r.y + 1 /\ DueMonth(r, MONTHS) = 1
    BY <1>2, <1>3, <2>1 DEF DueYear, DueMonth
  <2> QED BY <1>1, <1>3, <2>2 DEF IsNext, Months
<1>4. CASE r.m # 12
  <2>1. \A k \in 1..11 : k \div 12 = 0 /\ k % 12 = k OBVIOUS
  <2>2. r.m \in 1..11 BY <1>1, <1>4
  <2>3. DueYear(r, MONTHS) = r.y + 0 /\ DueMonth(r, MONTHS) = r.m + 1
    BY <1>2, <2>1, <2>2 DEF DueYear, DueMonth
  <2> QED BY <1>1, <1>4, <2>2, <2>3 DEF IsNext, Months
<1> QED BY <1>3, <1>4

LEMMA DueIs ==
    ASSUME NEW r \in Dates
    PROVE  LET due == due_date(r, MONTHS) IN
           /\ due.y \in Int /\ due.m \in Months /\ due.d \in 1..Length(due.y, due.m)
           /\ due \in [y : Int, m : Months, d : 1..31]
           /\ IsNext(r, due.y, due.m)
           /\ due.d = r.d \/ (due.d < r.d /\ due.d = Length(due.y, due.m))
<1> DEFINE y == DueYear(r, MONTHS)
           m == DueMonth(r, MONTHS)
           d == IF r.d <= Length(y, m) THEN r.d ELSE Length(y, m)
<1>1. y \in Int /\ m \in Months /\ IsNext(r, y, m) BY DueFields
<1>2. Length(y, m) \in 28..31 BY <1>1, LengthIs
<1>3. r.d \in 1..31 BY DateFields
<1>4. due_date(r, MONTHS) = [y |-> y, m |-> m, d |-> d] BY DEF due_date
<1> HIDE DEF y, m
<1> QED BY <1>1, <1>2, <1>3, <1>4

\* The deadline is in the month after receipt, on the same day or on the last
\* of that month when it is shorter (deadline.py:53), and it is a date, unless
\* the month of receipt is the last of the calendar.
THEOREM DueIsNextMonth ==
    ASSUME NEW r \in Dates
    PROVE  LET due == due_date(r, MONTHS) IN
           /\ IsNext(r, due.y, due.m)
           /\ due.d = r.d \/ (due.d < r.d /\ due.d = Length(due.y, due.m))
           /\ due \in Dates <=> ~Raises(r, MONTHS)
           /\ Raises(r, MONTHS) <=> r.y = 9999 /\ r.m = 12
<1> DEFINE due == due_date(r, MONTHS)
<1>1. /\ due.m \in Months /\ due.d \in 1..Length(due.y, due.m)
      /\ due.y \in Int /\ due \in [y : Int, m : Months, d : 1..31]
      /\ IsNext(r, due.y, due.m)
      /\ due.d = r.d \/ (due.d < r.d /\ due.d = Length(due.y, due.m))
  BY DueIs
<1>2. due.y = DueYear(r, MONTHS) BY DEF due_date
<1>3. /\ r.y \in Int /\ r.y >= 1 /\ r.y <= 9999
      /\ r.m \in Int /\ r.m >= 1 /\ r.m <= 12
  BY DateFields
<1>4. due \in Dates <=> due.y \in Years BY <1>1 DEF Dates
<1>5. due.y \in Years <=> ~(r.y = 9999 /\ r.m = 12)
  <2> SUFFICES ASSUME NEW y \in Int, y = due.y PROVE y \in Years <=> ~(r.y = 9999 /\ r.m = 12)
    BY <1>1
  <2>1. CASE r.m = 12
    <3>1. y = r.y + 1 BY <2>1, <1>1 DEF IsNext
    <3> QED BY <3>1, <2>1, <1>3, YearIs
  <2>2. CASE r.m # 12
    <3>1. y = r.y BY <2>2, <1>1 DEF IsNext
    <3> QED BY <3>1, <2>2, <1>3, YearIs
  <2> QED BY <2>1, <2>2
<1>6. Raises(r, MONTHS) <=> due.y \notin Years BY <1>2 DEF Raises
<1> HIDE DEF due
<1>7. /\ due \in Dates <=> ~Raises(r, MONTHS)
      /\ Raises(r, MONTHS) <=> r.y = 9999 /\ r.m = 12
  BY <1>4, <1>5, <1>6
<1> QED BY <1>1, <1>7 DEF due

\* A request received later is not due earlier.
THEOREM DueIsMonotone ==
    ASSUME NEW a \in Dates, NEW b \in Dates, ~Earlier(b, a)
    PROVE  ~Earlier(due_date(b, MONTHS), due_date(a, MONTHS))
<1> DEFINE p == due_date(a, MONTHS)
           q == due_date(b, MONTHS)
<1>1. /\ p.y \in Int /\ p.m \in Months /\ p.d \in 1..Length(p.y, p.m) /\ IsNext(a, p.y, p.m)
      /\ p.d = a.d \/ (p.d < a.d /\ p.d = Length(p.y, p.m))
  BY DueIs
<1>2. /\ q.y \in Int /\ q.m \in Months /\ q.d \in 1..Length(q.y, q.m) /\ IsNext(b, q.y, q.m)
      /\ q.d = b.d \/ (q.d < b.d /\ q.d = Length(q.y, q.m))
  BY DueIs
<1>3. /\ a.y \in Int /\ a.m \in Months /\ a.d \in 1..31
      /\ b.y \in Int /\ b.m \in Months /\ b.d \in 1..31
  BY DateFields
<1>4. Length(p.y, p.m) \in 28..31 /\ Length(q.y, q.m) \in 28..31
  BY <1>1, <1>2, LengthIs
<1> HIDE DEF p, q
<1>5. CASE a.y = b.y /\ a.m = b.m
  <2>1. p.y = q.y /\ p.m = q.m BY <1>1, <1>2, <1>5 DEF IsNext
  <2>2. Length(p.y, p.m) = Length(q.y, q.m) BY <2>1
  <2>3. a.d <= b.d BY <1>3, <1>5 DEF Earlier
  <2>4. p.d <= q.d BY <2>2, <2>3, <1>1, <1>2, <1>3, <1>4
  <2>5. p.d \in Int /\ q.d \in Int BY <1>1, <1>2, <1>4
  <2>6. ~Earlier(q, p) BY <2>1, <2>4, <2>5, <1>1, <1>2 DEF Earlier, Months
  <2> QED BY <2>6 DEF p, q
<1>6. CASE ~(a.y = b.y /\ a.m = b.m)
  <2>1. a.y < b.y \/ (a.y = b.y /\ a.m < b.m) BY <1>3, <1>6 DEF Earlier, Months
  <2>2. p.y < q.y \/ (p.y = q.y /\ p.m < q.m)
    BY <2>1, <1>1, <1>2, <1>3 DEF IsNext, Months
  <2>3. ~Earlier(q, p) BY <2>2, <1>1, <1>2 DEF Earlier, Months
  <2> QED BY <2>3 DEF p, q
<1> QED BY <1>5, <1>6

-------------------------------------------------------------------------------
(* Counting days.                                                          *)

LEMMA BeforeIs ==
    ASSUME NEW y \in Years, NEW m \in Months
    PROVE  /\ DaysBefore(y, m) \in Int /\ DaysBefore(y, m) >= 0
           /\ m < 12 => DaysBefore(y, m + 1) = DaysBefore(y, m) + Length(y, m)
           /\ DaysBefore(y, 1) = 0
           /\ DaysBefore(y, 12) + 31 = IF Leap(y) THEN 366 ELSE 365
<1>1. m \in 1..12 BY DEF Months
<1>2. Leap(y) \in BOOLEAN BY DEF Leap
<1> QED BY <1>1, <1>2 DEF DaysBefore, Length

LEMMA NextYear ==
    ASSUME NEW y \in Nat, y >= 1
    PROVE  /\ YearsBefore(y) \in Int
           /\ YearsBefore(y + 1) = YearsBefore(y) + IF Leap(y) THEN 366 ELSE 365
<1> DEFINE n == y - 1
<1>1. n \in Nat /\ y = n + 1 OBVIOUS
<1>2. ASSUME NEW k \in {4, 100, 400}
      PROVE  y \div k = (n \div k) + IF y % k = 0 THEN 1 ELSE 0
  <2>1. CASE k = 4 BY <2>1, <1>1
  <2>2. CASE k = 100 BY <2>2, <1>1
  <2>3. CASE k = 400 BY <2>3, <1>1
  <2> QED BY <2>1, <2>2, <2>3
<1>3. YearsBefore(y + 1) = 365 * y + (y \div 4) - (y \div 100) + (y \div 400)
  BY DEF YearsBefore
<1>4. YearsBefore(y) = 365 * n + (n \div 4) - (n \div 100) + (n \div 400)
  BY DEF YearsBefore
<1>5. y \div 4 = (n \div 4) + (IF y % 4 = 0 THEN 1 ELSE 0) BY <1>2
<1>6. y \div 100 = (n \div 100) + (IF y % 100 = 0 THEN 1 ELSE 0) BY <1>2
<1>7. y \div 400 = (n \div 400) + (IF y % 400 = 0 THEN 1 ELSE 0) BY <1>2
<1>8. (y % 400 = 0 => y % 100 = 0) /\ (y % 100 = 0 => y % 4 = 0) OBVIOUS
<1>9. n \div 4 \in Int /\ n \div 100 \in Int /\ n \div 400 \in Int BY <1>1
<1> QED BY <1>1, <1>3, <1>4, <1>5, <1>6, <1>7, <1>8, <1>9 DEF Leap

LEMMA MonthsAdd ==
    ASSUME NEW y \in Years, NEW m \in Months, NEW n \in Months, m < n
    PROVE  DaysBefore(y, m) + Length(y, m) <= DaysBefore(y, n)
<1>1. m \in 1..11 /\ n \in 2..12 BY DEF Months
<1>2. Leap(y) \in BOOLEAN BY DEF Leap
<1> QED BY <1>1, <1>2 DEF DaysBefore, Length

LEMMA YearsAdd ==
    ASSUME NEW y \in Nat, NEW z \in Nat, y >= 1, y <= z
    PROVE  YearsBefore(y) <= YearsBefore(z)
<1> DEFINE n == y - 1
           k == z - 1
<1>1. n \in Nat /\ k \in Nat /\ n <= k OBVIOUS
<1> HIDE DEF n, k
<1>2. n \div 4 <= k \div 4 BY <1>1
<1>3. n \div 400 <= k \div 400 BY <1>1
<1>4. k \div 100 <= (n \div 100) + (k - n) BY <1>1
<1>5. /\ n \div 4 \in Int /\ n \div 100 \in Int /\ n \div 400 \in Int
      /\ k \div 4 \in Int /\ k \div 100 \in Int /\ k \div 400 \in Int
  BY <1>1
<1>6. 365 * n + (n \div 4) - (n \div 100) + (n \div 400)
        <= 365 * k + (k \div 4) - (k \div 100) + (k \div 400)
  BY <1>1, <1>2, <1>3, <1>4, <1>5
<1> QED BY <1>6 DEF YearsBefore, n, k

LEMMA OrdinalIs ==
    ASSUME NEW a \in Dates
    PROVE  /\ YearsBefore(a.y) \in Int /\ DaysBefore(a.y, a.m) \in Int
           /\ Length(a.y, a.m) \in 28..31
           /\ Ordinal(a) = YearsBefore(a.y) + DaysBefore(a.y, a.m) + a.d
           /\ Ordinal(a) \in Int
           /\ Ordinal(a) > YearsBefore(a.y)
           /\ Ordinal(a) <= YearsBefore(a.y) + IF Leap(a.y) THEN 366 ELSE 365
<1>1. /\ a.y \in Years /\ a.m \in Months
      /\ a.y \in Nat /\ a.y >= 1
      /\ a.d \in Int /\ a.d >= 1 /\ a.d <= Length(a.y, a.m) /\ a.d <= 31
  BY DateFields, YearIs
<1>2. YearsBefore(a.y) \in Int BY <1>1, NextYear
<1>3. DaysBefore(a.y, a.m) \in Int /\ DaysBefore(a.y, a.m) >= 0
  BY <1>1, BeforeIs
<1>4. Length(a.y, a.m) \in 28..31 BY <1>1, LengthIs
<1>5. DaysBefore(a.y, 12) + 31 = IF Leap(a.y) THEN 366 ELSE 365 BY <1>1, BeforeIs
<1>6. DaysBefore(a.y, a.m) + a.d <= IF Leap(a.y) THEN 366 ELSE 365
  <2>1. CASE a.m = 12
    <3>1. DaysBefore(a.y, 12) + a.d <= DaysBefore(a.y, 12) + 31
      BY <1>1, <1>3, <2>1
    <3> QED BY <3>1, <1>5, <2>1
  <2>2. CASE a.m # 12
    <3>1. 12 \in Months /\ a.m < 12 BY <1>1, <2>2 DEF Months
    <3>2. DaysBefore(a.y, a.m) + Length(a.y, a.m) <= DaysBefore(a.y, 12)
      BY <1>1, <3>1, MonthsAdd
    <3>3. DaysBefore(a.y, 12) \in Int BY <1>1, <3>1, BeforeIs
    <3>4. DaysBefore(a.y, a.m) + a.d <= DaysBefore(a.y, 12) + 31
      BY <3>2, <3>3, <1>1, <1>3, <1>4
    <3> QED BY <3>4, <1>5
  <2> QED BY <2>1, <2>2
<1>7. Ordinal(a) = YearsBefore(a.y) + DaysBefore(a.y, a.m) + a.d BY DEF Ordinal
<1> QED BY <1>1, <1>2, <1>3, <1>4, <1>6, <1>7

LEMMA OrdinalGrows ==
    ASSUME NEW a \in Dates, NEW b \in Dates, Earlier(a, b)
    PROVE  Ordinal(a) < Ordinal(b)
<1>1. /\ a.y \in Years /\ a.m \in Months /\ b.y \in Years /\ b.m \in Months
      /\ a.y \in Nat /\ a.y >= 1 /\ b.y \in Nat
      /\ a.d \in Int /\ a.d <= Length(a.y, a.m) /\ b.d \in Int /\ b.d >= 1
  BY DateFields, YearIs
<1>2. /\ Ordinal(a) = YearsBefore(a.y) + DaysBefore(a.y, a.m) + a.d
      /\ Ordinal(b) = YearsBefore(b.y) + DaysBefore(b.y, b.m) + b.d
      /\ YearsBefore(a.y) \in Int /\ DaysBefore(a.y, a.m) \in Int
      /\ YearsBefore(b.y) \in Int /\ DaysBefore(b.y, b.m) \in Int
      /\ Length(a.y, a.m) \in 28..31
      /\ Ordinal(a) \in Int /\ Ordinal(b) \in Int
      /\ Ordinal(a) <= YearsBefore(a.y) + IF Leap(a.y) THEN 366 ELSE 365
      /\ Ordinal(b) > YearsBefore(b.y)
  BY OrdinalIs
<1>3. CASE a.y < b.y
  <2>1. YearsBefore(a.y + 1) = YearsBefore(a.y) + IF Leap(a.y) THEN 366 ELSE 365
    BY <1>1, NextYear
  <2>2. YearsBefore(a.y + 1) <= YearsBefore(b.y)
    <3>1. a.y + 1 \in Nat /\ a.y + 1 >= 1 /\ a.y + 1 <= b.y BY <1>1, <1>3
    <3> QED BY <3>1, <1>1, YearsAdd
  <2>3. Ordinal(a) <= YearsBefore(b.y) BY <2>1, <2>2, <1>2
  <2> QED BY <2>3, <1>2
<1>4. CASE a.y = b.y /\ a.m < b.m
  <2>1. DaysBefore(a.y, a.m) + Length(a.y, a.m) <= DaysBefore(b.y, b.m)
    BY <1>1, <1>4, MonthsAdd
  <2>2. DaysBefore(a.y, a.m) + a.d < DaysBefore(b.y, b.m) + b.d
    BY <2>1, <1>1, <1>2
  <2> QED BY <2>2, <1>1, <1>2, <1>4
<1>5. CASE a.y = b.y /\ a.m = b.m /\ a.d < b.d
  <2>1. DaysBefore(a.y, a.m) = DaysBefore(b.y, b.m) /\ YearsBefore(a.y) = YearsBefore(b.y)
    BY <1>5
  <2> QED BY <2>1, <1>1, <1>2, <1>5
<1> QED BY <1>3, <1>4, <1>5 DEF Earlier

\* The operator has 28 to 31 days (deadline.py:53), across the end of a year and
\* in a leap year too.
THEOREM DueInAMonth ==
    ASSUME NEW r \in Dates, ~Raises(r, MONTHS)
    PROVE  Ordinal(due_date(r, MONTHS)) - Ordinal(r) \in 28..31
<1> DEFINE due == due_date(r, MONTHS)
<1>1. due \in Dates BY DueIsNextMonth
<1>2. /\ IsNext(r, due.y, due.m)
      /\ due.d = r.d \/ (due.d < r.d /\ due.d = Length(due.y, due.m))
  BY DueIsNextMonth
<1> HIDE DEF due
<1>3. /\ r.y \in Years /\ r.m \in Months /\ r.y \in Nat /\ r.y >= 1
      /\ r.d \in Int /\ r.d >= 1 /\ r.d <= Length(r.y, r.m)
      /\ due.d \in Int
  BY <1>1, DateFields, YearIs
<1>4. /\ Ordinal(r) = YearsBefore(r.y) + DaysBefore(r.y, r.m) + r.d
      /\ Ordinal(due) = YearsBefore(due.y) + DaysBefore(due.y, due.m) + due.d
      /\ YearsBefore(r.y) \in Int /\ DaysBefore(r.y, r.m) \in Int
      /\ YearsBefore(due.y) \in Int /\ DaysBefore(due.y, due.m) \in Int
      /\ Length(r.y, r.m) \in 28..31 /\ Length(due.y, due.m) \in 28..31
  BY <1>1, OrdinalIs
<1>5. YearsBefore(due.y) + DaysBefore(due.y, due.m)
        = YearsBefore(r.y) + DaysBefore(r.y, r.m) + Length(r.y, r.m)
  <2>1. CASE r.m = 12
    <3>1. due.y = r.y + 1 /\ due.m = 1 BY <2>1, <1>2 DEF IsNext
    <3>2. YearsBefore(due.y) = YearsBefore(r.y) + IF Leap(r.y) THEN 366 ELSE 365
      BY <3>1, <1>3, NextYear
    <3>3. DaysBefore(r.y, 12) + 31 = IF Leap(r.y) THEN 366 ELSE 365 BY <1>3, BeforeIs
    <3>4. DaysBefore(due.y, due.m) = 0
      <4>1. due.y \in Years BY <1>1, DateFields, YearIs
      <4> QED BY <4>1, <3>1, <1>3, BeforeIs
    <3>5. Length(r.y, r.m) = 31 BY <2>1 DEF Length
    <3>6. DaysBefore(r.y, r.m) = DaysBefore(r.y, 12) BY <2>1
    <3> QED BY <3>2, <3>3, <3>4, <3>5, <3>6, <1>4
  <2>2. CASE r.m # 12
    <3>1. due.y = r.y /\ due.m = r.m + 1 /\ r.m < 12 BY <2>2, <1>2, <1>3 DEF IsNext, Months
    <3>2. DaysBefore(r.y, r.m + 1) = DaysBefore(r.y, r.m) + Length(r.y, r.m)
      BY <3>1, <1>3, BeforeIs
    <3> QED BY <3>1, <3>2, <1>4
  <2> QED BY <2>1, <2>2
<1>6. Ordinal(due) - Ordinal(r) = Length(r.y, r.m) - r.d + due.d BY <1>3, <1>4, <1>5
<1>7. Ordinal(due) - Ordinal(r) \in 28..31 BY <1>2, <1>3, <1>4, <1>6
<1> QED BY <1>7 DEF due

\* A request is overdue exactly when today is after its deadline, and not on
\* the day itself (deadline.py:74).
THEOREM OverdueWhenAfter ==
    ASSUME NEW r \in Dates, NEW today \in Dates, ~Raises(r, MONTHS)
    PROVE  overdue(r, today) <=> Earlier(due_date(r, MONTHS), today)
<1> DEFINE due == due_date(r, MONTHS)
<1>1. due \in Dates BY DueIsNextMonth
<1>2. overdue(r, today) <=> Ordinal(due) - Ordinal(today) < 0
  BY DEF overdue, days_remaining
<1> HIDE DEF due
<1>3. Ordinal(due) \in Int /\ Ordinal(today) \in Int BY <1>1, OrdinalIs
<1>4. CASE Earlier(due, today)
  <2>1. Ordinal(due) < Ordinal(today) BY <1>1, <1>4, OrdinalGrows
  <2> QED BY <2>1, <1>2, <1>3, <1>4 DEF due
<1>5. CASE Earlier(today, due)
  <2>1. Ordinal(today) < Ordinal(due) BY <1>1, <1>5, OrdinalGrows
  <2>2. ~Earlier(due, today)
    <3>1. /\ due.y \in Int /\ due.m \in Int /\ due.d \in Int
          /\ today.y \in Int /\ today.m \in Int /\ today.d \in Int
      BY <1>1, DateFields
    <3> QED BY <3>1, <1>5 DEF Earlier
  <2> QED BY <2>1, <2>2, <1>2, <1>3 DEF due
<1>6. CASE ~Earlier(due, today) /\ ~Earlier(today, due)
  <2>1. /\ due.y \in Int /\ due.m \in Int /\ due.d \in Int
        /\ today.y \in Int /\ today.m \in Int /\ today.d \in Int
    BY <1>1, DateFields
  <2>2. due.y = today.y /\ due.m = today.m /\ due.d = today.d
    BY <2>1, <1>6 DEF Earlier
  <2>3. Ordinal(due) = Ordinal(today) BY <2>2 DEF Ordinal
  <2> QED BY <2>3, <1>2, <1>3, <1>6 DEF due
<1> QED BY <1>4, <1>5, <1>6

-------------------------------------------------------------------------------
(* The date of receipt and the description it travels in.                  *)

\* The date the form sent is the date read back (received.py:77 and 102), and
\* none is none, whatever lines of the operator's own look like markers.
THEOREM ReceivedComesBack ==
    ASSUME NEW received \in Dates \cup {None}, NEW body \in Seq(Lines)
    PROVE  decode_received(encode_received(received, body)) = received
<1> DEFINE quoted == [i \in DOMAIN body |-> Quoted(body[i])]
<1>1. DOMAIN body = 1..Len(body) /\ Len(body) \in Nat
      /\ \A i \in 1..Len(body) : body[i] \in Lines
  OBVIOUS
<1>2. \A l \in Lines : Quoted(l) \in Lines /\ ~Quoted(l).marker BY DEF Quoted, Lines
<1>3. quoted \in Seq(Lines) /\ Len(quoted) = Len(body)
      /\ \A i \in 1..Len(body) : ~quoted[i].marker
  BY <1>1, <1>2
<1>4. CASE received = None
  <2>1. encode_received(received, body) = quoted BY <1>4 DEF encode_received
  <2> HIDE DEF quoted
  <2>2. quoted # <<>> => ~quoted[1].marker BY <1>3, <1>1
  <2> QED BY <1>4, <2>1, <2>2 DEF decode_received
<1>5. CASE received # None
  <2> DEFINE text == <<Marker(received)>> \o quoted
  <2>1. encode_received(received, body) = text BY <1>5 DEF encode_received
  <2>2. received \in Dates BY <1>5
  <2> HIDE DEF quoted
  <2>3. received \in Shapes
    <3>1. /\ received \in [y : Years, m : Months, d : 1..31] BY <2>2 DEF Dates
    <3> QED BY <3>1 DEF Shapes, Months
  <2>4. Marker(received) \in Lines BY <2>3 DEF Marker, Lines
  <2>5. text # <<>> /\ text[1] = Marker(received) BY <2>4, <1>3
  <2>6. text[1].marker /\ text[1].date = received BY <2>5 DEF Marker
  <2> HIDE DEF text
  <2> QED BY <2>1, <2>2, <2>5, <2>6 DEF decode_received
<1> QED BY <1>4, <1>5

\* The deadline of a date the form let through can be computed
\* (_received_date, api.py:293), until the last year of the calendar.
THEOREM AcceptedIsDue ==
    ASSUME NEW today \in Dates, NEW date, Accepts(date, today), date # None,
           today.y < 9999
    PROVE  date \in Dates /\ ~Raises(date, MONTHS)
<1>1. date \in Dates /\ ~Earlier(today, date) BY DEF Accepts
<1>2. date.y \in Int /\ today.y \in Int BY <1>1, DateFields
<1>3. date.y < 9999 BY <1>1, <1>2 DEF Earlier
<1>4. Raises(date, MONTHS) <=> date.y = 9999 /\ date.m = 12 BY <1>1, DueIsNextMonth
<1> QED BY <1>1, <1>2, <1>3, <1>4
===============================================================================
