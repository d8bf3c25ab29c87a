------------------------------- MODULE CasePage --------------------------------
(***************************************************************************)
(* The page of one operator, from sign-in to after sign-out: the new       *)
(* request form, the case view, its poll, its ticker, and exports          *)
(* (web/static/app.js), over the handlers that serve it (web/api.py).      *)
(*                                                                         *)
(* The page is one thread, and all of its parts share state.case_id.  What *)
(* happens between two awaits of it is one step.  Requests are served in   *)
(* any order, and answered in any order.                                   *)
(*                                                                         *)
(* Data abstracted: a search is its place in `searches`.  A request is     *)
(* known by a number that is free again once it is answered, and so is a   *)
(* timer.  Time is left out: a timer fires when it likes.  The list, the   *)
(* audit and the batch view are the view "requests".  What the form says   *)
(* of the person and of the queries is left out: Run can be clicked once   *)
(* the form has a case.  After signing out the operator does nothing more; *)
(* answers and timers still come.                                          *)
(***************************************************************************)
EXTENDS Integers, FiniteSets, SequencesExt

CONSTANTS
    Cases,          \* cases there may be in Purview
    None,           \* null: no case
    Listed,         \* the cases there are when the page is opened
    Kinds,          \* the searches of one run: naive and expanded
    MaxFlight,      \* bound: requests under way
    MaxSearches,    \* bound: searches
    MaxChains,      \* bound: chains of reads that may poll, when one is started by hand
    MaxDone,        \* bound: estimates that end
    MaxFaults       \* bound: requests that fail, answers that are lost

ASSUME CasePageAssumption ==
    /\ None \notin Cases
    /\ Listed \subseteq Cases
    /\ IsFiniteSet(Kinds)
    /\ {MaxFlight, MaxSearches, MaxChains, MaxDone, MaxFaults} \subseteq Nat

VARIABLES
    exist,          \* Purview: its cases
    searches,       \* Purview: its searches, and the case each was meant for
    flight,         \* requests under way, and what they have been answered
    faults,         \* bound used up
    out,            \* the operator has signed out: the page shows it, requests get 401
    view,           \* state.view
    caseId,         \* state.case_id
    form,           \* the case the form says it has created
    title,          \* the case whose reference titles the case view; None in another
    table,          \* the searches it lists: of which case, and how far each is
    wait,           \* state.running, and the ticker that says "Estimating"
    timers,         \* poll timers the browser holds, and state.pollTimer
    busy,           \* buttons that withBusy has disabled
    run,            \* Run: requests waited for, searches created, one has failed
    exported        \* state.exported

purview == <<exist, searches>>
server == <<purview, faults>>
screen == <<out, view, title, table, wait, timers>>
shared == <<caseId, form, busy, run, exported>>
vars == <<server, flight, screen, shared>>

Requests == 1..MaxFlight

NoRows == [of |-> None, rows |-> <<>>]
Still == [running |-> FALSE, ticking |-> FALSE]
NotRunning == [waits |-> {}, made |-> {}, failed |-> FALSE]

-------------------------------------------------------------------------------
(* Requests and the server.                                                *)

\* The lowest number that is not in use.
Unused(used) == CHOOSE i \in 1..(Cardinality(used) + 1) :
                    i \notin used /\ \A j \in 1..(i - 1) : j \in used

\* The n lowest.
Lowest(used, n) ==
    {i \in 1..(Cardinality(used) + n) : i \notin used /\ Cardinality((1..i) \ used) <= n}

Ids(requests) == {f.id : f \in requests}

Pending(op) == {f \in flight : f.op = op /\ f.got \in {"nothing", "listed"}}

Room(n) == Cardinality(flight) + n <= MaxFlight

\* Timers, and reads that may set one: timers that state.pollTimer has lost are
\* pending too.
Chains == Cardinality(timers.pending) + Cardinality({f \in flight : f.op = "read"})

\* A request about case c: op is what it asks for, from is who waits for it, n is
\* the search it names; `meant` is the case that the form says a search is for.
Request(i, op, from, c, n) ==
    [id |-> i, op |-> op, from |-> from, case |-> c, n |-> n,
     meant |-> IF op = "search" THEN form ELSE None, got |-> "nothing", rows |-> <<>>]

\* These requests with one more.
With(requests, op, from, c, n) ==
    requests \cup {Request(Unused(Ids(requests)), op, from, c, n)}

Reading(requests, from, c) == With(requests, "read", from, c, 0)

\* A slip: the searches of every case are listed.
RowsOfAny(c) == [n \in DOMAIN searches |-> "unread"]

\* The list of the searches of case c, which does not say how far they are.
RowsOf(c) == [n \in {m \in DOMAIN searches : searches[m].case = c} |-> "unread"]

Unread(f) == {n \in DOMAIN f.rows : f.rows[n] = "unread"}

\* A read is answered when each search has been read.
ReadOn(f) == IF Unread(f) = {} THEN [f EXCEPT !.got = "ok"] ELSE [f EXCEPT !.got = "listed"]

Gets(f, answer) == flight' = (flight \ {f}) \cup {answer}

\* searches_for: one request for the list.
ServeRead(f) ==
    /\ f.op = "read"
    /\ Gets(f, ReadOn([f EXCEPT !.rows = RowsOf(f.case)]))
    /\ UNCHANGED purview

ServeCreate(f) ==
    /\ f.op = "create"
    /\ \E c \in Cases \ exist :
          /\ exist' = exist \cup {c}
          /\ Gets(f, [f EXCEPT !.got = "ok", !.case = c])
    /\ UNCHANGED searches

Search(f, at) == [case |-> f.case, at |-> at, meant |-> f.meant]

\* That Purview refuses a name the case has already is one of the errors of ServeFails.
ServeSearch(f) ==
    /\ f.op = "search"
    /\ searches' = Append(searches, Search(f, "running"))
    /\ Gets(f, [f EXCEPT !.got = "ok", !.n = Len(searches) + 1])
    /\ UNCHANGED exist

\* Purview knows the search under its own case only.
ServeExport(f) ==
    /\ f.op = "export"
    /\ Gets(f, [f EXCEPT !.got = IF searches[f.n].case = f.case THEN "ok" ELSE "error"])
    /\ UNCHANGED purview

Waiting(f) == f \in flight /\ f.got = "nothing"

\* The first request of the handler of f; for all but a read there is no other,
\* and the answer is on its way.
Serve(f) ==
    /\ Waiting(f)
    /\ ~out
    /\ ServeRead(f) \/ ServeCreate(f) \/ ServeSearch(f) \/ ServeExport(f)
    /\ UNCHANGED <<faults, screen, shared>>

\* searches_for: one request for each search.  A handler that has begun goes on
\* after the operator has signed out.
ReadStatistics(f) ==
    /\ f \in flight /\ f.got = "listed"
    /\ LET n == Min(Unread(f)) IN Gets(f, ReadOn([f EXCEPT !.rows[n] = searches[n].at]))
    /\ UNCHANGED <<server, screen, shared>>

\* The session has ended: 401.
TurnAway(f) ==
    /\ Waiting(f)
    /\ out
    /\ Gets(f, [f EXCEPT !.got = "401"])
    /\ UNCHANGED <<server, screen, shared>>

\* The handler fails, of a create possibly when it has taken effect, with no
\* estimate started; or the answer does not arrive.
ServeFails(f) ==
    /\ f \in flight /\ f.got \in {"nothing", "listed"}
    /\ faults < MaxFaults
    /\ faults' = faults + 1
    /\ \/ UNCHANGED purview
       \/ /\ f.op = "search"
          /\ \E at \in {"created", "running"} : searches' = Append(searches, Search(f, at))
          /\ UNCHANGED exist
       \/ /\ f.op = "create"
          /\ \E c \in Cases \ exist : exist' = exist \cup {c}
          /\ UNCHANGED searches
    /\ \E got \in {"error", "lost"} : Gets(f, [f EXCEPT !.got = got, !.rows = <<>>])
    /\ UNCHANGED <<screen, shared>>

\* Purview is done with an estimate.
EstimateDone(n) ==
    /\ n \in DOMAIN searches
    /\ searches[n].at = "running"
    /\ Cardinality({m \in DOMAIN searches : searches[m].at = "complete"}) < MaxDone
    /\ searches' = [searches EXCEPT ![n].at = "complete"]
    /\ UNCHANGED <<exist, faults, flight, screen, shared>>

-------------------------------------------------------------------------------
(* Views, timers and the sign-in screen.                                   *)

\* clearTimeout(state.pollTimer).
Cleared == [pending |-> timers.pending \ {timers.poll}, poll |-> 0]

\* showView, for a view other than that of a case.
ShowView(v) ==
    /\ view' = v
    /\ title' = None
    /\ wait' = Still
    /\ timers' = Cleared

\* schedulePoll: state.pollTimer is cleared, and a new timer set.
Scheduled ==
    LET kept == timers.pending \ {timers.poll}
        new == Unused(kept \cup {timers.poll})
    IN [pending |-> kept \cup {new}, poll |-> new]

\* renderSignedOut.  It leaves state.view as it is.
SignedOut ==
    /\ out' = TRUE
    /\ timers' = Cleared
    /\ wait' = Still
    /\ caseId' = None
    /\ form' = None
    /\ title' = None
    /\ table' = NoRows
    /\ exported' = {}
    /\ UNCHANGED view

\* A slip: a read under way is taken for that of the case now opened.
OpenCaseSharesRead(requests, c, name, seed) ==
    /\ caseId' = c
    /\ title' = name
    /\ table' = seed
    /\ view' = "case"
    /\ wait' = [wait EXCEPT !.running = FALSE]
    /\ flight' = IF Pending("read") = {} THEN Reading(requests, "open", c) ELSE requests
    /\ UNCHANGED timers

\* openCase: the view is titled with the reference it is given, cleared of the
\* case before it, or shows the searches just created; then the case is read.
OpenCase(requests, c, name, seed) ==
    /\ caseId' = c
    /\ title' = name
    /\ table' = seed
    /\ view' = "case"
    /\ wait' = [wait EXCEPT !.running = FALSE]
    /\ flight' = Reading(requests, "open", c)
    /\ UNCHANGED timers

-------------------------------------------------------------------------------
(* What the operator does.                                                 *)

\* A tab, or Back: both come to showView.
Leave(v) ==
    /\ ~out
    /\ v # view
    /\ ShowView(v)
    /\ UNCHANGED <<server, flight, out, table, shared>>

Open(c) ==
    /\ ~out
    /\ view = "requests"
    /\ c \in exist
    /\ Room(1) /\ Chains < MaxChains
    /\ OpenCase(flight, c, c, NoRows)
    /\ UNCHANGED <<server, out, form, busy, run, exported>>

\* A click on a button that withBusy guards, in its view.
Click(button, where) ==
    /\ ~out
    /\ view = where
    /\ button \notin busy
    /\ busy' = busy \cup {button}

Refresh ==
    /\ Click("refresh", "case")
    /\ Room(1) /\ Chains < MaxChains
    /\ flight' = Reading(flight, "button", caseId)
    /\ UNCHANGED <<server, screen, caseId, form, run, exported>>

\* The fields of a form whose case is there are not shown.
CreateCase ==
    /\ Click("create", "form")
    /\ form = None
    /\ exist # Cases
    /\ Room(1)
    /\ flight' = With(flight, "create", "create", None, 0)
    /\ UNCHANGED <<server, out, view, title, table, wait, timers, caseId, form, run, exported>>

\* Two chains, one for each kind; they name the case of state.case_id.
RunBoth ==
    /\ Click("run", "form")
    /\ form # None
    /\ Len(searches) + Cardinality(Pending("search")) + Cardinality(Kinds) <= MaxSearches
    /\ Room(Cardinality(Kinds))
    /\ LET new == Lowest(Ids(flight), Cardinality(Kinds)) IN
          /\ flight' = flight \cup {Request(i, "search", "run", caseId, 0) : i \in new}
          /\ run' = [waits |-> new, made |-> {}, failed |-> FALSE]
    /\ UNCHANGED <<server, out, view, title, table, wait, timers, caseId, form, exported>>

\* The buttons in the table: one for each search that is complete there.
Export(n) ==
    /\ ~out
    /\ view = "case"
    /\ n \in DOMAIN table.rows
    /\ table.rows[n] = "complete"
    /\ n \notin exported
    /\ Room(1)
    /\ flight' = With(flight, "export", "export", caseId, n)
    /\ UNCHANGED <<server, out, view, title, table, wait, timers, shared>>

\* The answer to /auth/logout has come.
SignOut ==
    /\ ~out
    /\ SignedOut
    /\ UNCHANGED <<purview, faults, flight, busy, run>>

-------------------------------------------------------------------------------
(* What the timers do.                                                     *)

\* state.pollTimer still names the timer, which is no different from none.
PollFires(t) ==
    /\ t \in timers.pending
    /\ Room(1)
    /\ timers' = [pending |-> timers.pending \ {t},
                  poll |-> IF timers.poll = t THEN 0 ELSE timers.poll]
    /\ flight' = Reading(flight, "poll", caseId)
    /\ UNCHANGED <<server, out, view, title, table, wait, shared>>

\* renderWaiting, each second: it stops when there is nothing to wait for.
Tick ==
    /\ wait.ticking
    /\ ~wait.running \/ view # "case"
    /\ wait' = [wait EXCEPT !.ticking = FALSE]
    /\ UNCHANGED <<server, flight, out, view, title, table, timers, shared>>

-------------------------------------------------------------------------------
(* What the page does with an answer.                                      *)

Answered(f, got) == f \in flight /\ f.got = got

\* The button that waited for f is enabled again.
Released(f) == busy \ {IF f.from = "button" THEN "refresh" ELSE f.from}

Incomplete(rows) == \E n \in DOMAIN rows : rows[n] # "complete"

\* A slip: a poll does not set the next one.
GoOnOnce(f, done) ==
    timers' = IF f.from \in {"export", "poll"} \/ done THEN timers ELSE Scheduled

\* What polls and who waited for the read go on with: `done` is what
\* refreshCase returned.
GoOn(f, done) ==
    timers' = IF f.from = "export" THEN timers
              ELSE IF ~done THEN Scheduled
              ELSE IF f.from = "poll" THEN [timers EXCEPT !.poll = 0]
              ELSE timers

\* refreshCase: the rows are drawn, whatever the view; the ticker runs while
\* something is running and this is the case view.
ReadAnswered(f) ==
    LET here == view = "case"
        waiting == Incomplete(f.rows)
    IN
    /\ Answered(f, "ok") /\ f.op = "read"
    /\ table' = [of |-> f.case, rows |-> f.rows]
    /\ wait' = [running |-> waiting, ticking |-> waiting /\ here]
    /\ GoOn(f, ~here \/ (~waiting /\ f.rows # <<>>))
    /\ flight' = flight \ {f}
    /\ busy' = Released(f)
    /\ UNCHANGED <<server, out, view, title, caseId, form, run, exported>>

\* An error is shown; a lost answer is not even that.
Failed(f) == Answered(f, "error") \/ Answered(f, "lost")

\* A read that fails ends the poll: refreshCase returns true.
ReadFailed(f) ==
    /\ f.op = "read"
    /\ Failed(f)
    /\ GoOn(f, TRUE)
    /\ flight' = flight \ {f}
    /\ busy' = Released(f)
    /\ UNCHANGED <<server, out, view, title, table, wait, caseId, form, run, exported>>

\* 201: from now on this is the case of the page.
CreateAnswered(f) ==
    /\ Answered(f, "ok") /\ f.op = "create"
    /\ caseId' = f.case
    /\ form' = f.case
    /\ flight' = flight \ {f}
    /\ busy' = Released(f)
    /\ UNCHANGED <<server, screen, run, exported>>

\* 202: the row says so, and the case is read again.
ExportAnswered(f) ==
    /\ Answered(f, "ok") /\ f.op = "export"
    /\ exported' = exported \cup {f.n}
    /\ flight' = Reading(flight \ {f}, "export", caseId)
    /\ UNCHANGED <<server, screen, caseId, form, busy, run>>

\* A create or an export that fails.
WriteFailed(f) ==
    /\ f.op \in {"create", "export"}
    /\ Failed(f)
    /\ flight' = flight \ {f}
    /\ busy' = Released(f)
    /\ UNCHANGED <<server, out, view, title, table, wait, timers, caseId, form, run, exported>>

Settled(f) == [waits |-> run.waits \ {f.id},
               made |-> IF f.got = "ok" THEN run.made \cup {f.n} ELSE run.made,
               failed |-> run.failed \/ f.got # "ok"]

\* One of two chains is there; or one whose run was given up.
ChainAnswered(f) ==
    /\ f.op = "search"
    /\ Answered(f, "ok") \/ Answered(f, "error")
    /\ \/ f.id \notin run.waits /\ UNCHANGED run
       \/ f.id \in run.waits /\ Settled(f).waits # {} /\ run' = Settled(f)
    /\ flight' = flight \ {f}
    /\ UNCHANGED <<server, screen, caseId, form, busy, exported>>

\* The last one is there, and all were created: the case of the page is opened
\* under the reference of the form's, with their rows, and the form is reset.
RunDone(f) ==
    /\ f.op = "search"
    /\ Answered(f, "ok")
    /\ Settled(f).waits = {} /\ ~Settled(f).failed
    /\ f.id \in run.waits
    /\ OpenCase(flight \ {f}, caseId, form,
                [of |-> f.case, rows |-> [n \in Settled(f).made |-> "created"]])
    /\ form' = None
    /\ run' = NotRunning
    /\ busy' = busy \ {"run"}
    /\ UNCHANGED <<server, out, exported>>

\* The last one is there, and one has failed.
RunFailed(f) ==
    /\ f.op = "search"
    /\ Answered(f, "ok") \/ Answered(f, "error")
    /\ f.id \in run.waits
    /\ Settled(f).waits = {} /\ Settled(f).failed
    /\ run' = NotRunning
    /\ busy' = busy \ {"run"}
    /\ flight' = flight \ {f}
    /\ UNCHANGED <<server, out, view, title, table, wait, timers, caseId, form, exported>>

\* A slip: withBusy has no finally.
GivesUpDisabled(f) ==
    IF f.id \in run.waits THEN run' = NotRunning /\ UNCHANGED busy
    ELSE UNCHANGED <<run, busy>>

\* Promise.all rejects, and the run that f is of is over.
GivesUp(f) ==
    IF f.id \in run.waits THEN run' = NotRunning /\ busy' = busy \ {"run"}
    ELSE UNCHANGED <<run, busy>>

\* The answer of a chain is lost: the run is given up, and nothing says so.
RunLost(f) ==
    /\ f.op = "search"
    /\ Answered(f, "lost")
    /\ GivesUp(f)
    /\ flight' = flight \ {f}
    /\ UNCHANGED <<server, screen, caseId, form, exported>>

\* 401, to any request: the sign-in screen, and who waited gives up.
Unauthorized(f) ==
    /\ Answered(f, "401")
    /\ SignedOut
    /\ IF f.op # "search" THEN busy' = Released(f) /\ UNCHANGED run
       ELSE GivesUp(f)
    /\ flight' = flight \ {f}
    /\ UNCHANGED server

Answer(f) ==
    \/ ReadAnswered(f)
    \/ ReadFailed(f)
    \/ CreateAnswered(f)
    \/ ExportAnswered(f)
    \/ WriteFailed(f)
    \/ ChainAnswered(f)
    \/ RunDone(f)
    \/ RunFailed(f)
    \/ RunLost(f)
    \/ Unauthorized(f)

-------------------------------------------------------------------------------
Init ==
    /\ exist = Listed
    /\ searches = <<>>
    /\ flight = {}
    /\ faults = 0
    /\ out = FALSE
    /\ view = "requests"
    /\ caseId = None
    /\ form = None
    /\ title = None
    /\ table = NoRows
    /\ wait = Still
    /\ timers = [pending |-> {}, poll |-> 0]
    /\ busy = {}
    /\ run = NotRunning
    /\ exported = {}

Operator ==
    \/ \E v \in {"requests", "form"} : Leave(v)
    \/ \E c \in Cases : Open(c)
    \/ Refresh
    \/ CreateCase
    \/ RunBoth
    \/ \E n \in DOMAIN searches : Export(n)
    \/ SignOut

ServerStep(f) == Serve(f) \/ ReadStatistics(f) \/ TurnAway(f) \/ ServeFails(f)

Next ==
    \/ Operator
    \/ \E t \in timers.pending : PollFires(t)
    \/ Tick
    \/ \E f \in flight : ServerStep(f) \/ Answer(f)
    \/ \E n \in DOMAIN searches : EstimateDone(n)

Spec == Init /\ [][Next]_vars

\* Every request is answered (the server's own requests have timeouts).
FairSpec ==
    /\ Spec
    /\ \A i \in Requests :
          /\ WF_vars(\E f \in flight : f.id = i /\ ServerStep(f))
          /\ WF_vars(\E f \in flight : f.id = i /\ Answer(f))

(***************************************************************************)
(* Properties.                                                             *)
(***************************************************************************)

How == {"created", "running", "complete"}

\* Every variable has its type, and a disabled button waits for a request.
TypeOK ==
    /\ Listed \subseteq exist /\ exist \subseteq Cases
    /\ \A n \in DOMAIN searches :
          /\ searches[n].case \in exist /\ searches[n].meant \in exist
          /\ searches[n].at \in How
    /\ Len(searches) <= MaxSearches
    /\ \A f \in flight :
          /\ f.id \in Requests
          /\ f.case \in exist \cup {None}
          /\ f.got \in {"nothing", "listed", "ok", "error", "lost", "401"}
          /\ \A g \in flight : g.id = f.id => g = f
    /\ view \in {"requests", "form", "case"}
    /\ {caseId, form, title, table.of} \subseteq exist \cup {None}
    /\ \A n \in DOMAIN table.rows : n \in DOMAIN searches /\ table.rows[n] \in How
    /\ timers.poll \in Nat /\ \A t \in timers.pending : t \in Nat \ {0}
    /\ busy \subseteq {"create", "refresh", "run"}
    /\ "create" \in busy <=> \E f \in flight : f.from = "create"
    /\ "refresh" \in busy <=> \E f \in flight : f.from = "button"
    /\ run.waits \subseteq {f.id : f \in {g \in flight : g.op = "search"}}
    /\ "run" \in busy <=> run.waits # {}
    /\ exported \subseteq DOMAIN searches

\* The table never says more than Purview did: a search it lists is of the case
\* it was read for, and one it calls complete, and so offers to export, is.
NeverAhead ==
    \A n \in DOMAIN table.rows :
        /\ searches[n].case = table.of
        /\ table.rows[n] = "complete" => searches[n].at = "complete"

\* As long as no request failed and no export was started, a case view that
\* shows something running will be read again: a poll is set, or a read that
\* sets one is under way, whatever other case was opened and left meanwhile.
StillWatched ==
    view = "case" /\ ~out /\ Incomplete(table.rows) /\ faults = 0 /\ exported = {}
        => timers.pending # {} \/ \E f \in flight : f.op = "read"

\* A case that is opened is read: its rows come, unless the operator leaves or
\* a request fails, whatever reads of other cases are still under way.
OpenedIsRead ==
    \A c \in Cases :
        (view = "case" /\ title = c /\ table = NoRows /\ ~out)
            ~> (table.of = c \/ title # c \/ view # "case" \/ out \/ faults > 0)

\* Run comes back, whatever fails of its two chains, and whatever the operator
\* does meanwhile: each chain is answered or given up, and the last one is
\* noticed (Promise.all under withBusy).
RunComesBack == "run" \in busy ~> "run" \notin busy

\* A search is created in the case that the form says it has created.  It is not
\* so: see the README.
SearchesInOwnCase == \A n \in DOMAIN searches : searches[n].meant = searches[n].case

\* The rows under the title of a case are of that case.  It is not so: see the
\* README.
TableOfTitle == view = "case" /\ ~out => table.of \in {None, title}
===============================================================================
