------------------------------ MODULE CasePageProofs ------------------------------
(***************************************************************************)
(* The case view never claims more of a search than Purview has said of    *)
(* it, and does not stop watching one that still runs: for any number of   *)
(* cases, searches, requests under way, timers and failures, in whatever   *)
(* order requests are served and answered.                                 *)
(***************************************************************************)
EXTENDS CasePage, TLAPS

Known == Cases \cup {None}
Entries == [case : Known, at : How, meant : Known]

-------------------------------------------------------------------------------
(* What is known of a search stays true of it: searches are added, and one *)
(* that is complete stays so.                                              *)

Grows(s, t) ==
    /\ DOMAIN s \subseteq DOMAIN t
    /\ \A n \in DOMAIN s : /\ t[n].case = s[n].case
                           /\ s[n].at = "complete" => t[n].at = "complete"

\* Rows of the searches of one case, not ahead of s.
Fits(of, rows, s) ==
    \A n \in DOMAIN rows :
        /\ n \in DOMAIN s
        /\ s[n].case = of
        /\ rows[n] = "complete" => s[n].at = "complete"

\* A request that s bears out: its rows, and the search it has created.
IsRequest(f) ==
    f = [id |-> f.id, op |-> f.op, from |-> f.from, case |-> f.case, n |-> f.n,
         meant |-> f.meant, got |-> f.got, rows |-> f.rows]

Borne(f, s) ==
    /\ IsRequest(f)
    /\ f.case \in Known /\ f.meant \in Known
    /\ Fits(f.case, f.rows, s)
    /\ f.got = "listed" => f.op = "read"
    /\ f.op # "read" => DOMAIN f.rows = {}
    /\ f.op = "search" /\ f.got = "ok" => f.n \in DOMAIN s /\ s[f.n].case = f.case

\* The run r, some of whose requests are under way, is about one case.
OfOneCase(r, requests, s) ==
    \E c \in Known :
        /\ \A n \in r.made : n \in DOMAIN s /\ s[n].case = c
        /\ \A f \in requests : f.op = "search" /\ f.id \in r.waits => f.case = c

AInv ==
    /\ searches \in Seq(Entries)
    /\ exist \subseteq Cases /\ caseId \in Known /\ form \in Known
    /\ \A f \in flight : Borne(f, searches)
    /\ Fits(table.of, table.rows, searches)
    /\ OfOneCase(run, flight, searches)

LEMMA GrowsItself == ASSUME NEW s PROVE Grows(s, s)
BY DEF Grows

LEMMA FitsLater ==
    ASSUME NEW of, NEW rows, NEW s, NEW t, Fits(of, rows, s), Grows(s, t)
    PROVE  Fits(of, rows, t)
BY DEF Fits, Grows

LEMMA BorneLater ==
    ASSUME NEW f, NEW s, NEW t, Borne(f, s), Grows(s, t)
    PROVE  Borne(f, t)
BY FitsLater DEF Borne, Grows

LEMMA SearchAdded ==
    ASSUME NEW s \in Seq(Entries), NEW e \in Entries
    PROVE  /\ Append(s, e) \in Seq(Entries) /\ Grows(s, Append(s, e))
           /\ Len(s) + 1 \in DOMAIN Append(s, e) /\ Append(s, e)[Len(s) + 1] = e
<1>1. /\ Append(s, e) \in Seq(Entries) /\ Len(Append(s, e)) = Len(s) + 1
      /\ \A n \in 1..Len(s) : Append(s, e)[n] = s[n]
      /\ Append(s, e)[Len(s) + 1] = e /\ Len(s) \in Nat
  OBVIOUS
<1>2. DOMAIN s = 1..Len(s) /\ DOMAIN Append(s, e) = 1..(Len(s) + 1) BY <1>1
<1> QED BY <1>1, <1>2 DEF Grows

\* A request with one field changed.
LEMMA NewGot ==
    ASSUME NEW f, IsRequest(f), NEW x
    PROVE  LET g == [f EXCEPT !.got = x]
           IN  /\ IsRequest(g) /\ g.got = x
               /\ g.id = f.id /\ g.op = f.op /\ g.from = f.from /\ g.case = f.case
               /\ g.n = f.n /\ g.meant = f.meant /\ g.rows = f.rows
BY DEF IsRequest

LEMMA NewCase ==
    ASSUME NEW f, IsRequest(f), NEW x
    PROVE  LET g == [f EXCEPT !.case = x]
           IN  /\ IsRequest(g) /\ g.case = x
               /\ g.id = f.id /\ g.op = f.op /\ g.from = f.from /\ g.n = f.n
               /\ g.meant = f.meant /\ g.got = f.got /\ g.rows = f.rows
BY DEF IsRequest

LEMMA NewN ==
    ASSUME NEW f, IsRequest(f), NEW x
    PROVE  LET g == [f EXCEPT !.n = x]
           IN  /\ IsRequest(g) /\ g.n = x
               /\ g.id = f.id /\ g.op = f.op /\ g.from = f.from /\ g.case = f.case
               /\ g.meant = f.meant /\ g.got = f.got /\ g.rows = f.rows
BY DEF IsRequest

LEMMA NewRows ==
    ASSUME NEW f, IsRequest(f), NEW x
    PROVE  LET g == [f EXCEPT !.rows = x]
           IN  /\ IsRequest(g) /\ g.rows = x
               /\ g.id = f.id /\ g.op = f.op /\ g.from = f.from /\ g.case = f.case
               /\ g.n = f.n /\ g.meant = f.meant /\ g.got = f.got
BY DEF IsRequest

LEMMA NewIsBorne ==
    ASSUME NEW i, NEW op, NEW from, NEW c \in Known, NEW n, NEW s, form \in Known
    PROVE  Borne(Request(i, op, from, c, n), s)
<1> DEFINE f == Request(i, op, from, c, n)
<1>1. /\ IsRequest(f) /\ f.case = c /\ f.rows = <<>> /\ f.got = "nothing"
      /\ f.meant \in Known
  BY DEF Request, IsRequest, Known
<1>2. DOMAIN f.rows = {} BY <1>1
<1> HIDE DEF f
<1>3. Borne(f, s) BY <1>1, <1>2 DEF Borne, Fits
<1> QED BY <1>3 DEF f

-------------------------------------------------------------------------------
\* A step that leaves run, or has it wait for less: every search under way now was
\* so before.
LEMMA RunKept ==
    ASSUME OfOneCase(run, flight, searches), Grows(searches, searches'),
           run'.made \subseteq run.made, run'.waits \subseteq run.waits,
           \A g \in flight' : g.op = "search" =>
              \E f \in flight : f.op = "search" /\ f.id = g.id /\ f.case = g.case
    PROVE  OfOneCase(run', flight', searches')
BY DEF OfOneCase, Grows

\* The page or the server does something that leaves the table as it is, or puts
\* rows there that are borne out.
LEMMA AKept ==
    ASSUME AInv, searches' \in Seq(Entries), Grows(searches, searches'),
           exist' \subseteq Cases, caseId' \in Known, form' \in Known,
           \A g \in flight' : g \in flight \/ Borne(g, searches'),
           UNCHANGED table \/ Fits(table'.of, table'.rows, searches'),
           OfOneCase(run', flight', searches')
    PROVE  AInv'
<1>1. \A g \in flight' : Borne(g, searches') BY BorneLater DEF AInv
<1>2. Fits(table'.of, table'.rows, searches') BY FitsLater DEF AInv
<1>3. AInv' = (/\ searches' \in Seq(Entries)
               /\ exist' \subseteq Cases /\ caseId' \in Known /\ form' \in Known
               /\ \A f \in flight' : Borne(f, searches')
               /\ Fits(table'.of, table'.rows, searches')
               /\ OfOneCase(run', flight', searches'))
  BY DEF AInv, Borne, Fits, OfOneCase, IsRequest
<1> QED BY <1>1, <1>2, <1>3

\* Requests are answered, and one that is no search is sent: nothing else is
\* touched but the case of the page, and the table with rows that fit.
LEMMA Asks ==
    ASSUME AInv, NEW left \in SUBSET flight, NEW op, op # "search", NEW from,
           NEW c \in Known, NEW n, flight' = With(left, op, from, c, n),
           UNCHANGED purview, caseId' \in Known, form' \in Known,
           run'.made \subseteq run.made, run'.waits \subseteq run.waits,
           UNCHANGED table \/ Fits(table'.of, table'.rows, searches)
    PROVE  AInv'
<1> DEFINE new == Request(Unused(Ids(left)), op, from, c, n)
<1>1. flight' = left \cup {new} BY DEF With
<1>2. new.op = op BY DEF Request
<1>3. Borne(new, searches) BY NewIsBorne DEF AInv
<1> HIDE DEF new
<1>4. Grows(searches, searches') BY GrowsItself DEF purview
<1>5. OfOneCase(run', flight', searches')
  <2>1. \A g \in flight' : g.op = "search" =>
           \E f \in flight : f.op = "search" /\ f.id = g.id /\ f.case = g.case
    BY <1>1, <1>2
  <2> QED BY <1>4, <2>1, RunKept DEF AInv
<1> QED BY <1>1, <1>3, <1>4, <1>5, AKept DEF AInv, purview

\* Nothing is sent.
LEMMA Hears ==
    ASSUME AInv, flight' \subseteq flight, UNCHANGED purview,
           caseId' \in Known, form' \in Known,
           run'.made \subseteq run.made, run'.waits \subseteq run.waits,
           UNCHANGED table \/ Fits(table'.of, table'.rows, searches)
    PROVE  AInv'
<1>1. Grows(searches, searches') BY GrowsItself DEF purview
<1>2. OfOneCase(run', flight', searches') BY <1>1, RunKept DEF AInv
<1> QED BY <1>1, <1>2, AKept DEF AInv, purview

\* The server goes on with a request.
LEMMA Serves ==
    ASSUME AInv, NEW f \in flight, NEW g, Gets(f, g), Borne(g, searches'),
           g.op = f.op, g.id = f.id, f.op = "search" => g.case = f.case,
           searches' \in Seq(Entries), Grows(searches, searches'), exist' \subseteq Cases,
           UNCHANGED <<table, caseId, form, run>>
    PROVE  AInv'
<1>1. flight' = (flight \ {f}) \cup {g} BY DEF Gets
<1>2. \A h \in flight' : h.op = "search" =>
         \E k \in flight : k.op = "search" /\ k.id = h.id /\ k.case = h.case
  BY <1>1
<1>3. OfOneCase(run', flight', searches') BY <1>2, RunKept DEF AInv
<1> QED BY <1>1, <1>3, AKept DEF AInv

LEMMA NoRowsFit == ASSUME NEW s PROVE Fits(NoRows.of, NoRows.rows, s)
<1>1. NoRows.rows = <<>> /\ DOMAIN <<>> = {} BY DEF NoRows
<1> QED BY <1>1 DEF Fits

-------------------------------------------------------------------------------
\* An answer in which the rows are left as they are.
LEMMA GotBorne ==
    ASSUME NEW f, NEW s, NEW t, Borne(f, s), Grows(s, t), NEW got,
           f.op = "search" => got # "ok", got = "listed" => f.op = "read"
    PROVE  LET g == [f EXCEPT !.got = got]
           IN  Borne(g, t) /\ g.op = f.op /\ g.id = f.id /\ g.case = f.case
<1> DEFINE g == [f EXCEPT !.got = got]
<1>1. /\ IsRequest(g) /\ g.id = f.id /\ g.op = f.op /\ g.from = f.from /\ g.case = f.case
      /\ g.n = f.n /\ g.meant = f.meant /\ g.got = got /\ g.rows = f.rows
  BY DEF Borne, IsRequest
<1> HIDE DEF g
<1>2. Borne(f, t) BY BorneLater
<1>3. Borne(g, t) BY <1>1, <1>2 DEF Borne
<1> QED BY <1>1, <1>3 DEF g

\* A read with other rows that fit.
LEMMA RowsBorne ==
    ASSUME NEW f, NEW s, Borne(f, s), f.op = "read", NEW rows, Fits(f.case, rows, s)
    PROVE  LET g == [f EXCEPT !.rows = rows]
           IN  /\ Borne(ReadOn(g), s) /\ ReadOn(g).op = f.op /\ ReadOn(g).id = f.id
               /\ ReadOn(g).case = f.case /\ ReadOn(g).from = f.from
               /\ ReadOn(g).got \in {"ok", "listed"}
<1> DEFINE g == [f EXCEPT !.rows = rows]
<1>1. /\ IsRequest(g) /\ g.id = f.id /\ g.op = f.op /\ g.from = f.from /\ g.case = f.case
      /\ g.n = f.n /\ g.meant = f.meant /\ g.got = f.got /\ g.rows = rows
  BY DEF Borne, IsRequest
<1> HIDE DEF g
<1>2. Borne(g, s) BY <1>1 DEF Borne
<1>3. ReadOn(g) \in {[g EXCEPT !.got = "ok"], [g EXCEPT !.got = "listed"]} BY DEF ReadOn
<1>4. ASSUME NEW got \in {"ok", "listed"}
      PROVE  LET h == [g EXCEPT !.got = got]
             IN  /\ Borne(h, s) /\ h.op = f.op /\ h.id = f.id /\ h.case = f.case
                 /\ h.from = f.from /\ h.got = got
  <2>1. [g EXCEPT !.got = got].from = g.from /\ [g EXCEPT !.got = got].got = got
    BY <1>1 DEF IsRequest
  <2> QED BY <1>1, <1>2, <2>1, GrowsItself, GotBorne
<1>5. /\ Borne(ReadOn(g), s) /\ ReadOn(g).op = f.op /\ ReadOn(g).id = f.id
      /\ ReadOn(g).case = f.case /\ ReadOn(g).from = f.from
      /\ ReadOn(g).got \in {"ok", "listed"}
  BY <1>3, <1>4
<1> QED BY <1>5 DEF g

LEMMA ServesRead == ASSUME AInv, NEW f \in flight, Serve(f), ServeRead(f) PROVE AInv'
<1> DEFINE rows == RowsOf(f.case)
           g == ReadOn([f EXCEPT !.rows = rows])
<1>1. f.op = "read" /\ Gets(f, g) /\ UNCHANGED <<purview, table, caseId, form, run>>
  BY DEF Serve, ServeRead, screen, shared
<1>2. Fits(f.case, rows, searches) BY DEF Fits, RowsOf
<1> HIDE DEF rows
<1>3. Borne(f, searches) BY DEF AInv
<1>4. Borne(g, searches) /\ g.op = f.op /\ g.id = f.id
  BY <1>1, <1>2, <1>3, RowsBorne
<1> HIDE DEF g
<1> QED BY <1>1, <1>4, GrowsItself, Serves DEF AInv, purview

LEMMA ReadsStatistics == ASSUME AInv, NEW f \in flight, ReadStatistics(f) PROVE AInv'
<1> DEFINE n == Min(Unread(f))
           rows == [f.rows EXCEPT ![n] = searches[n].at]
           g == ReadOn([f EXCEPT !.rows = rows])
<1>1. [f EXCEPT !.rows[n] = searches[n].at] = [f EXCEPT !.rows = rows] OBVIOUS
<1>2. Gets(f, g) /\ UNCHANGED <<purview, table, caseId, form, run>>
  BY <1>1 DEF ReadStatistics, server, screen, shared
<1>3. Borne(f, searches) /\ f.op = "read" BY DEF AInv, Borne, ReadStatistics
<1> HIDE DEF n
<1>4. Fits(f.case, rows, searches) BY <1>3 DEF Borne, Fits
<1> HIDE DEF rows
<1>5. Borne(g, searches) /\ g.op = f.op /\ g.id = f.id
  BY <1>3, <1>4, RowsBorne
<1> HIDE DEF g
<1> QED BY <1>2, <1>3, <1>5, GrowsItself, Serves DEF AInv, purview

LEMMA ServesCreate == ASSUME AInv, NEW f \in flight, Serve(f), ServeCreate(f) PROVE AInv'
<1>1. /\ f.op = "create" /\ UNCHANGED <<searches, table, caseId, form, run>>
      /\ \E c \in Cases \ exist : /\ exist' = exist \cup {c}
                                  /\ Gets(f, [f EXCEPT !.got = "ok", !.case = c])
  BY DEF Serve, ServeCreate, screen, shared
<1>2. PICK c \in Cases \ exist : /\ exist' = exist \cup {c}
                                 /\ Gets(f, [f EXCEPT !.got = "ok", !.case = c])
  BY <1>1
<1> DEFINE g == [f EXCEPT !.got = "ok", !.case = c]
<1>3. Borne(f, searches) BY DEF AInv
<1>4. /\ IsRequest(g) /\ g.id = f.id /\ g.op = f.op /\ g.case = c
      /\ g.meant = f.meant /\ g.got = "ok" /\ g.rows = f.rows
  <2> DEFINE h == [f EXCEPT !.got = "ok"]
  <2>1. g = [h EXCEPT !.case = c] OBVIOUS
  <2>2. IsRequest(f) BY <1>3 DEF Borne
  <2>3. /\ IsRequest(h) /\ h.id = f.id /\ h.op = f.op /\ h.case = f.case /\ h.n = f.n
        /\ h.meant = f.meant /\ h.rows = f.rows /\ h.got = "ok"
    BY <2>2, NewGot
  <2> HIDE DEF h, g
  <2> QED BY <2>1, <2>3, NewCase
<1>5. Gets(f, g) BY <1>2
<1> HIDE DEF g
<1>6. Borne(g, searches) BY <1>1, <1>3, <1>4 DEF Borne, Fits, Known
<1> QED BY <1>1, <1>2, <1>4, <1>5, <1>6, GrowsItself, Serves DEF AInv

LEMMA ServesSearch == ASSUME AInv, NEW f \in flight, Serve(f), ServeSearch(f) PROVE AInv'
<1> DEFINE e == Search(f, "running")
           n == Len(searches) + 1
           g == [f EXCEPT !.got = "ok", !.n = n]
<1>1. /\ f.op = "search" /\ searches' = Append(searches, e) /\ Gets(f, g)
      /\ UNCHANGED <<exist, table, caseId, form, run>>
  BY DEF Serve, ServeSearch, screen, shared
<1>2. Borne(f, searches) /\ searches \in Seq(Entries) BY DEF AInv
<1>3. e \in Entries /\ e.case = f.case BY <1>2 DEF Search, Entries, Borne, How
<1> HIDE DEF e
<1>4. /\ searches' \in Seq(Entries) /\ Grows(searches, searches')
      /\ n \in DOMAIN searches' /\ searches'[n] = e
  BY <1>1, <1>2, <1>3, SearchAdded
<1>5. /\ IsRequest(g) /\ g.id = f.id /\ g.op = f.op /\ g.case = f.case /\ g.n = n
      /\ g.meant = f.meant /\ g.got = "ok" /\ g.rows = f.rows
  <2> DEFINE h == [f EXCEPT !.got = "ok"]
  <2>1. g = [h EXCEPT !.n = n] OBVIOUS
  <2>2. IsRequest(f) BY <1>2 DEF Borne
  <2>3. /\ IsRequest(h) /\ h.id = f.id /\ h.op = f.op /\ h.case = f.case /\ h.n = f.n
        /\ h.meant = f.meant /\ h.rows = f.rows /\ h.got = "ok"
    BY <2>2, NewGot
  <2> HIDE DEF h, g
  <2> QED BY <2>1, <2>3, NewN
<1> HIDE DEF g, n
<1>6. Borne(f, searches') BY <1>2, <1>4, BorneLater
<1>7. Borne(g, searches') BY <1>3, <1>4, <1>5, <1>6 DEF Borne
<1> QED BY <1>1, <1>4, <1>5, <1>7, Serves DEF AInv

LEMMA ServesExport == ASSUME AInv, NEW f \in flight, Serve(f), ServeExport(f) PROVE AInv'
<1> DEFINE got == IF searches[f.n].case = f.case THEN "ok" ELSE "error"
           g == [f EXCEPT !.got = got]
<1>1. f.op = "export" /\ Gets(f, g) /\ UNCHANGED <<purview, table, caseId, form, run>>
  BY DEF Serve, ServeExport, screen, shared
<1>2. Borne(f, searches) /\ got # "listed" BY DEF AInv
<1>3. Grows(searches, searches') BY <1>1, GrowsItself DEF purview
<1> HIDE DEF got
<1>4. Borne(g, searches') /\ g.op = f.op /\ g.id = f.id /\ g.case = f.case
  BY <1>1, <1>2, <1>3, GotBorne
<1> HIDE DEF g
<1> QED BY <1>1, <1>3, <1>4, Serves DEF AInv, purview

LEMMA ServingFails == ASSUME AInv, NEW f \in flight, ServeFails(f) PROVE AInv'
<1>1. /\ UNCHANGED <<table, caseId, form, run>> /\ exist' \subseteq Cases
      /\ \/ UNCHANGED searches
         \/ \E at \in {"created", "running"} : searches' = Append(searches, Search(f, at))
  BY DEF ServeFails, purview, screen, shared, AInv
<1>2. Borne(f, searches) /\ searches \in Seq(Entries) BY DEF AInv
<1>3. searches' \in Seq(Entries) /\ Grows(searches, searches')
  <2>1. CASE UNCHANGED searches BY <2>1, <1>2, GrowsItself
  <2>2. ASSUME NEW at \in {"created", "running"}, searches' = Append(searches, Search(f, at))
        PROVE  searches' \in Seq(Entries) /\ Grows(searches, searches')
    <3>1. Search(f, at) \in Entries BY <1>2 DEF Search, Entries, Borne, How
    <3> QED BY <2>2, <3>1, <1>2, SearchAdded
  <2> QED BY <1>1, <2>1, <2>2
<1>4. PICK got \in {"error", "lost"} : Gets(f, [f EXCEPT !.got = got, !.rows = <<>>])
  BY DEF ServeFails
<1> DEFINE g == [f EXCEPT !.got = got, !.rows = <<>>]
<1>5. /\ IsRequest(g) /\ g.id = f.id /\ g.op = f.op /\ g.case = f.case
      /\ g.meant = f.meant /\ g.got = got /\ DOMAIN g.rows = {}
  <2> DEFINE h == [f EXCEPT !.got = got]
  <2>1. g = [h EXCEPT !.rows = <<>>] OBVIOUS
  <2>2. IsRequest(f) BY <1>2 DEF Borne
  <2>3. /\ IsRequest(h) /\ h.id = f.id /\ h.op = f.op /\ h.case = f.case /\ h.n = f.n
        /\ h.meant = f.meant /\ h.rows = f.rows /\ h.got = got
    BY <2>2, NewGot
  <2> HIDE DEF h, g
  <2> QED BY <2>1, <2>3, NewRows
<1>6. Gets(f, g) BY <1>4
<1> HIDE DEF g
<1>7. Borne(g, searches') BY <1>2, <1>5 DEF Borne, Fits
<1> QED BY <1>1, <1>3, <1>5, <1>6, <1>7, Serves

LEMMA TurnsAway == ASSUME AInv, NEW f \in flight, TurnAway(f) PROVE AInv'
<1> DEFINE g == [f EXCEPT !.got = "401"]
<1>1. Gets(f, g) /\ UNCHANGED <<purview, table, caseId, form, run>>
  BY DEF TurnAway, server, screen, shared
<1>2. Borne(f, searches) BY DEF AInv
<1>3. Grows(searches, searches') BY <1>1, GrowsItself DEF purview
<1>4. Borne(g, searches') /\ g.op = f.op /\ g.id = f.id /\ g.case = f.case
  BY <1>2, <1>3, GotBorne
<1> HIDE DEF g
<1> QED BY <1>1, <1>3, <1>4, Serves DEF AInv, purview

LEMMA Estimated == ASSUME AInv, NEW n \in DOMAIN searches, EstimateDone(n) PROVE AInv'
<1>1. /\ searches' = [searches EXCEPT ![n].at = "complete"]
      /\ UNCHANGED <<exist, flight, table, caseId, form, run>>
  BY DEF EstimateDone, screen, shared
<1>2. searches \in Seq(Entries) /\ DOMAIN searches = 1..Len(searches) BY DEF AInv
<1> DEFINE e == [searches[n] EXCEPT !.at = "complete"]
<1>3. searches[n] \in Entries BY <1>2
<1>4. e \in Entries /\ e.case = searches[n].case /\ e.at = "complete"
  BY <1>3 DEF Entries, How
<1>5. searches' = [searches EXCEPT ![n] = e] BY <1>1
<1> HIDE DEF e
<1>6. searches' \in Seq(Entries) /\ DOMAIN searches' = DOMAIN searches
      /\ \A m \in DOMAIN searches : searches'[m] = IF m = n THEN e ELSE searches[m]
  BY <1>2, <1>4, <1>5
<1>7. Grows(searches, searches') BY <1>4, <1>6 DEF Grows
<1>8. OfOneCase(run', flight', searches') BY <1>1, <1>7, RunKept DEF AInv
<1> QED BY <1>1, <1>6, <1>7, <1>8, AKept DEF AInv

\* Run starts: its requests are all about the case of the page, and no other that
\* is under way has the number of one of them.
LEMMA RunStarts == ASSUME AInv, RunBoth PROVE AInv'
<1> DEFINE new == Lowest(Ids(flight), Cardinality(Kinds))
           asked == {Request(i, "search", "run", caseId, 0) : i \in new}
<1>1. /\ flight' = flight \cup asked
      /\ run' = [waits |-> new, made |-> {}, failed |-> FALSE]
      /\ UNCHANGED <<purview, table, caseId, form>>
  BY DEF RunBoth, server
<1>2. \A f \in flight : f.id \notin new BY DEF Lowest, Ids
<1>3. \A g \in asked : Borne(g, searches) /\ g.case = caseId
  <2>1. \A i \in new : /\ Borne(Request(i, "search", "run", caseId, 0), searches)
                       /\ Request(i, "search", "run", caseId, 0).case = caseId
    BY NewIsBorne DEF AInv, Request
  <2> QED BY <2>1
<1>4. run'.waits = new /\ run'.made = {} BY <1>1
<1> HIDE DEF new, asked
<1>5. OfOneCase(run', flight', searches')
  <2>1. \A f \in flight' : f.op = "search" /\ f.id \in run'.waits => f.case = caseId
    BY <1>1, <1>2, <1>3, <1>4
  <2> QED BY <1>4, <2>1 DEF AInv, OfOneCase
<1>6. Grows(searches, searches') BY <1>1, GrowsItself DEF purview
<1> QED BY <1>1, <1>3, <1>5, <1>6, AKept DEF AInv, purview

\* An outcome of the run: it stays about the one case.
LEMMA RunSettles ==
    ASSUME AInv, NEW f \in flight, f.op = "search", f.id \in run.waits
    PROVE  /\ OfOneCase(Settled(f), flight \ {f}, searches)
           /\ f.got = "ok" =>
                 Fits(f.case, [n \in Settled(f).made |-> "created"], searches)
<1>1. PICK c \in Known :
         /\ \A n \in run.made : n \in DOMAIN searches /\ searches[n].case = c
         /\ \A g \in flight : g.op = "search" /\ g.id \in run.waits => g.case = c
  BY DEF AInv, OfOneCase
<1> DEFINE r == Settled(f)
<1>2. r.waits = run.waits \ {f.id}
      /\ r.made = IF f.got = "ok" THEN run.made \cup {f.n} ELSE run.made
  BY DEF Settled
<1> HIDE DEF r
<1>3. f.case = c /\ (f.got = "ok" => f.n \in DOMAIN searches /\ searches[f.n].case = c)
  BY <1>1 DEF AInv, Borne
<1>4. \A n \in r.made : n \in DOMAIN searches /\ searches[n].case = c BY <1>1, <1>2, <1>3
<1>5. OfOneCase(r, flight \ {f}, searches) BY <1>1, <1>2, <1>4 DEF OfOneCase
<1>6. Fits(c, [n \in r.made |-> "created"], searches) BY <1>4 DEF Fits
<1> QED BY <1>3, <1>5, <1>6 DEF r

LEMMA AnswerKeeps == ASSUME AInv, NEW f \in flight, Answer(f) PROVE AInv'
<1>0. /\ caseId \in Known /\ form \in Known /\ None \in Known /\ f.case \in Known
      /\ flight \ {f} \subseteq flight /\ Borne(f, searches)
      /\ NotRunning.waits = {} /\ NotRunning.made = {}
  BY DEF AInv, Borne, Known, NotRunning
<1>1. CASE ReadAnswered(f)
  <2>1. /\ flight' = flight \ {f} /\ UNCHANGED <<purview, caseId, form, run>>
        /\ table' = [of |-> f.case, rows |-> f.rows]
    BY <1>1 DEF ReadAnswered, server
  <2>2. Fits(table'.of, table'.rows, searches) BY <2>1, <1>0 DEF Borne
  <2> QED BY <2>1, <2>2, <1>0, Hears
<1>2. CASE ReadFailed(f) \/ WriteFailed(f)
  <2>1. flight' = flight \ {f} /\ UNCHANGED <<purview, caseId, form, run, table>>
    BY <1>2 DEF ReadFailed, WriteFailed, server
  <2> QED BY <2>1, <1>0, Hears
<1>3. CASE CreateAnswered(f)
  <2>1. /\ flight' = flight \ {f} /\ UNCHANGED <<purview, run, table>>
        /\ caseId' = f.case /\ form' = f.case
    BY <1>3 DEF CreateAnswered, server, screen
  <2> QED BY <2>1, <1>0, Hears
<1>4. CASE ExportAnswered(f)
  <2>1. /\ flight' = With(flight \ {f}, "read", "export", caseId, 0)
        /\ UNCHANGED <<purview, run, table, caseId, form>>
    BY <1>4 DEF ExportAnswered, Reading, server, screen
  <2> QED BY <2>1, <1>0, Asks
<1>5. CASE ChainAnswered(f)
  <2>1. /\ flight' = flight \ {f} /\ UNCHANGED <<purview, table, caseId, form>>
        /\ f.op = "search"
        /\ UNCHANGED run \/ (f.id \in run.waits /\ run' = Settled(f))
    BY <1>5 DEF ChainAnswered, server, screen
  <2>2. CASE UNCHANGED run BY <2>1, <2>2, <1>0, Hears
  <2>3. CASE f.id \in run.waits /\ run' = Settled(f)
    <3>1. OfOneCase(run', flight', searches') BY <2>1, <2>3, RunSettles DEF purview
    <3>2. Grows(searches, searches') BY <2>1, GrowsItself DEF purview
    <3> QED BY <2>1, <3>1, <3>2, AKept DEF AInv, purview
  <2> QED BY <2>1, <2>2, <2>3
<1>6. CASE RunDone(f)
  <2> DEFINE rows == [n \in Settled(f).made |-> "created"]
  <2>1. /\ f.op = "search" /\ f.got = "ok" /\ f.id \in run.waits
        /\ flight' = With(flight \ {f}, "read", "open", caseId, 0)
        /\ table' = [of |-> f.case, rows |-> rows]
        /\ caseId' = caseId /\ form' = None /\ run' = NotRunning /\ UNCHANGED purview
    BY <1>6 DEF RunDone, OpenCase, Reading, Answered, server
  <2>2. Fits(f.case, rows, searches) BY <2>1, RunSettles
  <2> HIDE DEF rows
  <2>3. Fits(table'.of, table'.rows, searches) BY <2>1, <2>2
  <2> QED BY <2>1, <2>3, <1>0, Asks
<1>7. CASE RunFailed(f)
  <2>1. /\ flight' = flight \ {f} /\ UNCHANGED <<purview, table, caseId, form>>
        /\ run' = NotRunning
    BY <1>7 DEF RunFailed, server
  <2> QED BY <2>1, <1>0, Hears
<1>8. CASE RunLost(f)
  <2>1. /\ flight' = flight \ {f} /\ UNCHANGED <<purview, table, caseId, form>>
        /\ run' = NotRunning \/ UNCHANGED run
    BY <1>8 DEF RunLost, GivesUp, server, screen
  <2> QED BY <2>1, <1>0, Hears
<1>9. CASE Unauthorized(f)
  <2>1. /\ flight' = flight \ {f} /\ UNCHANGED purview
        /\ caseId' = None /\ form' = None /\ table' = NoRows
        /\ run' = NotRunning \/ UNCHANGED run
    BY <1>9 DEF Unauthorized, SignedOut, GivesUp, server
  <2> QED BY <2>1, <1>0, NoRowsFit, Hears
<1> QED BY <1>1, <1>2, <1>3, <1>4, <1>5, <1>6, <1>7, <1>8, <1>9 DEF Answer

LEMMA AStep == AInv /\ [Next]_vars => AInv'
<1> SUFFICES ASSUME AInv, [Next]_vars PROVE AInv' OBVIOUS
<1>0. caseId \in Known /\ form \in Known /\ None \in Known /\ exist \subseteq Cases
  BY DEF AInv, Known
<1>1. ASSUME flight' = flight, UNCHANGED <<purview, table, caseId, form, run>> PROVE AInv'
  BY <1>1, <1>0, Hears
<1>2. ASSUME NEW v, Leave(v) PROVE AInv' BY <1>1, <1>2 DEF Leave, server, shared
<1>3. ASSUME NEW c \in Cases, Open(c) PROVE AInv'
  <2>1. /\ flight' = With(flight, "read", "open", c, 0) /\ table' = NoRows
        /\ caseId' = c /\ UNCHANGED <<purview, form, run>>
    BY <1>3 DEF Open, OpenCase, Reading, server
  <2> QED BY <2>1, <1>0, NoRowsFit, Asks DEF Known
<1>4. CASE Refresh
  <2>1. flight' = With(flight, "read", "button", caseId, 0)
        /\ UNCHANGED <<purview, table, caseId, form, run>>
    BY <1>4 DEF Refresh, Reading, server, screen
  <2> QED BY <2>1, <1>0, Asks
<1>5. CASE CreateCase
  <2>1. flight' = With(flight, "create", "create", None, 0)
        /\ UNCHANGED <<purview, table, caseId, form, run>>
    BY <1>5 DEF CreateCase, server
  <2> QED BY <2>1, <1>0, Asks
<1>6. CASE RunBoth BY <1>6, RunStarts
<1>7. ASSUME NEW n, Export(n) PROVE AInv'
  <2>1. flight' = With(flight, "export", "export", caseId, n)
        /\ UNCHANGED <<purview, table, caseId, form, run>>
    BY <1>7 DEF Export, server, shared
  <2> QED BY <2>1, <1>0, Asks
<1>8. CASE SignOut
  <2>1. /\ flight' = flight /\ UNCHANGED <<purview, run>> /\ caseId' = None /\ form' = None
        /\ table' = NoRows
    BY <1>8 DEF SignOut, SignedOut
  <2> QED BY <2>1, <1>0, NoRowsFit, Hears
<1>9. ASSUME NEW t, PollFires(t) PROVE AInv'
  <2>1. flight' = With(flight, "read", "poll", caseId, 0)
        /\ UNCHANGED <<purview, table, caseId, form, run>>
    BY <1>9 DEF PollFires, Reading, server, shared
  <2> QED BY <2>1, <1>0, Asks
<1>10. CASE Tick BY <1>1, <1>10 DEF Tick, server, shared
<1>11. ASSUME NEW f \in flight, ServerStep(f) PROVE AInv'
  <2>1. CASE Serve(f)
    BY <2>1, ServesRead, ServesCreate, ServesSearch, ServesExport DEF Serve
  <2> QED BY <1>11, <2>1, ReadsStatistics, TurnsAway, ServingFails DEF ServerStep
<1>12. ASSUME NEW f \in flight, Answer(f) PROVE AInv' BY <1>12, AnswerKeeps
<1>13. ASSUME NEW n \in DOMAIN searches, EstimateDone(n) PROVE AInv' BY <1>13, Estimated
<1>14. CASE UNCHANGED vars BY <1>1, <1>14 DEF vars, server, screen, shared
<1> QED BY <1>2, <1>3, <1>4, <1>5, <1>6, <1>7, <1>8, <1>9, <1>10, <1>11, <1>12, <1>13, <1>14
        DEF Next, Operator

LEMMA AInitially == Init => AInv
<1> SUFFICES ASSUME Init PROVE AInv OBVIOUS
<1>1. /\ searches = <<>> /\ exist = Listed /\ flight = {} /\ caseId = None /\ form = None
      /\ table = NoRows /\ run = NotRunning
  BY DEF Init
<1>2. searches \in Seq(Entries) BY <1>1
<1>3. OfOneCase(run, flight, searches) BY <1>1 DEF OfOneCase, NotRunning, Known
<1> QED BY <1>1, <1>2, <1>3, NoRowsFit, CasePageAssumption DEF AInv, Known

\* For any number of cases, searches and requests under way, served and answered
\* in any order, some of them failing: the table lists searches of the case it was
\* read for, and calls complete, and so offers to export, only what Purview has
\* completed (app.js refreshCase 1409-1496).
THEOREM TableNeverAhead == Spec => []NeverAhead
<1>1. AInv => NeverAhead BY DEF AInv, Fits, NeverAhead
<1> QED BY <1>1, AInitially, AStep, PTL DEF Spec

-------------------------------------------------------------------------------
(* What still runs is read again.                                          *)

\* A read that has failed has used up a fault; one that follows an export does
\* not set a poll, and comes when something has been exported.
Sound(f) ==
    f.op = "read" =>
        /\ f.got \in {"error", "lost"} => faults > 0
        /\ f.from = "export" => exported # {} \/ out

Timed == timers = [pending |-> timers.pending, poll |-> timers.poll]

Watched == timers.pending # {} \/ \E f \in flight : f.op = "read"

WInv ==
    /\ faults \in Nat
    /\ Timed
    /\ \A f \in flight : Sound(f)
    /\ StillWatched

\* The page sends one more request, of which it knows what it is for.
LEMMA WAsks ==
    ASSUME WInv, NEW left \in SUBSET flight, NEW op, NEW from, NEW c, NEW n,
           flight' = With(left, op, from, c, n),
           op = "read" => from # "export" \/ exported' # {} \/ out',
           faults' \in Nat, faults' >= faults, Timed',
           exported \subseteq exported', out' = out,
           \/ op = "read"
           \/ left = flight /\ UNCHANGED <<view, table, timers>>
    PROVE  WInv'
<1>0. PICK new : new = Request(Unused(Ids(left)), op, from, c, n) OBVIOUS
<1>1. flight' = left \cup {new} BY <1>0 DEF With
<1>2. new.op = op /\ new.from = from /\ new.got = "nothing" BY <1>0 DEF Request
<1>3. \A f \in flight' : Sound(f)'
  <2>1. Sound(new)' BY <1>2 DEF Sound
  <2>2. \A f \in flight : Sound(f)' BY DEF WInv, Sound
  <2> QED BY <1>1, <2>1, <2>2
<1>4. StillWatched' BY <1>1, <1>2 DEF WInv, StillWatched
<1> QED BY <1>3, <1>4 DEF WInv

\* Nothing is sent, and no read answered.
LEMMA WHears ==
    ASSUME WInv, flight' \subseteq flight, \A f \in flight \ flight' : f.op # "read",
           faults' \in Nat, faults' >= faults, Timed',
           exported \subseteq exported' \/ out', out => out',
           out' \/ view' # "case" \/ (view' = view /\ UNCHANGED <<table, timers>>)
    PROVE  WInv'
<1>1. \A f \in flight' : Sound(f)' BY DEF WInv, Sound
<1>2. StillWatched' BY DEF WInv, StillWatched
<1> QED BY <1>1, <1>2 DEF WInv

\* The server goes on with a request.
LEMMA WServes ==
    ASSUME WInv, NEW f \in flight, NEW g, Gets(f, g), g.op = f.op, g.from = f.from,
           f.op = "read" /\ g.got \in {"error", "lost"} => faults' > 0,
           faults' \in Nat, faults' >= faults, UNCHANGED <<out, view, table, timers, exported>>
    PROVE  WInv'
<1>1. flight' = (flight \ {f}) \cup {g} BY DEF Gets
<1>2. \A h \in flight' : Sound(h)'
  <2>1. Sound(g)' BY DEF WInv, Sound
  <2>2. \A h \in flight : Sound(h)' BY DEF WInv, Sound
  <2> QED BY <1>1, <2>1, <2>2
<1>3. StillWatched' BY <1>1 DEF WInv, StillWatched
<1> QED BY <1>2, <1>3 DEF WInv, Timed

LEMMA ServerWatches ==
    ASSUME AInv, WInv, NEW f \in flight, ServerStep(f)
    PROVE  WInv'
<1>0. Borne(f, searches) /\ IsRequest(f) /\ faults \in Nat BY DEF AInv, WInv, Borne
<1>1. CASE Serve(f)
  <2>0. UNCHANGED <<faults, out, view, table, timers, exported>>
    BY <1>1 DEF Serve, screen, shared
  <2>1. CASE ServeRead(f)
    <3> DEFINE rows == RowsOf(f.case)
               g == ReadOn([f EXCEPT !.rows = rows])
    <3>1. f.op = "read" /\ Gets(f, g) BY <2>1 DEF ServeRead
    <3>2. Fits(f.case, rows, searches) BY DEF Fits, RowsOf
    <3> HIDE DEF rows
    <3>3. g.op = f.op /\ g.from = f.from /\ g.got \in {"ok", "listed"}
      BY <1>0, <3>1, <3>2, RowsBorne
    <3> HIDE DEF g
    <3> QED BY <1>0, <2>0, <3>1, <3>3, WServes
  <2>2. CASE ServeCreate(f)
    <3>1. PICK c \in Cases \ exist : Gets(f, [f EXCEPT !.got = "ok", !.case = c])
      BY <2>2 DEF ServeCreate
    <3> DEFINE h == [f EXCEPT !.got = "ok"]
               g == [h EXCEPT !.case = c]
    <3>2. Gets(f, g) BY <3>1
    <3>3. IsRequest(h) /\ h.op = f.op /\ h.from = f.from BY <1>0, NewGot
    <3> HIDE DEF h
    <3>4. g.op = f.op /\ g.from = f.from BY <3>3, NewCase
    <3> HIDE DEF g
    <3> QED BY <1>0, <2>0, <2>2, <3>2, <3>4, WServes DEF ServeCreate
  <2>3. CASE ServeSearch(f)
    <3> DEFINE h == [f EXCEPT !.got = "ok"]
               g == [h EXCEPT !.n = Len(searches) + 1]
    <3>1. Gets(f, g) BY <2>3 DEF ServeSearch
    <3>2. IsRequest(h) /\ h.op = f.op /\ h.from = f.from BY <1>0, NewGot
    <3> HIDE DEF h
    <3>3. g.op = f.op /\ g.from = f.from BY <3>2, NewN
    <3> HIDE DEF g
    <3> QED BY <1>0, <2>0, <2>3, <3>1, <3>3, WServes DEF ServeSearch
  <2>4. CASE ServeExport(f)
    <3> DEFINE got == IF searches[f.n].case = f.case THEN "ok" ELSE "error"
               g == [f EXCEPT !.got = got]
    <3>1. Gets(f, g) BY <2>4 DEF ServeExport
    <3> HIDE DEF got
    <3>2. g.op = f.op /\ g.from = f.from BY <1>0, NewGot
    <3> HIDE DEF g
    <3> QED BY <1>0, <2>0, <2>4, <3>1, <3>2, WServes DEF ServeExport
  <2> QED BY <1>1, <2>1, <2>2, <2>3, <2>4 DEF Serve
<1>2. CASE ReadStatistics(f)
  <2> DEFINE n == Min(Unread(f))
             rows == [f.rows EXCEPT ![n] = searches[n].at]
             g == ReadOn([f EXCEPT !.rows = rows])
  <2>1. [f EXCEPT !.rows[n] = searches[n].at] = [f EXCEPT !.rows = rows] OBVIOUS
  <2>2. Gets(f, g) /\ UNCHANGED <<faults, out, view, table, timers, exported>>
    BY <1>2, <2>1 DEF ReadStatistics, server, screen, shared
  <2>3. f.op = "read" BY <1>0, <1>2 DEF Borne, ReadStatistics
  <2> HIDE DEF n
  <2>4. Fits(f.case, rows, searches) BY <1>0 DEF Borne, Fits
  <2> HIDE DEF rows
  <2>5. g.op = f.op /\ g.from = f.from /\ g.got \in {"ok", "listed"}
    BY <1>0, <2>3, <2>4, RowsBorne
  <2> HIDE DEF g
  <2> QED BY <1>0, <2>2, <2>5, WServes
<1>3. CASE TurnAway(f)
  <2> DEFINE g == [f EXCEPT !.got = "401"]
  <2>1. Gets(f, g) /\ UNCHANGED <<faults, out, view, table, timers, exported>>
    BY <1>3 DEF TurnAway, server, screen, shared
  <2>2. g.op = f.op /\ g.from = f.from /\ g.got = "401" BY <1>0, NewGot
  <2> HIDE DEF g
  <2> QED BY <1>0, <2>1, <2>2, WServes
<1>4. CASE ServeFails(f)
  <2>1. PICK got \in {"error", "lost"} : Gets(f, [f EXCEPT !.got = got, !.rows = <<>>])
    BY <1>4 DEF ServeFails
  <2> DEFINE h == [f EXCEPT !.got = got]
             g == [h EXCEPT !.rows = <<>>]
  <2>2. Gets(f, g) BY <2>1
  <2>3. IsRequest(h) /\ h.op = f.op /\ h.from = f.from BY <1>0, NewGot
  <2> HIDE DEF h
  <2>4. g.op = f.op /\ g.from = f.from BY <2>3, NewRows
  <2> HIDE DEF g
  <2>5. faults' = faults + 1 /\ UNCHANGED <<out, view, table, timers, exported>>
    BY <1>4 DEF ServeFails, screen, shared
  <2> QED BY <1>0, <2>2, <2>4, <2>5, WServes
<1> QED BY <1>1, <1>2, <1>3, <1>4 DEF ServerStep

LEMMA PollSet == Scheduled.pending # {} /\ Scheduled = [pending |-> Scheduled.pending,
                                                       poll |-> Scheduled.poll]
BY DEF Scheduled

LEMMA AnswerWatches ==
    ASSUME AInv, WInv, NEW f \in flight, Answer(f)
    PROVE  WInv'
<1>0. /\ faults \in Nat /\ Timed /\ Sound(f) /\ flight \ {f} \subseteq flight
      /\ flight \ (flight \ {f}) = {f}
  BY DEF WInv
<1>1. CASE ReadAnswered(f)
  <2> DEFINE here == view = "case"
             waiting == Incomplete(f.rows)
  <2>1. /\ flight' = flight \ {f} /\ table' = [of |-> f.case, rows |-> f.rows]
        /\ GoOn(f, ~here \/ (~waiting /\ f.rows # <<>>)) /\ f.op = "read"
        /\ UNCHANGED <<faults, out, view, exported>>
    BY <1>1 DEF ReadAnswered, server
  <2>2. Timed' BY <1>0, <2>1, PollSet DEF GoOn, Timed
  <2>3. \A h \in flight' : Sound(h)' BY <2>1 DEF WInv, Sound
  <2>4. StillWatched'
    <3> SUFFICES ASSUME here, ~out, waiting, exported = {}
                 PROVE  timers'.pending # {}
      BY <2>1 DEF StillWatched
    <3>1. f.from # "export" BY <1>0, <2>1 DEF Sound
    <3>2. timers' = Scheduled BY <2>1, <3>1 DEF GoOn
    <3> QED BY <3>2, PollSet
  <2> QED BY <1>0, <2>1, <2>2, <2>3, <2>4 DEF WInv
<1>2. CASE ReadFailed(f)
  <2>1. /\ flight' = flight \ {f} /\ GoOn(f, TRUE) /\ f.op = "read" /\ Failed(f)
        /\ UNCHANGED <<faults, out, view, table, exported>>
    BY <1>2 DEF ReadFailed, server
  <2>2. Timed' BY <1>0, <2>1 DEF GoOn, Timed
  <2>3. \A h \in flight' : Sound(h)' BY <2>1 DEF WInv, Sound
  <2>4. faults > 0 BY <1>0, <2>1 DEF Sound, Failed, Answered
  <2>5. StillWatched' BY <1>0, <2>1, <2>4 DEF StillWatched
  <2> QED BY <1>0, <2>1, <2>2, <2>3, <2>5 DEF WInv
<1>3. CASE CreateAnswered(f) \/ WriteFailed(f) \/ ChainAnswered(f) \/ RunFailed(f) \/ RunLost(f)
  <2>1. /\ flight' = flight \ {f} /\ f.op # "read"
        /\ UNCHANGED <<faults, out, view, table, timers, exported>>
    BY <1>3 DEF CreateAnswered, WriteFailed, ChainAnswered, RunFailed, RunLost, server, screen
  <2> QED BY <1>0, <2>1, WHears DEF Timed
<1>4. CASE ExportAnswered(f)
  <2>1. /\ flight' = With(flight \ {f}, "read", "export", caseId, 0)
        /\ exported' = exported \cup {f.n} /\ UNCHANGED <<faults, out, timers>>
    BY <1>4 DEF ExportAnswered, Reading, server, screen
  <2>2. exported' # {} /\ exported \subseteq exported' BY <2>1
  <2> QED BY <1>0, <2>1, <2>2, WAsks DEF Timed
<1>5. CASE RunDone(f)
  <2>1. /\ flight' = With(flight \ {f}, "read", "open", caseId, 0)
        /\ UNCHANGED <<faults, out, timers, exported>>
    BY <1>5 DEF RunDone, OpenCase, Reading, server
  <2> QED BY <1>0, <2>1, WAsks DEF Timed
<1>6. CASE Unauthorized(f)
  <2>1. flight' = flight \ {f} /\ out' = TRUE /\ timers' = Cleared /\ faults' = faults
    BY <1>6 DEF Unauthorized, SignedOut, server
  <2>2. Timed' BY <2>1 DEF Timed, Cleared
  <2>3. \A h \in flight' : Sound(h)' BY <2>1 DEF WInv, Sound
  <2>4. StillWatched' BY <2>1 DEF StillWatched
  <2> QED BY <1>0, <2>1, <2>2, <2>3, <2>4 DEF WInv
<1> QED BY <1>1, <1>2, <1>3, <1>4, <1>5, <1>6 DEF Answer

LEMMA WStep == AInv /\ WInv /\ [Next]_vars => WInv'
<1> SUFFICES ASSUME AInv, WInv, [Next]_vars PROVE WInv' OBVIOUS
<1>0. faults \in Nat /\ Timed BY DEF WInv
<1>1. ASSUME UNCHANGED <<flight, faults, out, view, table, timers, exported>> PROVE WInv'
  BY <1>0, <1>1, WHears DEF Timed
<1>2. ASSUME NEW v \in {"requests", "form"}, Leave(v) PROVE WInv'
  <2>1. /\ flight' = flight /\ UNCHANGED <<faults, out, table, exported>>
        /\ view' # "case" /\ timers' = Cleared
    BY <1>2 DEF Leave, ShowView, server, shared
  <2>2. Timed' BY <2>1 DEF Timed, Cleared
  <2> QED BY <1>0, <2>1, <2>2, WHears
<1>3. ASSUME NEW c \in Cases, Open(c) PROVE WInv'
  <2>1. /\ flight' = With(flight, "read", "open", c, 0)
        /\ UNCHANGED <<faults, out, timers, exported>>
    BY <1>3 DEF Open, OpenCase, Reading, server
  <2> QED BY <1>0, <2>1, WAsks DEF Timed
<1>4. CASE Refresh
  <2>1. /\ flight' = With(flight, "read", "button", caseId, 0)
        /\ UNCHANGED <<faults, out, timers, exported>>
    BY <1>4 DEF Refresh, Reading, server, screen
  <2> QED BY <1>0, <2>1, WAsks DEF Timed
<1>5. CASE CreateCase
  <2>1. /\ flight' = With(flight, "create", "create", None, 0)
        /\ UNCHANGED <<faults, out, view, table, timers, exported>>
    BY <1>5 DEF CreateCase, server
  <2> QED BY <1>0, <2>1, WAsks DEF Timed
<1>6. CASE RunBoth
  <2> DEFINE new == {Request(i, "search", "run", caseId, 0) :
                        i \in Lowest(Ids(flight), Cardinality(Kinds))}
  <2>1. /\ flight' = flight \cup new
        /\ UNCHANGED <<faults, out, view, table, timers, exported>>
    BY <1>6 DEF RunBoth, server
  <2>2. \A g \in new : g.op = "search" BY DEF Request
  <2> HIDE DEF new
  <2>3. \A h \in flight' : Sound(h)' BY <2>1, <2>2 DEF WInv, Sound
  <2>4. StillWatched' BY <2>1 DEF WInv, StillWatched
  <2> QED BY <1>0, <2>1, <2>3, <2>4 DEF WInv, Timed
<1>7. ASSUME NEW n, Export(n) PROVE WInv'
  <2>1. /\ flight' = With(flight, "export", "export", caseId, n)
        /\ UNCHANGED <<faults, out, view, table, timers, exported>>
    BY <1>7 DEF Export, server, shared
  <2> QED BY <1>0, <2>1, WAsks DEF Timed
<1>8. CASE SignOut
  <2>1. flight' = flight /\ out' = TRUE /\ timers' = Cleared /\ faults' = faults
    BY <1>8 DEF SignOut, SignedOut
  <2>2. Timed' BY <2>1 DEF Timed, Cleared
  <2> QED BY <1>0, <2>1, <2>2, WHears
<1>9. ASSUME NEW t, PollFires(t) PROVE WInv'
  <2>1. /\ flight' = With(flight, "read", "poll", caseId, 0)
        /\ UNCHANGED <<faults, out, exported>>
        /\ timers' = [pending |-> timers.pending \ {t},
                      poll |-> IF timers.poll = t THEN 0 ELSE timers.poll]
    BY <1>9 DEF PollFires, Reading, server, shared
  <2>2. Timed' BY <2>1 DEF Timed
  <2> QED BY <1>0, <2>1, <2>2, WAsks
<1>10. CASE Tick BY <1>1, <1>10 DEF Tick, server, shared
<1>11. ASSUME NEW f \in flight, ServerStep(f) \/ Answer(f) PROVE WInv'
  BY <1>11, ServerWatches, AnswerWatches
<1>12. ASSUME NEW n, EstimateDone(n) PROVE WInv' BY <1>1, <1>12 DEF EstimateDone, screen, shared
<1>13. CASE UNCHANGED vars BY <1>1, <1>13 DEF vars, server, screen, shared
<1> QED BY <1>2, <1>3, <1>4, <1>5, <1>6, <1>7, <1>8, <1>9, <1>10, <1>11, <1>12, <1>13
        DEF Next, Operator

\* For any number of cases, requests under way and timers, some of which
\* state.pollTimer has lost: while no request has failed and nothing was exported,
\* a case view that shows something running will be read again (app.js
\* schedulePoll 1215-1228).
THEOREM RunningIsWatched == Spec => []StillWatched
<1>1. Init => AInv BY AInitially
<1>2. Init => WInv
  BY DEF Init, WInv, Timed, StillWatched
<1>3. WInv => StillWatched BY DEF WInv
<1> QED BY <1>1, <1>2, <1>3, AStep, WStep, PTL DEF Spec
===============================================================================
