-------------------------------- MODULE Evidence --------------------------------
(***************************************************************************)
(* The evidence pack of one case: the records that concurrent handlers     *)
(* leave in the trail (cases/workflow.py), the verifier that reads the     *)
(* trail back line by line (audit/verify.py), and the pack assembled from  *)
(* it (audit/evidence.py), which is shown only when the chain verifies     *)
(* (audit/report.py run_evidence).                                         *)
(*                                                                         *)
(* Data abstracted: a record is what it is about, its number in the trail  *)
(* standing for its seq, its time and its hash (AuditTrail.tla and         *)
(* LocalTrail.tla are about the writing).  Cases and searches are known by *)
(* the number Purview gave them, 0 standing for none; who acted, the       *)
(* pseudonym of the subject and the note beside a name are left out.       *)
(***************************************************************************)
EXTENDS Naturals, Sequences, FiniteSets

CONSTANTS
    References,     \* what operators call their cases
    Names,          \* what searches are called
    MaxOps, MaxOpen, MaxOther, MaxRead  \* bounds: operations, those under way
                    \* at once, records of one step, records of a trail read back

ASSUME EvidenceAssumption == {MaxOps, MaxOpen, MaxOther, MaxRead} \subseteq Nat

VARIABLES
    trail,      \* the records, in order
    open,       \* operations under way
    made,       \* the cases and searches of Purview, by their number
    started,    \* the exports Purview has started: of which search, and how long
                \* the trail was when each was asked for
    overlapped, \* history: two creations of one name in one case at once
    spent,      \* bounds used up
    seen,       \* the lines the verifier has read
    intact      \* it has found no break

writing == <<trail, open, made, started, overlapped, spent>>
reading == <<seen, intact>>
vars == <<writing, reading>>

Record(act, out, case, target, detail) ==
    [act |-> act, out |-> out, case |-> case, target |-> target, detail |-> detail]

Creations == {"case", "search"}
CaseActions == {"case", "expand", "template", "search", "estimate", "export"}

Made(act) == {i \in DOMAIN made : made[i].act = act}

-------------------------------------------------------------------------------
(* Writing.                                                                *)

Resting == seen = <<>>

Spend(c, max) == spent[c] < max /\ spent' = [spent EXCEPT ![c] = @ + 1]

Writes(r) == trail' = Append(trail, r)

\* _require_write: a reader is refused, and that is recorded with the case,
\* which a creation does not have yet; of the others, a search stands for all.
Denied(act, c) ==
    /\ Resting
    /\ (act = "case") = (c = 0)
    /\ Spend("other", MaxOther)
    /\ Writes(Record(act, "denied", c, 0, "description"))
    /\ UNCHANGED <<open, made, started, overlapped, reading>>

\* What is recorded once and after the fact: an expansion or a template (one
\* stands for both), with the case if the page has one, and a sign-in.
Notes(act, c) ==
    /\ Resting
    /\ act = "sign_in" => c = 0
    /\ Spend("other", MaxOther)
    /\ Writes(Record(act, "ok", c, 0, "note"))
    /\ UNCHANGED <<open, made, started, overlapped, reading>>

\* run_estimate, answered.
Estimates(s) ==
    /\ Resting
    /\ Spend("other", MaxOther)
    /\ Writes(Record("estimate", "ok", made[s].case, s, ""))
    /\ UNCHANGED <<open, made, started, overlapped, reading>>

\* A slip: an export is recorded when it has been answered, and not before.
BeginsUnrecorded(act, c, target, detail) ==
    LET op == [act |-> act, case |-> c, target |-> target, detail |-> detail,
               n |-> Len(trail) + 1, at |-> "asked"]
    IN  /\ Resting
        /\ Cardinality(open) < MaxOpen
        /\ Spend("ops", MaxOps)
        /\ open' = open \cup {op}
        /\ UNCHANGED <<trail, made, started, overlapped, reading>>

\* create_case, create_search and initiate_export begin: the attempt is in the
\* trail before anything goes out.
Begins(act, c, target, detail) ==
    LET op == [act |-> act, case |-> c, target |-> target, detail |-> detail,
               n |-> Len(trail) + 1, at |-> "asked"]
        twin(o) == o.act = "search" /\ o.case = c /\ o.detail = detail
    IN  /\ Resting
        /\ Cardinality(open) < MaxOpen
        /\ Spend("ops", MaxOps)
        /\ Writes(Record(act, "attempted", c, target, detail))
        /\ open' = open \cup {op}
        /\ overlapped' = (overlapped \/ (act = "search" /\ \E o \in open : twin(o)))
        /\ UNCHANGED <<made, started, reading>>

BeginsExport(s) == Begins("export", made[s].case, s, "name")

\* Purview does it.
Done(o) ==
    LET case == IF o.act = "case" THEN Len(made) + 1 ELSE o.case IN
    /\ Resting /\ o.at = "asked"
    /\ IF o.act \in Creations
       THEN /\ made' = Append(made, [act |-> o.act, case |-> case, detail |-> o.detail])
            /\ UNCHANGED started
       ELSE started' = started \cup {[search |-> o.target, n |-> o.n]} /\ UNCHANGED made
    /\ open' = (open \ {o}) \cup
          {[o EXCEPT !.at = "done", !.case = case,
                     !.target = IF o.act \in Creations THEN Len(made) + 1 ELSE @]}
    /\ UNCHANGED <<trail, overlapped, spent, reading>>

\* The answer is recorded.
Answered(o) ==
    /\ Resting /\ o.at = "done"
    /\ Writes(Record(o.act, "ok", o.case, o.target, o.detail))
    /\ open' = open \ {o}
    /\ UNCHANGED <<made, started, overlapped, spent, reading>>

\* An error, an answer lost, or the end of the process: nothing more is
\* recorded, whether or not Purview has done it.
Breaks(o) ==
    /\ Resting
    /\ open' = open \ {o}
    /\ UNCHANGED <<trail, made, started, overlapped, spent, reading>>

-------------------------------------------------------------------------------
(* Reading the trail back.                                                 *)

Previous == IF seen = <<>> THEN [seq |-> 0, hash |-> 0] ELSE seen[Len(seen)]

\* A line of the file that is read is record i as it was written, or one with
\* something of it changed and its hash left as it was.
Kept == {[seq |-> i, prev |-> i - 1, hash |-> i, sound |-> TRUE] : i \in DOMAIN trail}
Edited == {[seq |-> Len(seen) + 1, prev |-> Previous.hash, hash |-> i, sound |-> FALSE] :
              i \in DOMAIN trail}

\* Or a record made up or rewritten, and hashed anew: the hash has no key
\* (record.py:118), so whoever edits the file computes one that is right
\* (test_audit.py:99).  It is not that of any record written: SHA-256 has no
\* collisions here.
Forged == {[seq |-> Len(seen) + 1, prev |-> Previous.hash,
            hash |-> Len(trail) + Len(seen) + 1, sound |-> TRUE]}

Lines == Kept \cup Edited \cup Forged

\* A slip: a record need not name the one before it.
FitsUnlinked(line) ==
    /\ line.sound
    /\ line.seq = Previous.seq + 1

\* verify_chain finds no break at this line.
Fits(line) ==
    /\ line.prev = Previous.hash
    /\ line.sound
    /\ line.seq = Previous.seq + 1

\* One turn of the loop.  Which lines the file holds is anyone's guess: lines
\* may be missing, moved, repeated, changed or rewritten.  After a break the rest of the
\* file changes nothing; the writers are at rest meanwhile, the trail is not
\* longer than MaxRead, nor the file than the trail by more than a line (bounds).
ReadLine ==
    /\ open = {} /\ intact
    /\ Len(trail) <= MaxRead /\ Len(seen) <= Len(trail)
    /\ \E line \in Lines :
          /\ seen' = Append(seen, line)
          /\ intact' = Fits(line)
    /\ UNCHANGED writing

-------------------------------------------------------------------------------
(* The pack (build_evidence), of the records of trail t.                   *)

Of(t, act, out) == {i \in DOMAIN t : t[i].act = act /\ t[i].out = out}
About(t, c) == {i \in DOMAIN t : t[i].case = c}

Earliest(S) == CHOOSE i \in S : \A j \in S : i <= j

\* A slip: the attempt of the creation is not looked for.
EventsWithCase(t, c) == About(t, c)

\* The records of case c, and the attempts at a case of its reference.
Events(t, c) ==
    LET created == About(t, c) \cap Of(t, "case", "ok")
        reference == t[Earliest(created)].detail
    IN  About(t, c) \cup
          IF created = {} THEN {}
          ELSE {i \in Of(t, "case", "attempted") : t[i].detail = reference}

Unattributable(t, c) ==
    {i \in DOMAIN t : t[i].case = 0 /\ t[i].act \in CaseActions}
      \ (Events(t, c) \cup Of(t, "case", "attempted"))

\* A search of the pack; ids are the searches it has been entered for.
Row(name, attempted) ==
    [name |-> name, id |-> 0, ids |-> {}, created |-> 0, estimate |-> 0,
     export |-> 0, attempted |-> attempted]

Named(rows, name) == {k \in DOMAIN rows : rows[k].name = name}

\* A slip: one row per name, whatever is attempted anew.
EntersAttemptOnce(rows, name) ==
    IF Named(rows, name) = {} THEN Append(rows, Row(name, TRUE)) ELSE rows

EntersAttempt(rows, name) == Append(rows, Row(name, TRUE))

\* The row that was started last for the name takes the search.
EntersCreation(rows, r, i) ==
    LET all == IF Named(rows, r.detail) = {} THEN Append(rows, Row(r.detail, FALSE)) ELSE rows
        last == CHOOSE k \in Named(all, r.detail) : \A j \in Named(all, r.detail) : j <= k
    IN  [all EXCEPT ![last].id = r.target, ![last].created = i,
                    ![last].ids = @ \cup {r.target}]

Stamps(rows, r, i, column) ==
    [k \in DOMAIN rows |-> IF r.target \in rows[k].ids
                           THEN [rows[k] EXCEPT ![column] = i] ELSE rows[k]]

Enters(rows, r, i) ==
    CASE r.out = "denied" -> rows
      [] r.out # "denied" /\ r.act = "search" ->
            IF r.out = "attempted" THEN EntersAttempt(rows, r.detail)
            ELSE EntersCreation(rows, r, i)
      [] r.out # "denied" /\ r.act \in {"estimate", "export"} -> Stamps(rows, r, i, r.act)
      [] OTHER -> rows

Searches(t, c) ==
    LET events == Events(t, c)
        rows[n \in 0..Len(t)] ==
            IF n = 0 THEN <<>>
            ELSE IF n \in events THEN Enters(rows[n - 1], t[n], n) ELSE rows[n - 1]
    IN  rows[Len(t)]

Incomplete(row) == row.attempted /\ row.created = 0

-------------------------------------------------------------------------------
Init ==
    /\ trail = <<>> /\ open = {} /\ made = <<>> /\ started = {}
    /\ overlapped = FALSE
    /\ spent = [c \in {"ops", "other"} |-> 0]
    /\ seen = <<>> /\ intact = TRUE

Next ==
    \/ \E act \in {"case", "search"}, c \in {0} \cup Made("case") : Denied(act, c)
    \/ \E act \in {"sign_in", "template"}, c \in {0} \cup Made("case") : Notes(act, c)
    \/ \E r \in References : Begins("case", 0, 0, r)
    \/ \E c \in Made("case"), name \in Names : Begins("search", c, c, name)
    \/ \E s \in Made("search") : Estimates(s) \/ BeginsExport(s)
    \/ \E o \in open : Done(o) \/ Answered(o) \/ Breaks(o)
    \/ ReadLine

Spec == Init /\ [][Next]_vars

-------------------------------------------------------------------------------
\* As long as the verifier finds no break, a line that is as it was written is
\* at its place and has before it, unchanged, every record written before it and
\* nothing else (verify.py:58; test_audit.py:100 "They cannot make the NEXT
\* record's prev_hash point at it without rewriting everything after").  So a
\* record that was changed, dropped, moved or put in is found, unless all that
\* follow it in the file were rewritten as well, or are missing: neither is seen.
KeptLinesVouch ==
    intact => \A k \in DOMAIN seen :
        /\ seen[k].sound
        /\ seen[k].hash \in DOMAIN trail =>
              \A j \in 1..seen[k].hash : k = seen[k].hash /\ seen[j].hash = j

\* Unless two creations of one name in one case overlapped, the rows of a pack
\* are the attempts of the case: one for each, complete when it succeeded, with
\* the search it made, the time of that, and of its last export, which is later
\* (evidence.py:180 "a fresh attempt always starts a new search").
RowsTell ==
    Resting /\ ~overlapped => \A c \in Made("case") :
        LET rows == Searches(trail, c)
            attempts == About(trail, c) \cap Of(trail, "search", "attempted")
            answers == About(trail, c) \cap Of(trail, "search", "ok")
        IN  /\ Len(rows) = Cardinality(attempts)
            /\ Cardinality({k \in DOMAIN rows : ~Incomplete(rows[k])}) = Cardinality(answers)
            /\ \A i \in answers : \E k \in DOMAIN rows :
                  /\ rows[k].id = trail[i].target /\ rows[k].created = i
                  /\ rows[k].name = trail[i].detail
                  /\ rows[k].export # 0 =>
                        /\ rows[k].export > i
                        /\ trail[rows[k].export].act = "export"
                        /\ trail[rows[k].export].target = rows[k].id

\* No export that Purview has started is missing from the pack, even one whose
\* answer or whose record was lost, provided that it was asked for after the
\* creation of its search was recorded (workflow.py:380).  An attempt that failed
\* shows as an export as well.
ExportsAreShown ==
    Resting /\ ~overlapped => \A e \in started :
        (\E i \in Of(trail, "search", "ok") : trail[i].target = e.search /\ i < e.n) =>
            LET rows == Searches(trail, made[e.search].case)
            IN  \E k \in DOMAIN rows : rows[k].id = e.search /\ rows[k].export # 0

\* Every record about a case is accounted for: it is an event of the pack of
\* its case, the attempt of that case's recorded creation included, or, when it
\* names no case, it is counted in the packs, but for an attempt at a creation
\* (evidence.py:150).  No pack holds a record of another case, but for attempts
\* at a case of its reference.
Accounted ==
    \A c \in Made("case") :
        /\ \A i \in DOMAIN trail : trail[i].case = c => i \in Events(trail, c)
        /\ \A i \in Of(trail, "case", "ok") : trail[i].case = c =>
              \E j \in Of(trail, "case", "attempted") \cap Events(trail, c) :
                  j < i /\ trail[j].detail = trail[i].detail
        /\ \A i \in Events(trail, c) :
              trail[i].case = c \/ trail[i].detail = made[c].detail
        /\ Unattributable(trail, c) =
              {i \in DOMAIN trail : /\ trail[i].case = 0
                                    /\ trail[i].act \in CaseActions
                                    /\ trail[i].out # "attempted"}
===============================================================================
