--------------------------------- MODULE Queries ---------------------------------
(***************************************************************************)
(* The two queries of the New request form (web/static/app.js): expanding  *)
(* a person into a naive and an expanded query, laying reviewed narrowings *)
(* on one or both, editing them by hand, resetting them, and running both  *)
(* searches; with what the API does of each call (web/api.py _expand,      *)
(* _apply_template, _create_search).                                       *)
(*                                                                         *)
(* The page is one thread, but every await lets the operator click again:  *)
(* an expansion and a run disable their own button only, and a narrowing   *)
(* disables nothing.  A narrowing reads the list of narrowings when it is  *)
(* clicked, the text of a box when it sends it, and writes the answer over *)
(* whatever the box then holds.                                            *)
(*                                                                         *)
(* Data abstracted: a text is what QueryText says of it, with the person   *)
(* it was generated for, the narrowings laid on it since, whether a hand   *)
(* edit is in it, and the form it is in: does it hold the primary address  *)
(* of its person ("address"), as words or not, and a participants: clause  *)
(* of anyone ("clause"); do its parentheses look like one group ("group"); *)
(* and was a narrowing laid on it for one when it was none ("misread")?    *)
(* The program's own texts are of one term; only a hand edit is misread.   *)
(***************************************************************************)
EXTENDS QueryText, FiniteSets

CONSTANTS
    People,        \* who may be typed into the form
    Person,        \* person -> what is typed
    Nobody,        \* an empty form
    Templates,     \* the reviewed narrowings
    Filled,        \* template -> the narrowing its inputs make of it
    Clicks,        \* applications that may be under way at once
    HandTexts,     \* what a hand edit may leave: terms, whom they name, form
    MaxExpands, MaxApplies, MaxEdits, MaxRuns, MaxFaults   \* bounds

ASSUME QueriesAssumption ==
    /\ Nobody \notin People
    /\ {MaxExpands, MaxApplies, MaxEdits, MaxRuns, MaxFaults} \subseteq Nat
    /\ \A h \in HandTexts : IsText(h.terms)

VARIABLES
    box,        \* side -> the text in its box
    generated,  \* side -> state.generated
    current,    \* side -> state.current
    narrowings, \* side -> state.narrowings, shown as chips
    subject,    \* state.subject, or Nobody when the form is cleared
    edited,     \* side -> its summary says that it was edited by hand
    warned,     \* the warning that the two queries are not comparable shows
    expanding,  \* the person of the expansion under way, or Nobody
    applying,   \* click -> the narrowing under way
    run,        \* the run under way
    created,    \* the searches the server has created
    crossed,    \* history: a narrowing was under way when the boxes changed
    spent       \* bounds used up

form == <<box, generated, current, narrowings, subject>>
shown == <<edited, warned>>
vars == <<form, shown, expanding, applying, run, created, crossed, spent>>

Sides == {"naive", "expanded"}
Counters == {"expands", "applies", "edits", "runs", "faults"}
Bound == [c \in Counters |->
            CASE c = "expands" -> MaxExpands [] c = "applies" -> MaxApplies
              [] c = "edits" -> MaxEdits [] c = "runs" -> MaxRuns
              [] OTHER -> MaxFaults]
Spend(c) == spent[c] < Bound[c] /\ spent' = [spent EXCEPT ![c] = @ + 1]

Text(who, terms, laid, hand, shape) ==
    [who |-> who, terms |-> terms, laid |-> laid, hand |-> hand, form |-> shape]
Blank == Text(Nobody, <<{}>>, <<>>, FALSE, {})
Written(p, side) ==
    Text(p, IF side = "naive" THEN NaiveKql(Person[p]) ELSE ExpandedKql(Person[p]),
         <<>>, FALSE,
         IF side = "naive" \/ Person[p].primary \in Addressed THEN {"address", "clause"} ELSE {"clause"})

None == [t |-> Nobody, todo |-> {}, sent |-> Blank]
NoRun == [asked |-> {}, left |-> {}, failed |-> FALSE,
          text |-> [s \in Sides |-> Blank]]

InFlight == \E a \in Clicks : applying[a].todo # {}
Holds(seq, t) == \E i \in DOMAIN seq : seq[i] = t

\* A narrowing on one query and not on the other.
Lopsided ==
    \E t \in Templates : Holds(narrowings.naive, t) # Holds(narrowings.expanded, t)

\* What renderQuerySummaries and renderComparability leave on the page.
Renders ==
    /\ warned' = Lopsided'
    /\ edited' = IF subject' = Nobody THEN edited
                 ELSE [s \in Sides |-> box'[s] # current'[s]]

Crosses == crossed' = (crossed \/ InFlight)

-------------------------------------------------------------------------------
(* Expanding a person.                                                     *)

\* The Expand button: withBusy disables it until the answer is in.
Expand(p) ==
    /\ expanding = Nobody
    /\ Spend("expands")
    /\ expanding' = p
    /\ UNCHANGED <<form, shown, applying, run, created, crossed>>

\* renderExpansion: both boxes, their pristine copies, the chips, the summaries.
Expanded ==
    LET texts == [s \in Sides |-> Written(expanding, s)] IN
    /\ expanding # Nobody /\ Expands(Person[expanding])
    /\ box' = texts /\ generated' = texts /\ current' = texts
    /\ narrowings' = [s \in Sides |-> <<>>]
    /\ subject' = expanding
    /\ expanding' = Nobody
    /\ Renders
    /\ Crosses
    /\ UNCHANGED <<applying, run, created, spent>>

\* A person who cannot be expanded, or an answer that does not come: the form
\* keeps what it had.
ExpandFails ==
    /\ expanding # Nobody
    /\ IF Expands(Person[expanding]) THEN Spend("faults") ELSE spent' = spent
    /\ expanding' = Nobody
    /\ UNCHANGED <<form, shown, applying, run, created, crossed>>

-------------------------------------------------------------------------------
(* Changing the texts.                                                     *)

\* Whose address, if any, is left in the text that the operator typed.
ByHand(who, h) ==
    Text(who, h.terms, <<>>, TRUE, IF h.names = who THEN h.form ELSE h.form \ {"address"})

\* The operator types in a box.
Edit(s) ==
    /\ subject # Nobody
    /\ Spend("edits")
    /\ \E h \in HandTexts :
          box' = [box EXCEPT ![s] = ByHand(box[s].who, h)]
    /\ UNCHANGED <<generated, current, narrowings, subject>>
    /\ Renders
    /\ Crosses
    /\ UNCHANGED <<expanding, applying, run, created>>

Reset ==
    /\ subject # Nobody
    /\ box' = generated /\ current' = generated
    /\ narrowings' = [s \in Sides |-> <<>>]
    /\ UNCHANGED <<generated, subject>>
    /\ Renders
    /\ Crosses
    /\ UNCHANGED <<expanding, applying, run, created, spent>>

\* A slip: the repeat is not looked for.
PendingAll(t, targets) == targets

\* The targets that do not list the narrowing yet.
Pending(t, targets) == {s \in targets : ~Holds(narrowings[s], t)}

\* The boxes are narrowed one at a time, the naive one first.
Following(todo) == IF "naive" \in todo THEN "naive" ELSE "expanded"

\* "Apply to both queries" or "Expanded only"; a repeat is refused.
Apply(a, t, targets) ==
    LET todo == Pending(t, targets) IN
    /\ subject # Nobody
    /\ applying[a] = None /\ todo # {}
    /\ Spend("applies")
    /\ applying' = [applying EXCEPT ![a] =
                      [t |-> t, todo |-> todo, sent |-> box[Following(todo)]]]
    /\ Crosses
    /\ UNCHANGED <<form, shown, expanding, run, created>>

Fragment(t) == Built(Filled[t])

\* Several terms that look like one group.
Deceptive(x) == "group" \in x.form /\ Len(x.terms) > 1

\* render_template: the text that was sent, narrowed.  With an AND after it, it
\* looks like a group no more.
Narrowed(x, t) ==
    Text(x.who, Compose(x.terms, "group" \in x.form, Fragment(t)), Append(x.laid, t),
         x.hand,
         (x.form \ {"group"})
             \cup (IF Deceptive(x) THEN {"misread"} ELSE {})
             \cup (IF Participants(Filled[t]) # {} THEN {"clause"} ELSE {})
             \cup (IF Person[x.who].primary \in Participants(Filled[t])
                   THEN {"address"} ELSE {}))

\* _apply_template refuses an empty query and values that make no fragment.
Renderable(do) == do.sent.who # Nobody /\ Builds(Filled[do.t])

\* One box narrowed; the next one is read and sent, or the page is rendered.
Applied(a) ==
    LET do == applying[a]
        s == Following(do.todo)
        rest == do.todo \ {s}
        text == Narrowed(do.sent, do.t)
    IN  /\ do.todo # {} /\ Renderable(do)
        /\ box' = [box EXCEPT ![s] = text]
        /\ current' = IF subject = Nobody THEN current
                      ELSE [current EXCEPT ![s] = text]
        /\ narrowings' = [narrowings EXCEPT ![s] = Append(@, do.t)]
        /\ UNCHANGED <<generated, subject>>
        /\ IF rest # {}
           THEN /\ applying' = [applying EXCEPT ![a] =
                      [t |-> do.t, todo |-> rest, sent |-> box[Following(rest)]]]
                /\ UNCHANGED shown
           ELSE applying' = [applying EXCEPT ![a] = None] /\ Renders
        /\ UNCHANGED <<expanding, run, created, crossed, spent>>

\* A slip: a partial application is reported and nothing is rendered.
ApplyFailsQuietly(a) ==
    /\ applying[a].todo # {}
    /\ IF Renderable(applying[a]) THEN Spend("faults") ELSE spent' = spent
    /\ applying' = [applying EXCEPT ![a] = None]
    /\ UNCHANGED <<form, shown, expanding, run, created, crossed>>

\* A refusal (an empty query, bad values) or no answer: the boxes narrowed so
\* far stay narrowed.
ApplyFails(a) ==
    /\ applying[a].todo # {}
    /\ IF Renderable(applying[a]) THEN Spend("faults") ELSE spent' = spent
    /\ applying' = [applying EXCEPT ![a] = None]
    /\ UNCHANGED form
    /\ Renders
    /\ UNCHANGED <<expanding, run, created, crossed>>

-------------------------------------------------------------------------------
(* Running both searches.                                                  *)

\* confirmScope: the edited texts that lost the address of the person shown.
Missing ==
    {s \in Sides : /\ box[s] # current[s]
                   /\ ~(box[s].who = subject /\ "address" \in box[s].form)}

\* _create_search: a participants: clause of anyone, outside quotes.
Unscoped(x) == "clause" \notin x.form

\* The Run button, the operator having said yes if the page asked.
Run ==
    /\ subject # Nobody
    /\ run.left = {}
    /\ Spend("runs")
    /\ run' = [asked |-> Missing, left |-> Sides, failed |-> FALSE, text |-> box]
    /\ UNCHANGED <<form, shown, expanding, applying, created, crossed>>

\* A slip: the shape of the query is not looked at.
AcceptsAny(s) == run.text[s].who # Nobody

Accepts(s) ==
    /\ run.text[s].who # Nobody
    /\ Unscoped(run.text[s]) => run.asked # {}

\* resetNewRequestForm, when both searches are created.
Clears ==
    /\ box' = [s \in Sides |-> Blank]
    /\ generated' = box' /\ current' = box'
    /\ narrowings' = [s \in Sides |-> <<>>]
    /\ subject' = Nobody
    /\ Crosses

\* One chain has its answer; the last one ends the run.
ChainEnds(s, failed) ==
    /\ s \in run.left
    /\ run' = IF run.left = {s} THEN NoRun
              ELSE [run EXCEPT !.left = @ \ {s}, !.failed = failed]
    /\ IF run.left = {s} /\ ~failed THEN Clears ELSE UNCHANGED <<form, crossed>>
    /\ UNCHANGED <<shown, expanding, applying>>

Searched(s) ==
    /\ Accepts(s)
    /\ created' = created \cup {[side |-> s, text |-> run.text[s], asked |-> run.asked]}
    /\ ChainEnds(s, run.failed)
    /\ UNCHANGED spent

SearchFails(s) ==
    /\ s \in run.left
    /\ IF Accepts(s) THEN Spend("faults") ELSE spent' = spent
    /\ ChainEnds(s, TRUE)
    /\ UNCHANGED created

-------------------------------------------------------------------------------
Init ==
    /\ box = [s \in Sides |-> Blank]
    /\ generated = box /\ current = box
    /\ narrowings = [s \in Sides |-> <<>>]
    /\ subject = Nobody
    /\ edited = [s \in Sides |-> FALSE] /\ warned = FALSE
    /\ expanding = Nobody
    /\ applying = [a \in Clicks |-> None]
    /\ run = NoRun
    /\ created = {}
    /\ crossed = FALSE
    /\ spent = [c \in Counters |-> 0]

Next ==
    \/ \E p \in People : Expand(p)
    \/ Expanded
    \/ ExpandFails
    \/ \E s \in Sides : Edit(s) \/ Searched(s) \/ SearchFails(s)
    \/ Reset
    \/ \E a \in Clicks, t \in Templates :
          \E targets \in {Sides, {"expanded"}} : Apply(a, t, targets)
    \/ \E a \in Clicks : Applied(a) \/ ApplyFails(a)
    \/ Run

Spec == Init /\ [][Next]_vars

-------------------------------------------------------------------------------
\* A narrowing narrows: whatever query was typed into a box before, what it matches
\* lies within each of the narrowings laid on it since (templates.py:334
\* "Join a fragment to an existing query without changing what it meant") - but
\* for the first one laid on a hand edit of several terms whose parentheses, some
\* of them inside quotes, look like one group (templates.py:381): only the last
\* of its terms is narrowed.  Those laid on it later narrow all of it again.
NarrowedWithin ==
    \A s \in Sides : \A i \in DOMAIN box[s].laid :
        \/ i = 1 /\ "misread" \in box[s].form
        \/ Meaning(box[s].terms) \subseteq Meaning(Fragment(box[s].laid[i]))

\* The page tells what its boxes hold: unless a narrowing was under way when a
\* box changed, a box without a hand edit holds the query of the person shown,
\* with the narrowings of its chips, each once (app.js:968).  A second click, a
\* Reset, an expansion or a run meanwhile does break it.
ChipsTell ==
    ~crossed => \A s \in Sides :
        /\ box[s].who = subject
        /\ ~box[s].hand =>
              /\ narrowings[s] = box[s].laid
              /\ \A i, j \in DOMAIN box[s].laid :
                    box[s].laid[i] = box[s].laid[j] => i = j

\* Once every narrowing has its answer, the warning shows exactly when one
\* query is narrowed and the other is not, after partial failures too
\* (app.js:982 "the two queries diverge without anyone knowing they have").
WarnedWhenLopsided == subject # Nobody /\ ~InFlight => warned = Lopsided

\* The premise of the comparison: with the same narrowings and no edit, what
\* the naive query finds the expanded one finds too - provided the primary
\* address has an "@"; one without is searched by the naive query only.
ExpandedCoversNaive ==
    (/\ box.naive.who = box.expanded.who /\ box.naive.who # Nobody
     /\ Person[box.naive.who].primary \in Addressed
     /\ box.naive.laid = box.expanded.laid
     /\ \A s \in Sides : ~box[s].hand)
        => Meaning(box.naive.terms) \subseteq Meaning(box.expanded.terms)

\* No search of words alone is created unless the operator was asked: about that
\* very query, unless it still names the address, as words, or a narrowing was
\* laid on it after it was edited - the page takes what comes back for pristine
\* (app.js:1012) and does not ask about it again, so that such a query goes out
\* on a yes that was given about the other one.
UnscopedWasAsked ==
    \A c \in created : Unscoped(c.text) =>
        /\ c.asked # {}
        /\ c.side \in c.asked \/ "address" \in c.text.form \/ c.text.laid # <<>>
===============================================================================
