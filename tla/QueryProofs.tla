------------------------------ MODULE QueryProofs ------------------------------
(***************************************************************************)
(* A narrowing never widens a query, and narrows it unless it takes a hand *)
(* edit for a group that is none: what laying a fragment on a text does to *)
(* the meaning of both (templates.py compose), and that it holds of every  *)
(* box the page can show, whatever people, fragments, hand edits and       *)
(* interleavings there are.  And what the page says of its boxes is so:    *)
(* its warning, its chips, the comparison of the two counts, and that it   *)
(* has asked about a search of words alone.                                *)
(***************************************************************************)
EXTENDS Queries, TLAPS

LEMMA OneTerm == ASSUME NEW text, IsText(text), Len(text) = 1
                 PROVE  text = <<Meaning(text)>>
<1> DEFINE S == {text[i] : i \in DOMAIN text}
<1>1. text \in Seq(S) /\ Len(text) = 1 BY DEF IsText
<1> HIDE DEF S
<1>2. DOMAIN text = {1} BY <1>1
<1>3. Meaning(text) = text[1]
  <2>1. {text[i] : i \in DOMAIN text} = {text[1]} BY <1>2
  <2> QED BY <2>1 DEF Meaning
<1>4. text = <<text[1]>> BY <1>1
<1> QED BY <1>3, <1>4

LEMMA JoinedTerms == ASSUME NEW A, NEW C
                     PROVE  Joined(<<A>>, <<C>>) = <<A \cap C>>
<1>1. SubSeq(<<A>>, 1, Len(<<A>>) - 1) = <<>> OBVIOUS
<1>2. SubSeq(<<C>>, 2, Len(<<C>>)) = <<>> OBVIOUS
<1>3. <<A>>[Len(<<A>>)] \cap <<C>>[1] = A \cap C OBVIOUS
<1>4. <<>> \o <<A \cap C>> \o <<>> = <<A \cap C>> OBVIOUS
<1>5. Joined(<<A>>, <<C>>) = <<>> \o <<A \cap C>> \o <<>>
  BY <1>1, <1>2, <1>3, Zenon DEF Joined
<1> QED BY <1>4, <1>5

LEMMA OneMeaning == ASSUME NEW A PROVE Meaning(<<A>>) = A /\ IsText(<<A>>)
<1>1. DOMAIN <<A>> = {1} OBVIOUS
<1>2. {<<A>>[i] : i \in DOMAIN <<A>>} = {A} BY <1>1
<1> QED BY <1>2 DEF Meaning, IsText

\* An AND after a bare OR takes the last term only.
LEMMA JoinedLast ==
    ASSUME NEW text, IsText(text), NEW C
    PROVE  /\ IsText(Joined(text, <<C>>))
           /\ Meaning(Joined(text, <<C>>)) \subseteq Meaning(text)
<1> DEFINE S == {text[i] : i \in DOMAIN text}
           n == Len(text)
           front == SubSeq(text, 1, n - 1)
           last == text[n] \cap C
           T == S \cup {last}
           out == Append(front, last)
<1>1. text \in Seq(S) /\ n \in Nat /\ n >= 1 /\ DOMAIN text = 1..n BY DEF IsText
<1>2. Joined(text, <<C>>) = out
  <2>1. <<C>>[1] = C /\ SubSeq(<<C>>, 2, Len(<<C>>)) = <<>> OBVIOUS
  <2>2. Joined(text, <<C>>) = (front \o <<last>>) \o <<>> BY <2>1, Zenon DEF Joined
  <2> HIDE DEF S, last
  <2>3. front \in Seq(S) /\ front \in Seq(S \cup {last}) BY <1>1
  <2>4. (front \o <<last>>) \o <<>> = Append(front, last) BY <2>3
  <2> QED BY <2>2, <2>4
<1> HIDE DEF S, T
<1>3. front \in Seq(S) /\ Len(front) = n - 1 /\ \A i \in 1..(n - 1) : front[i] = text[i]
  BY <1>1
<1>4. last \subseteq text[n] /\ n \in DOMAIN text BY <1>1
<1>5. S \subseteq T /\ last \in T BY DEF T
<1> HIDE DEF last, front
<1>6. /\ out \in Seq(T) /\ Len(out) = n /\ DOMAIN out = 1..n
      /\ \A i \in 1..(n - 1) : out[i] = text[i]
      /\ out[n] = last
  <2>1. front \in Seq(T) BY <1>3, <1>5
  <2>2. out \in Seq(T) /\ Len(out) = Len(front) + 1 /\ out[Len(front) + 1] = last
        /\ \A i \in 1..Len(front) : out[i] = front[i]
    BY <2>1, <1>5
  <2> HIDE DEF out, n
  <2> QED BY <2>2, <1>1, <1>3
<1> HIDE DEF out, n
<1>7. IsText(out)
  <2>1. out \in Seq({out[i] : i \in DOMAIN out}) BY <1>6
  <2>2. out # <<>> BY <1>1, <1>6
  <2> QED BY <2>1, <2>2 DEF IsText
<1>8. \A i \in DOMAIN out : out[i] \subseteq text[i] /\ i \in DOMAIN text
  BY <1>1, <1>4, <1>6
<1>9. Meaning(out) \subseteq Meaning(text) BY <1>8 DEF Meaning
<1> QED BY <1>2, <1>7, <1>9

\* Composing a query with the text of a narrowing (templates.py compose, 334-392)
\* adds nothing to what it finds, however its parentheses are taken; and it keeps
\* exactly what both find unless a text of several terms looks like one group.
THEOREM ComposeNarrows ==
    ASSUME NEW text, NEW fragment, NEW group \in BOOLEAN,
           IsText(text), IsText(fragment)
    PROVE  /\ IsText(Compose(text, group, fragment))
           /\ Meaning(Compose(text, group, fragment)) \subseteq Meaning(text)
           /\ (group => Len(text) = 1) =>
                 Compose(text, group, fragment) = <<Meaning(text) \cap Meaning(fragment)>>
<1>1. (IF Atomic(fragment, FALSE) THEN fragment ELSE Bracketed(fragment))
        = <<Meaning(fragment)>>
  BY OneTerm DEF Bracketed, Atomic
<1>2. CASE group => Len(text) = 1
  <2>1. (IF Atomic(text, group) THEN text ELSE Bracketed(text)) = <<Meaning(text)>>
    BY <1>2, OneTerm DEF Bracketed, Atomic
  <2>2. Compose(text, group, fragment) = <<Meaning(text) \cap Meaning(fragment)>>
    BY <1>1, <2>1, JoinedTerms DEF Compose
  <2> QED BY <2>2, OneMeaning
<1>3. CASE ~(group => Len(text) = 1)
  <2>1. Compose(text, group, fragment) = Joined(text, <<Meaning(fragment)>>)
    BY <1>1, <1>3 DEF Compose, Atomic
  <2> QED BY <1>3, <2>1, JoinedLast
<1> QED BY <1>2, <1>3

-------------------------------------------------------------------------------
(* The invariant: every text of the page, and every text sent to be        *)
(* narrowed, lies within the narrowings laid on it, but for the first one  *)
(* on a hand edit that was misread: nothing is laid on a text that still   *)
(* looks like a group.                                                     *)

Narrow(x) ==
    /\ IsText(x.terms)
    /\ x.laid \in Seq(Templates)
    /\ "group" \in x.form => x.laid = <<>> /\ x.hand
    /\ \A i \in DOMAIN x.laid :
          \/ i = 1 /\ "misread" \in x.form
          \/ Meaning(x.terms) \subseteq Meaning(Fragment(x.laid[i]))

NarrowBoxes ==
    /\ box = [s \in Sides |-> box[s]]
    /\ generated = [s \in Sides |-> generated[s]]
    /\ \A s \in Sides : Narrow(box[s]) /\ Narrow(generated[s])

NarrowSent ==
    /\ applying = [a \in Clicks |-> applying[a]]
    /\ \A a \in Clicks : applying[a].todo # {} =>
          /\ applying[a].t \in Templates
          /\ applying[a].todo \subseteq Sides
          /\ Narrow(applying[a].sent)

NInv == NarrowBoxes /\ NarrowSent

LEMMA FreshText ==
    ASSUME NEW who, NEW terms, IsText(terms), NEW hand, NEW shape,
           "group" \in shape => hand
    PROVE  Narrow(Text(who, terms, <<>>, hand, shape))
<1> DEFINE x == Text(who, terms, <<>>, hand, shape)
<1>1. x.terms = terms /\ x.laid = <<>> /\ x.form = shape /\ x.hand = hand BY DEF Text
<1> HIDE DEF x
<1>2. x.laid \in Seq(Templates) /\ DOMAIN x.laid = {} BY <1>1
<1>3. Narrow(x) BY <1>1, <1>2 DEF Narrow
<1> QED BY <1>3 DEF x

LEMMA BlankIsNarrow == Narrow(Blank)
BY FreshText, OneMeaning DEF Blank

LEMMA WrittenIsNarrow == ASSUME NEW p, NEW s PROVE Narrow(Written(p, s))
<1>1. IsText(NaiveKql(Person[p])) BY OneMeaning DEF NaiveKql
<1>2. IsText(ExpandedKql(Person[p])) BY OneMeaning DEF ExpandedKql, Bracketed
<1>3. IsText(IF s = "naive" THEN NaiveKql(Person[p]) ELSE ExpandedKql(Person[p]))
  BY <1>1, <1>2
<1> QED BY <1>3, FreshText DEF Written

LEMMA NarrowedIsNarrow ==
    ASSUME NEW x, NEW t \in Templates, Narrow(x)
    PROVE  Narrow(Narrowed(x, t))
<1> DEFINE y == Narrowed(x, t)
           f == Fragment(t)
           group == "group" \in x.form
<1>1. IsText(x.terms) /\ IsText(f) /\ group \in BOOLEAN
  BY OneMeaning DEF Narrow, Fragment, Built
<1>2. /\ y.terms = Compose(x.terms, group, f) /\ y.laid = Append(x.laid, t)
      /\ "group" \notin y.form
      /\ "misread" \in x.form => "misread" \in y.form
      /\ Deceptive(x) => "misread" \in y.form
  BY DEF Narrowed, Text
<1>3. Deceptive(x) <=> ~(group => Len(x.terms) = 1)
  <2>1. Len(x.terms) \in Nat /\ Len(x.terms) >= 1 BY <1>1 DEF IsText
  <2>2. Len(x.terms) > 1 <=> Len(x.terms) # 1
    <3>1. \A n \in Nat : n >= 1 => (n > 1 <=> n # 1) OBVIOUS
    <3> QED BY <2>1, <3>1
  <2> QED BY <2>2, Zenon DEF Deceptive
<1> HIDE DEF f, group
<1>4. /\ IsText(y.terms) /\ Meaning(y.terms) \subseteq Meaning(x.terms)
      /\ ~Deceptive(x) => y.terms = <<Meaning(x.terms) \cap Meaning(f)>>
  BY <1>1, <1>2, <1>3, ComposeNarrows
<1>5. ~Deceptive(x) => Meaning(y.terms) \subseteq Meaning(f)
  BY <1>4, OneMeaning
<1> HIDE DEF y
<1>6. x.laid \in Seq(Templates) BY DEF Narrow
<1>7. y.laid \in Seq(Templates) BY <1>2, <1>6
<1>8. ASSUME NEW i \in DOMAIN y.laid
      PROVE  \/ i = 1 /\ "misread" \in y.form
             \/ Meaning(y.terms) \subseteq Meaning(Fragment(y.laid[i]))
  <2>1. y.laid[i] = t \/ (i \in DOMAIN x.laid /\ y.laid[i] = x.laid[i])
    BY <1>2, <1>6
  <2>2. CASE Deceptive(x)
    <3>1. x.laid = <<>> BY <2>2 DEF Deceptive, Narrow
    <3>2. i = 1 BY <3>1, <1>2
    <3> QED BY <3>2, <2>2, <1>2
  <2>3. CASE ~Deceptive(x) /\ y.laid[i] = t BY <2>3, <1>5 DEF f
  <2>4. CASE i \in DOMAIN x.laid /\ y.laid[i] = x.laid[i]
    <3>1. \/ i = 1 /\ "misread" \in x.form
          \/ Meaning(x.terms) \subseteq Meaning(Fragment(x.laid[i]))
      BY <2>4 DEF Narrow
    <3> QED BY <3>1, <2>4, <1>2, <1>4
  <2> QED BY <2>1, <2>2, <2>3, <2>4
<1>9. Narrow(y) BY <1>2, <1>4, <1>7, <1>8 DEF Narrow
<1> QED BY <1>9 DEF y

-------------------------------------------------------------------------------
LEMMA NInit == Init => NInv
<1> SUFFICES ASSUME Init PROVE NInv OBVIOUS
<1>1. NarrowBoxes BY BlankIsNarrow DEF Init, NarrowBoxes
<1>2. applying = [a \in Clicks |-> None] BY DEF Init
<1>3. \A a \in Clicks : applying[a].todo = {} BY <1>2 DEF None
<1>4. NarrowSent BY <1>2, <1>3 DEF NarrowSent
<1> QED BY <1>1, <1>4 DEF NInv

LEMMA KeptBoxes == ASSUME NarrowBoxes, UNCHANGED <<box, generated>> PROVE NarrowBoxes'
BY DEF NarrowBoxes

LEMMA KeptSent == ASSUME NarrowSent, UNCHANGED applying PROVE NarrowSent'
BY DEF NarrowSent

LEMMA OneBox ==
    ASSUME NarrowBoxes, NEW s \in Sides, NEW x, Narrow(x),
           box' = [box EXCEPT ![s] = x], UNCHANGED generated
    PROVE  NarrowBoxes'
<1>1. \A r \in Sides : box'[r] = IF r = s THEN x ELSE box[r] BY DEF NarrowBoxes
<1>2. box' = [r \in Sides |-> box'[r]] BY DEF NarrowBoxes
<1> QED BY <1>1, <1>2 DEF NarrowBoxes

LEMMA OneClickEnds ==
    ASSUME NarrowSent, NEW a \in Clicks, applying' = [applying EXCEPT ![a] = None]
    PROVE  NarrowSent'
<1>1. \A b \in Clicks : applying'[b] = IF b = a THEN None ELSE applying[b]
  BY DEF NarrowSent
<1>2. applying' = [b \in Clicks |-> applying'[b]] BY DEF NarrowSent
<1>3. None.todo = {} BY DEF None
<1> QED BY <1>1, <1>2, <1>3 DEF NarrowSent

LEMMA OneClickSends ==
    ASSUME NarrowSent, NEW a \in Clicks, NEW t \in Templates,
           NEW todo \in SUBSET Sides, NEW x, Narrow(x),
           applying' = [applying EXCEPT ![a] = [t |-> t, todo |-> todo, sent |-> x]]
    PROVE  NarrowSent'
<1> DEFINE do == [t |-> t, todo |-> todo, sent |-> x]
<1>1. do.t = t /\ do.todo = todo /\ do.sent = x OBVIOUS
<1>2. applying' = [applying EXCEPT ![a] = do] OBVIOUS
<1> HIDE DEF do
<1>3. \A b \in Clicks : applying'[b] = IF b = a THEN do ELSE applying[b]
  BY <1>2 DEF NarrowSent
<1>4. applying' = [b \in Clicks |-> applying'[b]] BY <1>2 DEF NarrowSent
<1> QED BY <1>1, <1>3, <1>4 DEF NarrowSent

-------------------------------------------------------------------------------
LEMMA NStep == NInv /\ [Next]_vars => NInv'
<1> SUFFICES ASSUME NInv, [Next]_vars PROVE NInv' OBVIOUS
<1> USE DEF NInv
<1>1. ASSUME NEW p \in People, Expand(p) PROVE NInv'
  BY <1>1, KeptBoxes, KeptSent DEF Expand, form
<1>2. CASE Expanded
  <2>1. box' = [s \in Sides |-> Written(expanding, s)] /\ generated' = box'
        /\ UNCHANGED applying
    BY <1>2 DEF Expanded
  <2>2. \A s \in Sides : Narrow(Written(expanding, s)) BY WrittenIsNarrow
  <2>3. NarrowBoxes' BY <2>1, <2>2 DEF NarrowBoxes
  <2> QED BY <2>1, <2>3, KeptSent
<1>3. CASE ExpandFails
  BY <1>3, KeptBoxes, KeptSent DEF ExpandFails, form
<1>4. ASSUME NEW s \in Sides, Edit(s) PROVE NInv'
  <2>1. PICK h \in HandTexts :
          box' = [box EXCEPT ![s] = ByHand(box[s].who, h)]
    BY <1>4 DEF Edit
  <2>2. IsText(h.terms) BY QueriesAssumption
  <2>3. Narrow(ByHand(box[s].who, h)) BY <2>2, FreshText DEF ByHand
  <2>4. UNCHANGED <<generated, applying>> BY <1>4 DEF Edit
  <2> QED BY <2>1, <2>3, <2>4, OneBox, KeptSent
<1>5. ASSUME NEW s \in Sides, Searched(s) \/ SearchFails(s) PROVE NInv'
  <2>1. UNCHANGED applying /\ (Clears \/ UNCHANGED form)
    BY <1>5 DEF Searched, SearchFails, ChainEnds
  <2>2. CASE Clears
    <3>1. box' = [r \in Sides |-> Blank] /\ generated' = box' BY <2>2 DEF Clears
    <3>2. NarrowBoxes' BY <3>1, BlankIsNarrow DEF NarrowBoxes
    <3> QED BY <2>1, <3>2, KeptSent
  <2>3. CASE UNCHANGED form BY <2>1, <2>3, KeptBoxes, KeptSent DEF form
  <2> QED BY <2>1, <2>2, <2>3
<1>6. CASE Reset
  <2>1. box' = generated /\ UNCHANGED <<generated, applying>> BY <1>6 DEF Reset
  <2>2. generated = [s \in Sides |-> generated[s]] BY DEF NarrowBoxes
  <2>3. NarrowBoxes' BY <2>1, <2>2 DEF NarrowBoxes
  <2> QED BY <2>1, <2>3, KeptSent
<1>7. ASSUME NEW a \in Clicks, NEW t \in Templates,
             NEW targets \in {Sides, {"expanded"}}, Apply(a, t, targets)
      PROVE  NInv'
  <2> DEFINE todo == Pending(t, targets)
             s == Following(todo)
  <2>1. applying' = [applying EXCEPT ![a] = [t |-> t, todo |-> todo, sent |-> box[s]]]
        /\ todo # {} /\ UNCHANGED <<box, generated>>
    BY <1>7 DEF Apply, form
  <2>2. todo \in SUBSET Sides BY DEF Pending, Sides
  <2>3. s \in Sides BY DEF Following, Sides
  <2>4. Narrow(box[s]) BY <2>3 DEF NarrowBoxes
  <2> HIDE DEF todo, s
  <2>5. NarrowSent' BY <2>1, <2>2, <2>4, OneClickSends
  <2> QED BY <2>1, <2>5, KeptBoxes
<1>8. ASSUME NEW a \in Clicks, Applied(a) PROVE NInv'
  <2> DEFINE do == applying[a]
             s == Following(do.todo)
             rest == do.todo \ {s}
             x == Narrowed(do.sent, do.t)
  <2>1. do.todo # {} /\ box' = [box EXCEPT ![s] = x] /\ UNCHANGED generated
    BY <1>8 DEF Applied
  <2>2. do.t \in Templates /\ do.todo \subseteq Sides /\ Narrow(do.sent)
    BY <2>1 DEF NarrowSent
  <2>3. s \in Sides /\ Following(rest) \in Sides BY DEF Following, Sides
  <2>4. Narrow(x) BY <2>2, NarrowedIsNarrow
  <2>5. rest \in SUBSET Sides /\ Narrow(box[Following(rest)])
    BY <2>2, <2>3 DEF NarrowBoxes
  <2>6. \/ applying' = [applying EXCEPT ![a] =
                [t |-> do.t, todo |-> rest, sent |-> box[Following(rest)]]]
        \/ applying' = [applying EXCEPT ![a] = None]
    BY <1>8 DEF Applied
  <2> HIDE DEF do, s, rest, x
  <2>7. NarrowBoxes' BY <2>1, <2>3, <2>4, OneBox
  <2>8. NarrowSent' BY <2>2, <2>5, <2>6, OneClickSends, OneClickEnds
  <2> QED BY <2>7, <2>8
<1>9. ASSUME NEW a \in Clicks, ApplyFails(a) PROVE NInv'
  <2>1. applying' = [applying EXCEPT ![a] = None] /\ UNCHANGED form
    BY <1>9 DEF ApplyFails
  <2> QED BY <2>1, OneClickEnds, KeptBoxes DEF form
<1>10. CASE Run BY <1>10, KeptBoxes, KeptSent DEF Run, form
<1>11. CASE UNCHANGED vars BY <1>11, KeptBoxes, KeptSent DEF vars, form
<1> QED BY <1>1, <1>2, <1>3, <1>4, <1>5, <1>6, <1>7, <1>8, <1>9, <1>10, <1>11 DEF Next

\* Whatever the people, the fragments, the hand edits and the interleavings,
\* a box never matches more than any narrowing laid on it since it was last
\* generated or edited (templates.py:334), but for the first one on a hand edit
\* whose parentheses look like one group and are not (templates.py:381).
THEOREM NarrowingsNarrow == Spec => []NarrowedWithin
<1>1. NInv => NarrowedWithin BY DEF NInv, NarrowBoxes, Narrow, NarrowedWithin
<1> QED BY <1>1, NInit, NStep, PTL DEF Spec
-------------------------------------------------------------------------------
(* The warning.                                                            *)

LEMMA RenderedWarns == Renders => WarnedWhenLopsided'
BY DEF Renders, WarnedWhenLopsided

LEMMA UnderWay ==
    ASSUME NarrowSent, NEW a \in Clicks, NEW do, do.todo # {},
           applying' = [applying EXCEPT ![a] = do]
    PROVE  WarnedWhenLopsided'
<1>1. applying'[a] = do BY DEF NarrowSent
<1> QED BY <1>1 DEF WarnedWhenLopsided, InFlight

LEMMA WStep == NInv /\ WarnedWhenLopsided /\ [Next]_vars => WarnedWhenLopsided'
<1> SUFFICES ASSUME NInv, WarnedWhenLopsided, [Next]_vars PROVE WarnedWhenLopsided'
  OBVIOUS
<1>1. ASSUME UNCHANGED <<form, shown, applying>> PROVE WarnedWhenLopsided'
  BY <1>1 DEF form, shown, WarnedWhenLopsided, InFlight, Lopsided
<1>2. ASSUME NEW p \in People, Expand(p) PROVE WarnedWhenLopsided' BY <1>1, <1>2 DEF Expand
<1>3. CASE Expanded BY <1>3, RenderedWarns DEF Expanded
<1>4. CASE ExpandFails BY <1>1, <1>4 DEF ExpandFails
<1>5. ASSUME NEW s \in Sides, Edit(s) PROVE WarnedWhenLopsided'
  BY <1>5, RenderedWarns DEF Edit
<1>6. ASSUME NEW s \in Sides, Searched(s) \/ SearchFails(s) PROVE WarnedWhenLopsided'
  <2>1. UNCHANGED <<shown, applying>> /\ (subject' = Nobody \/ UNCHANGED form)
    BY <1>6 DEF Searched, SearchFails, ChainEnds, Clears
  <2> QED BY <1>1, <2>1 DEF WarnedWhenLopsided
<1>7. CASE Reset BY <1>7, RenderedWarns DEF Reset
<1>8. ASSUME NEW a \in Clicks, NEW t \in Templates,
             NEW targets \in {Sides, {"expanded"}}, Apply(a, t, targets)
      PROVE  WarnedWhenLopsided'
  <2> DEFINE todo == Pending(t, targets)
             do == [t |-> t, todo |-> todo, sent |-> box[Following(todo)]]
  <2>1. todo # {} /\ applying' = [applying EXCEPT ![a] = do] BY <1>8 DEF Apply
  <2>2. do.todo # {} BY <2>1
  <2> HIDE DEF do
  <2> QED BY <2>1, <2>2, UnderWay DEF NInv
<1>9. ASSUME NEW a \in Clicks, Applied(a) PROVE WarnedWhenLopsided'
  <2> DEFINE rest == applying[a].todo \ {Following(applying[a].todo)}
             do == [t |-> applying[a].t, todo |-> rest, sent |-> box[Following(rest)]]
  <2>1. Renders \/ (rest # {} /\ applying' = [applying EXCEPT ![a] = do])
    BY <1>9 DEF Applied
  <2>2. do.todo = rest OBVIOUS
  <2> HIDE DEF do, rest
  <2> QED BY <2>1, <2>2, UnderWay, RenderedWarns DEF NInv
<1>10. ASSUME NEW a \in Clicks, ApplyFails(a) PROVE WarnedWhenLopsided'
  BY <1>10, RenderedWarns DEF ApplyFails
<1>11. CASE Run BY <1>1, <1>11 DEF Run
<1>12. CASE UNCHANGED vars BY <1>1, <1>12 DEF vars
<1> QED BY <1>2, <1>3, <1>4, <1>5, <1>6, <1>7, <1>8, <1>9, <1>10, <1>11, <1>12 DEF Next

\* For any narrowings, laid in any order by any number of clicks, of which some
\* fail between their two boxes: the warning shows exactly when the queries are
\* not comparable (app.js:982).
THEOREM WarningIsRight == Spec => []WarnedWhenLopsided
<1>1. Init => WarnedWhenLopsided BY DEF Init, WarnedWhenLopsided
<1> QED BY <1>1, WStep, NInit, NStep, PTL DEF Spec

-------------------------------------------------------------------------------
(* The chips: as long as no narrowing is crossed, there is one at a time,  *)
(* it was sent what its next box still holds, and that box lacks it.       *)

Sends(a) ==
    LET do == applying[a] IN
    do.todo # {} =>
        /\ do.sent = box[Following(do.todo)]
        /\ \A s \in do.todo : ~Holds(narrowings[s], do.t)
        /\ \A b \in Clicks : applying[b].todo # {} => b = a

Told(x, seq) ==
    /\ x.who = subject
    /\ ~x.hand => /\ seq = x.laid
                  /\ \A i, j \in DOMAIN x.laid : x.laid[i] = x.laid[j] => i = j

Chips ==
    /\ \A s \in Sides : Told(box[s], narrowings[s])
    /\ \A a \in Clicks : Sends(a)

Pristine ==
    /\ narrowings \in [Sides -> Seq(Templates)]
    /\ \A s \in Sides : generated[s].who = subject /\ generated[s].laid = <<>>

CInv == Pristine /\ (~crossed => Chips)

\* Both boxes are written anew.
LEMMA Rewritten ==
    ASSUME NInv, UNCHANGED applying, Crosses,
           narrowings' = [s \in Sides |-> <<>>],
           \A s \in Sides : box'[s].who = subject' /\ box'[s].laid = <<>>
    PROVE  ~crossed' => Chips'
<1> SUFFICES ASSUME ~crossed' PROVE Chips' OBVIOUS
<1>1. \A a \in Clicks : applying'[a].todo = {} BY DEF Crosses, InFlight
<1>2. \A a \in Clicks : Sends(a)' BY <1>1 DEF Sends
<1>3. \A s \in Sides : Told(box[s], narrowings[s])' BY DEF Told
<1> QED BY <1>2, <1>3 DEF Chips

LEMMA AppendsOnce ==
    ASSUME NEW seq \in Seq(Templates), NEW t \in Templates, ~Holds(seq, t),
           \A i, j \in DOMAIN seq : seq[i] = seq[j] => i = j
    PROVE  LET new == Append(seq, t)
           IN  \A i, j \in DOMAIN new : new[i] = new[j] => i = j
<1> DEFINE new == Append(seq, t)
<1>1. /\ Len(new) = Len(seq) + 1 /\ Len(seq) \in Nat /\ DOMAIN seq = 1..Len(seq)
      /\ DOMAIN new = 1..Len(new) /\ new[Len(seq) + 1] = t
      /\ \A i \in 1..Len(seq) : new[i] = seq[i]
  OBVIOUS
<1> HIDE DEF new
<1>2. \A i \in 1..Len(seq) : seq[i] # t BY <1>1 DEF Holds
<1>3. ASSUME NEW i \in DOMAIN new, NEW j \in DOMAIN new, new[i] = new[j] PROVE i = j
  BY <1>1, <1>2, <1>3
<1> QED BY <1>3 DEF new

LEMMA HoldsAfter ==
    ASSUME NEW seq \in Seq(Templates), NEW t \in Templates, NEW u, Holds(Append(seq, t), u)
    PROVE  u = t \/ Holds(seq, u)
BY DEF Holds

LEMMA CStep == NInv /\ CInv /\ [Next]_vars => CInv'
<1> SUFFICES ASSUME NInv, CInv, [Next]_vars PROVE CInv' OBVIOUS
<1>1. ASSUME UNCHANGED <<form, crossed>>, UNCHANGED applying PROVE CInv'
  BY <1>1 DEF form, CInv, Pristine, Chips, Told, Sends
<1>2. ASSUME UNCHANGED <<form, crossed>>, NEW a \in Clicks,
             applying' = [applying EXCEPT ![a] = None]
      PROVE  CInv'
  <2>1. \A b \in Clicks : applying'[b] = IF b = a THEN None ELSE applying[b]
    BY <1>2 DEF NInv, NarrowSent
  <2>2. None.todo = {} BY DEF None
  <2>3. (\A b \in Clicks : Sends(b)) => \A b \in Clicks : Sends(b)'
    BY <1>2, <2>1, <2>2 DEF Sends, form
  <2> QED BY <1>2, <2>3 DEF form, CInv, Pristine, Chips, Told
<1>3. ASSUME NEW p \in People, Expand(p) PROVE CInv' BY <1>1, <1>3 DEF Expand
<1>4. CASE Expanded
  <2>1. /\ box' = [s \in Sides |-> Written(expanding, s)] /\ generated' = box'
        /\ subject' = expanding /\ narrowings' = [s \in Sides |-> <<>>]
        /\ UNCHANGED applying /\ Crosses
    BY <1>4 DEF Expanded
  <2>2. \A s \in Sides : box'[s].who = subject' /\ box'[s].laid = <<>>
    BY <2>1 DEF Written, Text
  <2>3. Pristine' BY <2>1, <2>2 DEF Pristine
  <2> QED BY <2>1, <2>2, <2>3, Rewritten DEF CInv
<1>5. CASE ExpandFails BY <1>1, <1>5 DEF ExpandFails
<1>6. ASSUME NEW s \in Sides, Edit(s) PROVE CInv'
  <2>1. PICK h \in HandTexts : box' = [box EXCEPT ![s] = ByHand(box[s].who, h)]
    BY <1>6 DEF Edit
  <2> DEFINE x == ByHand(box[s].who, h)
  <2>2. x.who = box[s].who /\ x.hand = TRUE BY DEF ByHand, Text
  <2>3. Crosses /\ UNCHANGED <<applying, generated, narrowings, subject>> BY <1>6 DEF Edit
  <2>5. box' = [box EXCEPT ![s] = x] BY <2>1
  <2> HIDE DEF x
  <2>4. \A r \in Sides : box'[r] = IF r = s THEN x ELSE box[r]
    BY <2>5 DEF NInv, NarrowBoxes
  <2>6. ASSUME ~crossed' PROVE Chips'
    <3>1. Chips /\ \A a \in Clicks : applying'[a].todo = {}
      BY <2>3, <2>6 DEF Crosses, InFlight, CInv
    <3>2. \A a \in Clicks : Sends(a)' BY <3>1 DEF Sends
    <3>3. \A r \in Sides : Told(box[r], narrowings[r])'
      BY <2>2, <2>3, <2>4, <3>1 DEF Chips, Told
    <3> QED BY <3>2, <3>3 DEF Chips
  <2> QED BY <2>3, <2>6 DEF CInv, Pristine
<1>7. ASSUME NEW s \in Sides, Searched(s) \/ SearchFails(s) PROVE CInv'
  <2>1. UNCHANGED applying /\ (Clears \/ UNCHANGED <<form, crossed>>)
    BY <1>7 DEF Searched, SearchFails, ChainEnds
  <2>2. CASE Clears
    <3>1. /\ box' = [r \in Sides |-> Blank] /\ generated' = box' /\ subject' = Nobody
          /\ narrowings' = [r \in Sides |-> <<>>] /\ Crosses
      BY <2>2 DEF Clears
    <3>2. \A r \in Sides : box'[r].who = subject' /\ box'[r].laid = <<>>
      BY <3>1 DEF Blank, Text
    <3>3. Pristine' BY <3>1, <3>2 DEF Pristine
    <3> QED BY <2>1, <3>1, <3>2, <3>3, Rewritten DEF CInv
  <2> QED BY <1>1, <2>1, <2>2
<1>8. CASE Reset
  <2>1. /\ box' = generated /\ Crosses /\ UNCHANGED <<generated, subject, applying>>
        /\ narrowings' = [s \in Sides |-> <<>>]
    BY <1>8 DEF Reset
  <2>2. \A s \in Sides : box'[s].who = subject' /\ box'[s].laid = <<>>
    BY <2>1 DEF CInv, Pristine
  <2>3. Pristine' BY <2>1 DEF CInv, Pristine
  <2> QED BY <2>1, <2>2, <2>3, Rewritten DEF CInv
<1>9. ASSUME NEW a \in Clicks, NEW t \in Templates,
             NEW targets \in {Sides, {"expanded"}}, Apply(a, t, targets)
      PROVE  CInv'
  <2> DEFINE todo == Pending(t, targets)
             do == [t |-> t, todo |-> todo, sent |-> box[Following(todo)]]
  <2>1. applying' = [applying EXCEPT ![a] = do] /\ Crosses /\ UNCHANGED form
    BY <1>9 DEF Apply
  <2>2. do.t = t /\ do.todo = todo /\ do.sent = box[Following(todo)] OBVIOUS
  <2>3. \A s \in todo : s \in Sides /\ ~Holds(narrowings[s], t) BY DEF Pending, Sides
  <2> HIDE DEF do, todo
  <2>4. \A b \in Clicks : applying'[b] = IF b = a THEN do ELSE applying[b]
    BY <2>1 DEF NInv, NarrowSent
  <2>5. ASSUME ~crossed' PROVE Chips'
    <3>1. Chips /\ \A b \in Clicks : applying[b].todo = {}
      BY <2>1, <2>5 DEF Crosses, InFlight, CInv
    <3>2. ASSUME NEW b \in Clicks PROVE Sends(b)'
      <4>1. CASE b = a BY <4>1, <2>1, <2>2, <2>3, <2>4, <3>1 DEF Sends, form
      <4>2. CASE b # a BY <4>2, <2>4, <3>1 DEF Sends
      <4> QED BY <4>1, <4>2
    <3> QED BY <2>1, <3>1, <3>2 DEF Chips, Told, form
  <2> QED BY <2>1, <2>5 DEF CInv, Pristine, form
<1>10. ASSUME NEW a \in Clicks, Applied(a) PROVE CInv'
  <2> DEFINE do == applying[a]
             s == Following(do.todo)
             rest == do.todo \ {s}
             x == Narrowed(do.sent, do.t)
             next == [t |-> do.t, todo |-> rest, sent |-> box[Following(rest)]]
  <2>1. /\ do.todo # {} /\ box' = [box EXCEPT ![s] = x]
        /\ narrowings' = [narrowings EXCEPT ![s] = Append(@, do.t)]
        /\ UNCHANGED <<generated, subject, crossed>>
        /\ \/ rest # {} /\ applying' = [applying EXCEPT ![a] = next]
           \/ applying' = [applying EXCEPT ![a] = None]
    BY <1>10 DEF Applied
  <2>2. do.t \in Templates /\ do.todo \subseteq Sides /\ Narrow(do.sent)
    BY <2>1 DEF NInv, NarrowSent
  <2>3. s \in Sides /\ s \in do.todo /\ Following(rest) \in Sides
        /\ (rest # {} => Following(rest) # s)
    BY <2>1, <2>2 DEF Following, Sides
  <2>4. x.who = do.sent.who /\ x.hand = do.sent.hand /\ x.laid = Append(do.sent.laid, do.t)
    BY DEF Narrowed, Text
  <2>5. next.t = do.t /\ next.todo = rest /\ next.sent = box[Following(rest)] /\ None.todo = {}
    BY DEF None
  <2>6. narrowings \in [Sides -> Seq(Templates)] BY DEF CInv, Pristine
  <2>7. rest \subseteq do.todo /\ s \notin rest OBVIOUS
  <2> HIDE DEF x, next, s, rest
  <2>8. /\ \A r \in Sides : box'[r] = IF r = s THEN x ELSE box[r]
        /\ \A r \in Sides : narrowings'[r] = IF r = s THEN Append(narrowings[s], do.t)
                                             ELSE narrowings[r]
        /\ narrowings' \in [Sides -> Seq(Templates)]
        /\ \A b \in Clicks \ {a} : applying'[b] = applying[b]
        /\ (rest # {} /\ applying'[a] = next) \/ applying'[a] = None
    BY <2>1, <2>2, <2>3, <2>6 DEF NInv, NarrowBoxes, NarrowSent
  <2>9. ASSUME ~crossed PROVE Chips'
    <3>1. Chips BY <2>9 DEF CInv
    <3>2. /\ do.sent = box[s] /\ \A r \in do.todo : ~Holds(narrowings[r], do.t)
          /\ \A b \in Clicks : applying[b].todo # {} => b = a
      BY <3>1, <2>1 DEF Chips, Sends, s
    <3>3. Told(x, Append(narrowings[s], do.t))
      <4>1. Told(box[s], narrowings[s]) BY <3>1, <2>3 DEF Chips
      <4>2. ASSUME ~x.hand
            PROVE  /\ Append(narrowings[s], do.t) = x.laid
                   /\ \A i, j \in DOMAIN x.laid : x.laid[i] = x.laid[j] => i = j
        <5>1. narrowings[s] = do.sent.laid
              /\ \A i, j \in DOMAIN do.sent.laid : do.sent.laid[i] = do.sent.laid[j] => i = j
          BY <4>1, <4>2, <2>4, <3>2 DEF Told
        <5>2. do.sent.laid \in Seq(Templates) /\ ~Holds(do.sent.laid, do.t)
          BY <5>1, <2>3, <2>6, <3>2
        <5> HIDE DEF do
        <5> QED BY <5>1, <5>2, <2>2, <2>4, AppendsOnce
      <4> QED BY <4>1, <4>2, <2>4, <3>2 DEF Told
    <3>4. \A r \in Sides : Told(box[r], narrowings[r])'
      <4> SUFFICES ASSUME NEW r \in Sides PROVE Told(box[r], narrowings[r])' OBVIOUS
      <4>1. CASE r = s BY <4>1, <3>3, <2>1, <2>8 DEF Told
      <4>2. CASE r # s BY <4>2, <3>1, <2>1, <2>8 DEF Chips, Told
      <4> QED BY <4>1, <4>2
    <3>5. ASSUME NEW b \in Clicks, applying'[b].todo # {} PROVE Sends(b)'
      <4>1. b = a /\ rest # {} /\ applying'[a] = next BY <3>2, <3>5, <2>5, <2>8
      <4>2. applying'[b].sent = box'[Following(rest)] BY <4>1, <2>3, <2>5, <2>8
      <4>3. \A r \in rest : ~Holds(narrowings'[r], do.t)
        BY <2>2, <2>7, <2>8, <3>2
      <4>4. \A c \in Clicks : applying'[c].todo # {} => c = b BY <4>1, <3>2, <2>8
      <4> QED BY <4>1, <4>2, <4>3, <4>4, <2>5 DEF Sends
    <3>6. \A b \in Clicks : Sends(b)' BY <3>5 DEF Sends
    <3> QED BY <3>4, <3>6 DEF Chips
  <2>10. Pristine' BY <2>1, <2>8 DEF CInv, Pristine
  <2> QED BY <2>1, <2>9, <2>10 DEF CInv
<1>11. ASSUME NEW a \in Clicks, ApplyFails(a) PROVE CInv' BY <1>2, <1>11 DEF ApplyFails
<1>12. CASE Run BY <1>1, <1>12 DEF Run
<1>13. CASE UNCHANGED vars BY <1>1, <1>13 DEF vars
<1> QED BY <1>3, <1>4, <1>5, <1>6, <1>7, <1>8, <1>9, <1>10, <1>11, <1>12, <1>13 DEF Next

\* For any people, narrowings, edits and number of clicks: while no narrowing has
\* been crossed, every box is of the person shown, and one without a hand edit
\* holds the narrowings of its chips, each once (app.js:968).
THEOREM ChipsAreTrue == Spec => []ChipsTell
<1>1. Init => CInv
  <2> SUFFICES ASSUME Init PROVE CInv OBVIOUS
  <2>1. /\ box = [s \in Sides |-> Blank] /\ generated = box /\ subject = Nobody
        /\ narrowings = [s \in Sides |-> <<>>] /\ applying = [a \in Clicks |-> None]
    BY DEF Init
  <2>2. Blank.who = Nobody /\ Blank.laid = <<>> /\ None.todo = {} BY DEF Blank, Text, None
  <2>3. \A s \in Sides : Told(box[s], narrowings[s]) BY <2>1, <2>2 DEF Told
  <2>4. \A a \in Clicks : Sends(a) BY <2>1, <2>2 DEF Sends
  <2>5. Pristine BY <2>1, <2>2 DEF Pristine
  <2> QED BY <2>3, <2>4, <2>5 DEF CInv, Chips
<1>2. CInv => ChipsTell BY DEF CInv, Chips, Told, ChipsTell
<1> QED BY <1>1, <1>2, CStep, NInit, NStep, PTL DEF Spec

-------------------------------------------------------------------------------
(* The premise of the comparison: a text that no hand has touched matches  *)
(* what its person's query does and every narrowing laid on it does.       *)

Plain(p, s) == IF s = "naive" THEN NaiveKql(Person[p]) ELSE ExpandedKql(Person[p])

Laid(x, s) ==
    {m \in Meaning(Plain(x.who, s)) :
        \A i \in DOMAIN x.laid : m \in Meaning(Fragment(x.laid[i]))}

Exact(x, s) ==
    ~x.hand /\ x.who # Nobody =>
        Person[x.who].primary \notin Illegal /\ Meaning(x.terms) = Laid(x, s)

EInv ==
    /\ \A s \in Sides : Exact(box[s], s) /\ Exact(generated[s], s)
    /\ \A a \in Clicks : applying[a].todo # {} =>
          Exact(applying[a].sent, Following(applying[a].todo))

LEMMA WrittenIsExact ==
    ASSUME NEW p, NEW s \in Sides, Expands(Person[p])
    PROVE  Exact(Written(p, s), s)
<1> DEFINE x == Written(p, s)
<1>1. x.who = p /\ x.laid = <<>> /\ x.terms = Plain(p, s) BY DEF Written, Text, Plain
<1> HIDE DEF x
<1>2. Laid(x, s) = Meaning(x.terms) BY <1>1 DEF Laid
<1>3. Exact(x, s) BY <1>1, <1>2 DEF Exact, Expands
<1> QED BY <1>3 DEF x

LEMMA NarrowedIsExact ==
    ASSUME NEW x, NEW t \in Templates, NEW s \in Sides, Narrow(x), Exact(x, s)
    PROVE  Exact(Narrowed(x, t), s)
<1> DEFINE y == Narrowed(x, t)
           F == Meaning(Fragment(t))
           group == "group" \in x.form
<1>1. IsText(x.terms) /\ IsText(Fragment(t)) /\ group \in BOOLEAN
  BY OneMeaning DEF Narrow, Fragment, Built
<1>2. /\ y.who = x.who /\ y.hand = x.hand /\ y.laid = Append(x.laid, t)
      /\ y.terms = Compose(x.terms, group, Fragment(t))
  BY DEF Narrowed, Text
<1>3. ~x.hand => Meaning(y.terms) = Meaning(x.terms) \cap F
  <2> SUFFICES ASSUME ~x.hand PROVE Meaning(y.terms) = Meaning(x.terms) \cap F
    OBVIOUS
  <2>1. ~group BY DEF Narrow
  <2> HIDE DEF group
  <2>2. y.terms = <<Meaning(x.terms) \cap F>> BY <1>1, <1>2, <2>1, ComposeNarrows
  <2> QED BY <2>2, OneMeaning
<1> HIDE DEF y, F, group
<1>4. SUFFICES ASSUME ~x.hand, x.who # Nobody PROVE Meaning(y.terms) = Laid(y, s)
               /\ Person[x.who].primary \notin Illegal
  BY <1>2 DEF Exact, y
<1>5. Meaning(x.terms) = Laid(x, s) /\ Person[x.who].primary \notin Illegal
  BY <1>4 DEF Exact
<1>6. x.laid \in Seq(Templates) BY DEF Narrow
<1>7. ASSUME NEW m
      PROVE  (\A i \in DOMAIN y.laid : m \in Meaning(Fragment(y.laid[i])))
                <=> /\ \A i \in DOMAIN x.laid : m \in Meaning(Fragment(x.laid[i]))
                    /\ m \in F
  <2>1. /\ DOMAIN x.laid = 1..Len(x.laid) /\ DOMAIN y.laid = 1..(Len(x.laid) + 1)
        /\ Len(x.laid) \in Nat /\ y.laid[Len(x.laid) + 1] = t
        /\ \A i \in 1..Len(x.laid) : y.laid[i] = x.laid[i]
    BY <1>2, <1>6
  <2>2. \A i \in DOMAIN y.laid : i \in DOMAIN x.laid \/ i = Len(x.laid) + 1 BY <2>1
  <2>3. DOMAIN x.laid \subseteq DOMAIN y.laid /\ Len(x.laid) + 1 \in DOMAIN y.laid BY <2>1
  <2> QED BY <2>1, <2>2, <2>3 DEF F
<1>8. Laid(y, s) = Laid(x, s) \cap F BY <1>2, <1>7 DEF Laid
<1> QED BY <1>3, <1>4, <1>5, <1>8

LEMMA EStep == NInv /\ EInv /\ [Next]_vars => EInv'
<1> SUFFICES ASSUME NInv, EInv, [Next]_vars PROVE EInv' OBVIOUS
<1>1. ASSUME UNCHANGED <<box, generated, applying>> PROVE EInv' BY <1>1 DEF EInv
<1>2. ASSUME NEW p \in People, Expand(p) PROVE EInv' BY <1>1, <1>2 DEF Expand, form
<1>3. CASE Expanded
  <2>1. /\ box' = [s \in Sides |-> Written(expanding, s)] /\ generated' = box'
        /\ Expands(Person[expanding]) /\ UNCHANGED applying
    BY <1>3 DEF Expanded
  <2>2. \A s \in Sides : Exact(Written(expanding, s), s) BY <2>1, WrittenIsExact
  <2> QED BY <2>1, <2>2 DEF EInv
<1>4. CASE ExpandFails BY <1>1, <1>4 DEF ExpandFails, form
<1>5. ASSUME NEW s \in Sides, Edit(s) PROVE EInv'
  <2>1. PICK h \in HandTexts : box' = [box EXCEPT ![s] = ByHand(box[s].who, h)]
    BY <1>5 DEF Edit
  <2> DEFINE x == ByHand(box[s].who, h)
  <2>2. x.hand = TRUE BY DEF ByHand, Text
  <2>3. box' = [box EXCEPT ![s] = x] BY <2>1
  <2> HIDE DEF x
  <2>4. \A r \in Sides : box'[r] = IF r = s THEN x ELSE box[r]
    BY <2>3 DEF NInv, NarrowBoxes
  <2>5. \A r \in Sides : Exact(box'[r], r) BY <2>2, <2>4 DEF EInv, Exact
  <2>6. UNCHANGED <<generated, applying>> BY <1>5 DEF Edit
  <2> QED BY <2>5, <2>6 DEF EInv
<1>6. ASSUME NEW s \in Sides, Searched(s) \/ SearchFails(s) PROVE EInv'
  <2>1. UNCHANGED applying /\ (Clears \/ UNCHANGED form)
    BY <1>6 DEF Searched, SearchFails, ChainEnds
  <2>2. CASE Clears
    <3>1. box' = [r \in Sides |-> Blank] /\ generated' = box' BY <2>2 DEF Clears
    <3>2. \A r \in Sides : Exact(Blank, r) BY DEF Exact, Blank, Text
    <3> QED BY <2>1, <3>1, <3>2 DEF EInv
  <2> QED BY <1>1, <2>1, <2>2 DEF form
<1>7. CASE Reset
  <2>1. box' = generated /\ UNCHANGED <<generated, applying>> BY <1>7 DEF Reset
  <2> QED BY <2>1 DEF EInv
<1>8. ASSUME NEW a \in Clicks, NEW t \in Templates,
             NEW targets \in {Sides, {"expanded"}}, Apply(a, t, targets)
      PROVE  EInv'
  <2> DEFINE todo == Pending(t, targets)
             do == [t |-> t, todo |-> todo, sent |-> box[Following(todo)]]
  <2>1. applying' = [applying EXCEPT ![a] = do] /\ UNCHANGED <<box, generated>>
    BY <1>8 DEF Apply, form
  <2>2. do.todo = todo /\ do.sent = box[Following(todo)] OBVIOUS
  <2>3. Following(todo) \in Sides BY DEF Following, Sides
  <2> HIDE DEF do, todo
  <2>4. \A b \in Clicks : applying'[b] = IF b = a THEN do ELSE applying[b]
    BY <2>1 DEF NInv, NarrowSent
  <2> QED BY <2>1, <2>2, <2>3, <2>4 DEF EInv
<1>9. ASSUME NEW a \in Clicks, Applied(a) PROVE EInv'
  <2> DEFINE do == applying[a]
             s == Following(do.todo)
             rest == do.todo \ {s}
             x == Narrowed(do.sent, do.t)
             next == [t |-> do.t, todo |-> rest, sent |-> box[Following(rest)]]
  <2>1. /\ do.todo # {} /\ box' = [box EXCEPT ![s] = x] /\ UNCHANGED generated
        /\ \/ applying' = [applying EXCEPT ![a] = next]
           \/ applying' = [applying EXCEPT ![a] = None]
    BY <1>9 DEF Applied
  <2>2. do.t \in Templates /\ Narrow(do.sent) /\ Exact(do.sent, s)
    BY <2>1 DEF NInv, NarrowSent, EInv
  <2>3. s \in Sides /\ Following(rest) \in Sides BY DEF Following, Sides
  <2>4. Exact(x, s) BY <2>2, <2>3, NarrowedIsExact
  <2>5. next.todo = rest /\ next.sent = box[Following(rest)] /\ None.todo = {} BY DEF None
  <2> HIDE DEF x, next, s, rest
  <2>6. /\ \A r \in Sides : box'[r] = IF r = s THEN x ELSE box[r]
        /\ \A b \in Clicks \ {a} : applying'[b] = applying[b]
        /\ applying'[a] = next \/ applying'[a] = None
    BY <2>1, <2>3 DEF NInv, NarrowBoxes, NarrowSent
  <2>7. \A r \in Sides : Exact(box'[r], r) BY <2>4, <2>6 DEF EInv
  <2>8. \A b \in Clicks : applying'[b].todo # {} =>
            Exact(applying'[b].sent, Following(applying'[b].todo))
    BY <2>3, <2>5, <2>6 DEF EInv
  <2> QED BY <2>1, <2>7, <2>8 DEF EInv
<1>10. ASSUME NEW a \in Clicks, ApplyFails(a) PROVE EInv'
  <2>1. applying' = [applying EXCEPT ![a] = None] /\ UNCHANGED <<box, generated>>
    BY <1>10 DEF ApplyFails, form
  <2>2. \A b \in Clicks : applying'[b] = IF b = a THEN None ELSE applying[b]
    BY <2>1 DEF NInv, NarrowSent
  <2> QED BY <2>1, <2>2 DEF EInv, None
<1>11. CASE Run BY <1>1, <1>11 DEF Run, form
<1>12. CASE UNCHANGED vars BY <1>1, <1>12 DEF vars, form
<1> QED BY <1>2, <1>3, <1>4, <1>5, <1>6, <1>7, <1>8, <1>9, <1>10, <1>11, <1>12 DEF Next

LEMMA NaiveWithinExpanded ==
    ASSUME NEW p, Person[p].primary \in Addressed, Person[p].primary \notin Illegal
    PROVE  Meaning(Plain(p, "naive")) \subseteq Meaning(Plain(p, "expanded"))
<1> DEFINE me == Person[p]
           A == {With(v) : v \in Quotable(Addresses(me))}
           B == {About(v) : v \in Quotable(Mentions(me))}
<1>1. Plain(p, "naive") = <<{With(me.primary)}>> BY DEF Plain, NaiveKql
<1>2. Plain(p, "expanded") = <<Meaning(<<A, B>>)>> BY DEF Plain, ExpandedKql, Bracketed
<1>3. With(me.primary) \in A
  BY DEF Addresses, Quotable
<1> HIDE DEF A, B
<1>4. A \subseteq Meaning(<<A, B>>)
  <2>1. 1 \in DOMAIN <<A, B>> /\ <<A, B>>[1] = A OBVIOUS
  <2> QED BY <2>1 DEF Meaning
<1> QED BY <1>1, <1>2, <1>3, <1>4, OneMeaning

\* For every person, directory and narrowing: with the same narrowings and no
\* edit, what the naive query matches the expanded one matches too, if the primary
\* address has an "@" - whatever was laid, reset and run in between
\* (identity/expand.py, app.js:982).
THEOREM ExpandedCovers == Spec => []ExpandedCoversNaive
<1>1. Init => EInv
  <2> SUFFICES ASSUME Init PROVE EInv OBVIOUS
  <2>1. /\ box = [s \in Sides |-> Blank] /\ generated = box
        /\ applying = [a \in Clicks |-> None]
    BY DEF Init
  <2>2. \A s \in Sides : Exact(Blank, s) BY DEF Exact, Blank, Text
  <2> QED BY <2>1, <2>2 DEF EInv, None
<1>2. EInv => ExpandedCoversNaive
  <2> SUFFICES ASSUME EInv, box.naive.who = box.expanded.who, box.naive.who # Nobody,
                      Person[box.naive.who].primary \in Addressed,
                      box.naive.laid = box.expanded.laid, \A s \in Sides : ~box[s].hand
               PROVE  Meaning(box.naive.terms) \subseteq Meaning(box.expanded.terms)
    BY DEF ExpandedCoversNaive
  <2>1. "naive" \in Sides /\ "expanded" \in Sides BY DEF Sides
  <2>2. /\ Exact(box.naive, "naive") /\ Exact(box.expanded, "expanded")
        /\ ~box.naive.hand /\ ~box.expanded.hand
    BY <2>1 DEF EInv
  <2>3. /\ Meaning(box.naive.terms) = Laid(box.naive, "naive")
        /\ Meaning(box.expanded.terms) = Laid(box.expanded, "expanded")
        /\ Person[box.naive.who].primary \notin Illegal
    BY <2>2 DEF Exact
  <2>4. Meaning(Plain(box.naive.who, "naive")) \subseteq Meaning(Plain(box.naive.who, "expanded"))
    BY <2>3, NaiveWithinExpanded
  <2> QED BY <2>3, <2>4 DEF Laid
<1> QED BY <1>1, <1>2, EStep, NInit, NStep, PTL DEF Spec

-------------------------------------------------------------------------------
(* Asking: a text the page wrote itself has a participants: clause or a    *)
(* narrowing, so the one that has neither was edited, and Run asks.        *)

Answerable(s, x, asked) ==
    Unscoped(x) => s \in asked \/ "address" \in x.form \/ x.laid # <<>>

IsRun(r) == r = [asked |-> r.asked, left |-> r.left, failed |-> r.failed, text |-> r.text]

SInv ==
    /\ current = [s \in Sides |-> current[s]]
    /\ IsRun(run)
    /\ subject # Nobody => \A s \in Sides :
          /\ Unscoped(current[s]) => current[s].laid # <<>>
          /\ ~Unscoped(generated[s])
    /\ \A s \in run.left : Answerable(s, run.text[s], run.asked)
    /\ UnscopedWasAsked

LEMMA WrittenIsScoped == ASSUME NEW p, NEW s PROVE ~Unscoped(Written(p, s))
BY DEF Unscoped, Written, Text

LEMMA SStep == NInv /\ SInv /\ [Next]_vars => SInv'
<1> SUFFICES ASSUME NInv, SInv, [Next]_vars PROVE SInv' OBVIOUS
<1>1. ASSUME UNCHANGED <<current, generated, subject, run, created>> PROVE SInv'
  BY <1>1 DEF SInv, UnscopedWasAsked, Answerable, Unscoped, IsRun
<1>2. ASSUME NEW p \in People, Expand(p) PROVE SInv' BY <1>1, <1>2 DEF Expand, form
<1>3. CASE Expanded
  <2>1. /\ generated' = [s \in Sides |-> Written(expanding, s)] /\ current' = generated'
        /\ UNCHANGED <<run, created>> /\ IsRun(run)'
    BY <1>3 DEF Expanded, SInv, IsRun
  <2>2. \A s \in Sides : ~Unscoped(generated'[s]) /\ ~Unscoped(current'[s])
    BY <2>1, WrittenIsScoped
  <2>3. UnscopedWasAsked' BY <2>1 DEF SInv, UnscopedWasAsked, Unscoped
  <2>4. \A s \in Sides : ~Unscoped(generated[s])' /\ ~Unscoped(current[s])'
    BY <2>2 DEF Unscoped
  <2>5. \A s \in run'.left : Answerable(s, run'.text[s], run'.asked) BY <2>1 DEF SInv
  <2>6. (\A s \in run.left : Answerable(s, run.text[s], run.asked))'
    BY <2>5 DEF Answerable, Unscoped
  <2> QED BY <2>1, <2>3, <2>4, <2>6 DEF SInv
<1>4. CASE ExpandFails BY <1>1, <1>4 DEF ExpandFails, form
<1>5. ASSUME NEW s \in Sides, Edit(s) PROVE SInv'
  <2>1. UNCHANGED <<current, generated, subject, run, created>> BY <1>5 DEF Edit
  <2> QED BY <2>1, <1>1
<1>6. ASSUME NEW s \in Sides, Searched(s) \/ SearchFails(s) PROVE SInv'
  <2>1. /\ s \in run.left
        /\ (run' = NoRun \/ \E b : run' = [run EXCEPT !.left = @ \ {s}, !.failed = b])
        /\ Clears \/ UNCHANGED form
    BY <1>6 DEF Searched, SearchFails, ChainEnds
  <2>2. /\ IsRun(run)'
        /\ \A r \in run'.left : r \in run.left /\ run'.text = run.text /\ run'.asked = run.asked
    <3>1. CASE run' = NoRun BY <3>1 DEF NoRun, IsRun
    <3>2. ASSUME NEW b, run' = [run EXCEPT !.left = @ \ {s}, !.failed = b]
          PROVE  run' = [asked |-> run.asked, left |-> run.left \ {s}, failed |-> b,
                         text |-> run.text]
      BY <3>2 DEF SInv, IsRun
    <3> QED BY <2>1, <3>1, <3>2 DEF IsRun
  <2>3. UnscopedWasAsked'
    <3>1. CASE UNCHANGED created BY <3>1 DEF SInv, UnscopedWasAsked, Unscoped
    <3>2. CASE Searched(s)
      <4> DEFINE c == [side |-> s, text |-> run.text[s], asked |-> run.asked]
      <4>1. created' = created \cup {c} /\ Accepts(s) BY <3>2 DEF Searched
      <4>2. c.side = s /\ c.text = run.text[s] /\ c.asked = run.asked OBVIOUS
      <4>3. Answerable(s, run.text[s], run.asked) BY <2>1 DEF SInv
      <4> HIDE DEF c
      <4>4. Unscoped(c.text) => /\ c.asked # {}
                                /\ \/ c.side \in c.asked \/ "address" \in c.text.form
                                   \/ c.text.laid # <<>>
        BY <4>1, <4>2, <4>3 DEF Accepts, Answerable
      <4> QED BY <4>1, <4>4 DEF SInv, UnscopedWasAsked, Unscoped
    <3> QED BY <1>6, <3>1, <3>2 DEF SearchFails
  <2>4. (\A r \in run.left : Answerable(r, run.text[r], run.asked))'
    BY <2>2 DEF SInv, Answerable, Unscoped
  <2>5. CASE Clears
    <3>1. current' = [r \in Sides |-> Blank] /\ subject' = Nobody BY <2>5 DEF Clears
    <3> QED BY <3>1, <2>2, <2>3, <2>4 DEF SInv
  <2>6. CASE UNCHANGED form BY <2>2, <2>3, <2>4, <2>6 DEF SInv, form, Unscoped
  <2> QED BY <2>1, <2>5, <2>6
<1>7. CASE Reset
  <2>1. current' = generated /\ UNCHANGED <<generated, subject, run, created>>
    BY <1>7 DEF Reset
  <2>2. generated = [s \in Sides |-> generated[s]] BY DEF NInv, NarrowBoxes
  <2> QED BY <2>1, <2>2 DEF SInv, UnscopedWasAsked, Answerable, Unscoped, IsRun
<1>8. ASSUME NEW a \in Clicks, NEW t \in Templates,
             NEW targets \in {Sides, {"expanded"}}, Apply(a, t, targets)
      PROVE  SInv'
  BY <1>1, <1>8 DEF Apply, form
<1>9. ASSUME NEW a \in Clicks, Applied(a) PROVE SInv'
  <2> DEFINE do == applying[a]
             s == Following(do.todo)
             x == Narrowed(do.sent, do.t)
  <2>1. /\ do.todo # {} /\ UNCHANGED <<generated, subject, run, created>>
        /\ current' = IF subject = Nobody THEN current ELSE [current EXCEPT ![s] = x]
    BY <1>9 DEF Applied
  <2>2. do.sent.laid \in Seq(Templates) BY <2>1 DEF NInv, NarrowSent, Narrow
  <2>3. x.laid = Append(do.sent.laid, do.t) BY DEF Narrowed, Text
  <2>4. x.laid # <<>> BY <2>2, <2>3
  <2> HIDE DEF s, x
  <2>5. CASE subject = Nobody BY <1>1, <2>1, <2>5
  <2>6. CASE subject # Nobody
    <3>1. current' = [current EXCEPT ![s] = x] BY <2>1, <2>6
    <3>2. current' = [r \in Sides |-> current'[r]]
          /\ \A r \in Sides : current'[r] = IF r = s THEN x ELSE current[r]
      BY <3>1 DEF SInv
    <3>3. \A r \in Sides : Unscoped(current'[r]) => current'[r].laid # <<>>
      BY <2>4, <2>6, <3>2 DEF SInv
    <3> QED BY <2>1, <2>6, <3>2, <3>3 DEF SInv, UnscopedWasAsked, Answerable, Unscoped, IsRun
  <2> QED BY <2>5, <2>6
<1>10. ASSUME NEW a \in Clicks, ApplyFails(a) PROVE SInv'
  BY <1>1, <1>10 DEF ApplyFails, form
<1>11. CASE Run
  <2>1. /\ run' = [asked |-> Missing, left |-> Sides, failed |-> FALSE, text |-> box]
        /\ subject # Nobody /\ UNCHANGED <<current, generated, subject, created>>
    BY <1>11 DEF Run, form
  <2>2. run'.asked = Missing /\ run'.left = Sides /\ run'.text = box /\ IsRun(run)'
    BY <2>1 DEF IsRun
  <2>3. \A s \in Sides : Answerable(s, box[s], Missing)
    BY <2>1 DEF SInv, Answerable, Missing
  <2>4. (\A s \in run.left : Answerable(s, run.text[s], run.asked))'
    BY <2>2, <2>3 DEF Answerable, Unscoped
  <2> QED BY <2>1, <2>2, <2>4 DEF SInv, UnscopedWasAsked, Unscoped
<1>12. CASE UNCHANGED vars BY <1>1, <1>12 DEF vars, form
<1> QED BY <1>2, <1>3, <1>4, <1>5, <1>6, <1>7, <1>8, <1>9, <1>10, <1>11, <1>12 DEF Next

\* For any hand edits and any order of edits, narrowings and runs: no search
\* without a participants: clause is created unless the operator was asked, about
\* that query unless it names the address or has a narrowing (app.js confirmScope,
\* api.py _create_search).
THEOREM WordsAloneAreAsked == Spec => []UnscopedWasAsked
<1>1. Init => SInv
  BY DEF Init, SInv, NoRun, IsRun, UnscopedWasAsked
<1>2. SInv => UnscopedWasAsked BY DEF SInv
<1> QED BY <1>1, <1>2, SStep, NInit, NStep, PTL DEF Spec
===============================================================================
