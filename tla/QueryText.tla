-------------------------------- MODULE QueryText --------------------------------
(***************************************************************************)
(* What the text of a query matches, and the two ways the program writes   *)
(* one: from a person (identity/expand.py, identity/kql.py) and by laying  *)
(* a narrowing on a query that is already there (identity/templates.py).   *)
(*                                                                         *)
(* Data abstracted: a text is the sequence of the terms that a bare OR     *)
(* separates, each given by the items it matches; AND binds tighter than   *)
(* OR, so it joins the last term on its left with the first on its right.  *)
(* A bracketed text is one term.  What a hand may type is a query KQL can  *)
(* read, with its operators written out: quotes or parentheses that do not *)
(* match, and operators that KQL puts between words itself, are left out.  *)
(***************************************************************************)
EXTENDS Naturals, Sequences

CONSTANTS
    Addressed,  \* the values with an "@"
    Illegal,    \* those that KQL cannot quote (kql.py _ILLEGAL)
    Directory   \* the records of users; none when the lookup is switched off

\* A text has at least one term.
IsText(text) == text \in Seq({text[i] : i \in DOMAIN text}) /\ text # <<>>

Meaning(text) == UNION {text[i] : i \in DOMAIN text}

Bracketed(text) == <<Meaning(text)>>

\* text AND other, with no bracket added.
Joined(text, other) ==
    SubSeq(text, 1, Len(text) - 1)
        \o <<text[Len(text)] \cap other[1]>>
        \o SubSeq(other, 2, Len(other))

\* A text goes without brackets when it has no bare OR, or when it looks like
\* one group already: _wrapped_in_one_group counts the parentheses inside
\* quotes too, so a text of several terms, ("(") OR (a ")"), may pass for one.
Atomic(text, group) == group \/ Len(text) = 1

\* A slip: the brackets are left to the operator.
ComposeBare(text, group, fragment) == Joined(text, fragment)

\* What is laid on a text is a clause or a group (Built), never mistaken.
Compose(text, group, fragment) ==
    Joined(IF Atomic(text, group) THEN text ELSE Bracketed(text),
           IF Atomic(fragment, FALSE) THEN fragment ELSE Bracketed(fragment))

-------------------------------------------------------------------------------
(* A person p: the values the operator typed (primary, others, aliases,    *)
(* names) and an employee number, or none.                                 *)

\* An item that v sent or received, and one that has v among its words.
With(v) == <<"participant", v>>
About(v) == <<"words", v>>

\* find_users asks for the typed addresses as mail or sign-in name, and for the
\* employee number; aliases and the other addresses of a record find nobody.
Found(p) ==
    {r \in Directory :
        \/ {r.mail, r.upn} \cap ({p.primary} \cup p.others) # {}
        \/ (r.employee = p.employee /\ p.employee # "none")}

\* _identifiers_from
AddressesOf(r) == {r.mail, r.upn} \cup r.proxies \cup r.others

Addresses(p) ==
    {v \in {p.primary} \cup p.others \cup p.aliases
              \cup UNION {AddressesOf(r) : r \in Found(p)} : v \in Addressed}

\* The given name of a record is too broad and left out.
Mentions(p) ==
    {v \in p.names \cup p.aliases : v \notin Addressed} \cup UNION {r.names : r \in Found(p)}

\* _dedupe drops what cannot be quoted, and says nothing.
Quotable(values) == values \ Illegal

\* naive_kql raises on a primary that cannot be quoted, build_kql when no
\* address is left; there is no expansion without a primary.
Expands(p) == p.primary \notin Illegal /\ Quotable(Addresses(p)) # {}

NaiveKql(p) == <<{With(p.primary)}>>

\* A slip: an address is searched for among the words only.
ExpandedAsWords(p) ==
    Bracketed(<<{About(v) : v \in Quotable(Addresses(p))},
                {About(v) : v \in Quotable(Mentions(p))}>>)

\* One group of participants: clauses and quoted phrases.
ExpandedKql(p) ==
    Bracketed(<<{With(v) : v \in Quotable(Addresses(p))},
                {About(v) : v \in Quotable(Mentions(p))}>>)

-------------------------------------------------------------------------------
(* A narrowing n: the builder of its template, the values it is given (the  *)
(* template's and the operator's), and what the property clauses it makes   *)
(* of them match.                                                           *)

Clauses(n) ==
    CASE n.builder = "phrase_or" -> {{About(v)} : v \in n.values}
      [] n.builder = "people_or" ->
            {{IF v \in Addressed THEN With(v) ELSE About(v)} : v \in n.values}
      [] n.builder \in {"date_range", "choice", "flag", "filetypes"} -> n.properties

\* A builder raises when it is given nothing, or what it cannot quote.
Builds(n) == Clauses(n) # {} /\ n.values = Quotable(n.values)

\* It adds a participants: clause of these.
Participants(n) == IF n.builder = "people_or" THEN {v \in n.values : v \in Addressed} ELSE {}

\* _or_group: one clause, or several in a bracket.
Built(n) == <<UNION Clauses(n)>>
===============================================================================
