------------------------------- MODULE MCQueries -------------------------------
(* Queries for TLC: two people, one of them with an alias that KQL cannot   *)
(* quote, the other typed without an "@" and found by number; a narrowing   *)
(* of one clause and one of two; hand edits that leave a bare OR with the   *)
(* address as words only, or words alone that look like a group.            *)
EXTENDS Queries, TLC

ann == [primary |-> "ann@", others |-> {}, aliases |-> {"ann-quoted"}, names |-> {"ann"},
        employee |-> "none"]
bob == [primary |-> "bob", others |-> {}, aliases |-> {}, names |-> {}, employee |-> "E7"]

WithAt == {"ann@", "a.smith@", "b@", "someone@"}
Records ==
    {[mail |-> "ann@", upn |-> "a.smith@", proxies |-> {}, others |-> {}, names |-> {},
      employee |-> "E1"],
     [mail |-> "b@", upn |-> "b@", proxies |-> {}, others |-> {}, names |-> {"jones"},
      employee |-> "E7"]}

Persons == "ann" :> ann @@ "bob" :> bob

Mail == {With("ann@"), With("a.smith@"), With("someone@")}

Narrowing(builder, values, properties) ==
    [builder |-> builder, values |-> values, properties |-> properties]
Inputs == "workload" :> Narrowing("choice", {}, {Mail})
       @@ "third_party" :> Narrowing("people_or", {"someone@", "grievance"}, {})

Hands == {[terms |-> <<{About("ann@")}, {With("someone@")}>>, names |-> "ann",
           form |-> {"address"}],
          [terms |-> <<{About("(")}, {About("grievance")}>>, names |-> Nobody,
           form |-> {"group"}]}

ClickSymmetry == Permutations(Clicks)
===============================================================================
