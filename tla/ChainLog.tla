------------------------------- MODULE ChainLog -------------------------------
(***************************************************************************)
(* What the audit trail promises, with nothing said of how: a sequence of  *)
(* records that only grows, one record at a time, each chained to the one  *)
(* before it and numbered one above it, and no call recorded twice.        *)
(* AuditTrail.tla is the detailed module; with one replica and no request  *)
(* that lands behind its caller's back it implements this one.             *)
(***************************************************************************)
EXTENDS Naturals, Sequences

CONSTANT Events         \* what callers of AuditTrail.write ask to have recorded

VARIABLE chain          \* the records, in the order the verifier reads them

\* The record of event e placed at the end of c.  A record's hash is named by
\* its position, so the predecessor's hash is the position before.
Chained(c, e) == [seq |-> Len(c) + 1, prev |-> Len(c), ev |-> e]

Init == chain = <<>>

Record(e) ==
    /\ \A i \in DOMAIN chain : chain[i].ev # e
    /\ chain' = Append(chain, Chained(chain, e))

Next == \E e \in Events : Record(e)

Spec == Init /\ [][Next]_chain
===============================================================================
