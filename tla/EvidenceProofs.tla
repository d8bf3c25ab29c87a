----------------------------- MODULE EvidenceProofs -----------------------------
(***************************************************************************)
(* A trail that verifies is, up to the last of its lines that nobody has   *)
(* rewritten, the beginning of the trail that was written, however long it *)
(* is and whatever lines the file that is read holds; and the pack made of *)
(* the trail accounts for every record of its case, has a row for every    *)
(* search that was attempted, and shows every export that was started.     *)
(*                                                                         *)
(* The rows are computed record by record.  That each step of that does    *)
(* what it has to is RowsTurn; that the rows then are right after any      *)
(* number of records is SearchesAre, by the least number for which they    *)
(* would not be.  What it needs of the trail is Orderly: every answer      *)
(* follows an attempt of its own, which the handlers see to while no two   *)
(* of them create a search of one name in one case at once.                *)
(***************************************************************************)
EXTENDS Evidence, TLAPS, FiniteSetTheorems, WellFoundedInduction

IsSeq(t) == t \in Seq({t[i] : i \in DOMAIN t})

LEMMA Longer == ASSUME NEW t, NEW r, IsSeq(t)
                PROVE  /\ IsSeq(Append(t, r))
                       /\ Len(Append(t, r)) = Len(t) + 1
                       /\ Len(t) \in Nat
<1> DEFINE S == {t[i] : i \in DOMAIN t}
           u == Append(t, r)
           U == {u[i] : i \in DOMAIN u}
<1>1. t \in Seq(S) BY DEF IsSeq
<1> HIDE DEF S
<1>2. u \in Seq(S \cup {r}) /\ Len(u) = Len(t) + 1 /\ Len(t) \in Nat BY <1>1
<1> HIDE DEF u
<1>3. u \in Seq(U) BY <1>2
<1> QED BY <1>2, <1>3 DEF IsSeq, u, U

\* What the verifier knows of the lines read while it has found no break: they
\* are numbered from one, and a line with the hash of a record that was written is
\* that record, as all lines before it are.
IsRecord(k) == k <= Len(trail) /\ seen[k].hash = k
Vouched ==
    \A k \in DOMAIN seen :
        /\ seen[k].seq = k /\ seen[k].sound /\ seen[k].hash \in Nat
        /\ seen[k].hash <= Len(trail) => \A j \in 1..k : IsRecord(j)

VInv == IsSeq(trail) /\ IsSeq(seen) /\ (intact => Vouched)

LEMMA VInit == Init => VInv
<1> SUFFICES ASSUME Init PROVE VInv OBVIOUS
<1>1. trail = <<>> /\ seen = <<>> BY DEF Init
<1>2. DOMAIN seen = {} /\ IsSeq(<<>>) BY <1>1 DEF IsSeq
<1> QED BY <1>1, <1>2 DEF VInv, Vouched

\* The trail grows while nothing is read.
LEMMA Growing ==
    ASSUME VInv, UNCHANGED reading,
           UNCHANGED trail \/ (Resting /\ \E r : trail' = Append(trail, r))
    PROVE  VInv'
<1>1. CASE UNCHANGED trail BY <1>1 DEF VInv, Vouched, IsRecord, reading, IsSeq
<1>2. CASE Resting /\ \E r : trail' = Append(trail, r)
  <2>1. IsSeq(trail') BY <1>2, Longer DEF VInv
  <2>2. seen' = <<>> BY <1>2 DEF Resting, reading
  <2> QED BY <2>1, <2>2 DEF VInv, Vouched, reading
<1> QED BY <1>1, <1>2

LEMMA Reading == VInv /\ ReadLine => VInv'
<1> SUFFICES ASSUME VInv, ReadLine PROVE VInv' OBVIOUS
<1>1. PICK line \in Lines : seen' = Append(seen, line) /\ intact' = Fits(line)
  BY DEF ReadLine
<1>2. intact /\ trail' = trail BY DEF ReadLine, writing
<1>3. IsSeq(seen') /\ Len(seen') = Len(seen) + 1 /\ Len(seen) \in Nat
  BY <1>1, Longer DEF VInv
<1>4. Len(trail) \in Nat /\ DOMAIN trail = 1..Len(trail) BY Longer DEF VInv, IsSeq
<1>5. DOMAIN seen = 1..Len(seen) /\ DOMAIN seen' = 1..Len(seen) + 1
  BY <1>3 DEF VInv, IsSeq
<1>6. /\ Previous.seq = Len(seen) /\ Previous.hash \in Nat
      /\ Previous.hash <= Len(trail) => \A j \in 1..Len(seen) : IsRecord(j)
  <2>1. CASE seen = <<>> BY <2>1 DEF Previous
  <2>2. CASE seen # <<>>
    <3>1. Len(seen) \in DOMAIN seen BY <2>2, <1>3, <1>5 DEF VInv, IsSeq
    <3> QED BY <2>2, <3>1, <1>2 DEF Previous, VInv, Vouched
  <2> QED BY <2>1, <2>2
<1>7. ASSUME NEW k \in DOMAIN seen'
      PROVE  (k = Len(seen) + 1 /\ seen'[k] = line) \/ (k \in DOMAIN seen /\ seen'[k] = seen[k])
  <2>1. CASE k = Len(seen) + 1 BY <2>1, <1>1, <1>3 DEF VInv, IsSeq
  <2>2. CASE k \in DOMAIN seen BY <2>2, <1>1, <1>3, <1>5 DEF VInv, IsSeq
  <2> QED BY <2>1, <2>2, <1>3, <1>5
<1>8. ASSUME NEW k \in DOMAIN seen, IsRecord(k) PROVE IsRecord(k)'
  <2>1. k \in DOMAIN seen' /\ k # Len(seen) + 1 BY <1>3, <1>5
  <2> QED BY <2>1, <1>2, <1>7, <1>8 DEF IsRecord
<1>9. ASSUME intact' PROVE Vouched'
  <2>1. line.prev = Previous.hash /\ line.seq = Len(seen) + 1 /\ line.sound
    BY <1>1, <1>6, <1>9 DEF Fits
  <2>2. /\ line.hash \in Nat
        /\ line.hash <= Len(trail) =>
              line.hash = Len(seen) + 1 /\ Previous.hash <= Len(trail)
    <3>1. CASE line \in Kept BY <3>1, <1>4, <1>3, <2>1 DEF Kept
    <3>2. CASE line \in Forged BY <3>2, <1>4, <1>3 DEF Forged
    <3>3. CASE line \in Edited BY <3>3, <2>1 DEF Edited
    <3> QED BY <3>1, <3>2, <3>3 DEF Lines
  <2>3. ASSUME NEW k \in DOMAIN seen'
        PROVE  /\ seen'[k].seq = k /\ seen'[k].sound /\ seen'[k].hash \in Nat
               /\ seen'[k].hash <= Len(trail) => \A j \in 1..k : IsRecord(j)'
    <3>1. CASE k = Len(seen) + 1 /\ seen'[k] = line
      <4>1. ASSUME line.hash <= Len(trail), NEW j \in 1..k PROVE IsRecord(j)'
        <5>1. CASE j \in 1..Len(seen) BY <5>1, <4>1, <2>2, <1>5, <1>6, <1>8
        <5>2. CASE j = k BY <5>2, <4>1, <3>1, <2>2, <1>2 DEF IsRecord
        <5> QED BY <5>1, <5>2, <3>1, <1>3
      <4> QED BY <4>1, <3>1, <2>1, <2>2
    <3>2. CASE k \in DOMAIN seen /\ seen'[k] = seen[k]
      <4>1. 1..k \subseteq DOMAIN seen BY <3>2, <1>5, <1>3
      <4> QED BY <4>1, <3>2, <1>2, <1>8 DEF VInv, Vouched
    <3> QED BY <3>1, <3>2, <1>7
  <2> QED BY <2>3, <1>2 DEF Vouched
<1> QED BY <1>2, <1>3, <1>9 DEF VInv

LEMMA VStep == VInv /\ [Next]_vars => VInv'
<1> SUFFICES ASSUME VInv, [Next]_vars PROVE VInv' OBVIOUS
<1> DEFINE Grows == /\ UNCHANGED reading
                    /\ UNCHANGED trail \/ (Resting /\ \E r : trail' = Append(trail, r))
<1>1. ASSUME NEW act, NEW c, Denied(act, c) \/ Notes(act, c) PROVE Grows
  BY <1>1 DEF Denied, Notes, Writes
<1>2. ASSUME NEW act, NEW c, NEW x, NEW d, Begins(act, c, x, d) PROVE Grows
  BY <1>2 DEF Begins, Writes
<1>3. ASSUME NEW s, Estimates(s) \/ BeginsExport(s) PROVE Grows
  <2>1. CASE Estimates(s) BY <2>1 DEF Estimates, Writes
  <2>2. CASE BeginsExport(s) BY <2>2, <1>2 DEF BeginsExport
  <2> QED BY <1>3, <2>1, <2>2
<1>4. ASSUME NEW o, Done(o) \/ Answered(o) \/ Breaks(o) PROVE Grows
  BY <1>4 DEF Done, Answered, Breaks, Writes
<1>5. CASE ReadLine BY <1>5, Reading
<1>6. CASE UNCHANGED vars BY <1>6, Growing DEF vars, writing
<1>7. Grows => VInv' BY Growing
<1> HIDE DEF Grows
<1> QED BY <1>1, <1>2, <1>3, <1>4, <1>5, <1>6, <1>7 DEF Next

\* As long as verify_chain finds no break, a line it reads as it was written has
\* every record written before it before it, in its place and unchanged, for
\* trails and files of any length, records rewritten with a fresh hash among
\* their lines (verify.py:58).
THEOREM VerifiedIsWritten == Spec => []KeptLinesVouch
<1>1. VInv => KeptLinesVouch
  <2> SUFFICES ASSUME VInv, intact, NEW k \in DOMAIN seen PROVE
        /\ seen[k].sound
        /\ seen[k].hash \in DOMAIN trail =>
              \A j \in 1..seen[k].hash : k = seen[k].hash /\ seen[j].hash = j
      BY DEF KeptLinesVouch
  <2>1. DOMAIN trail = 1..Len(trail) /\ DOMAIN seen = 1..Len(seen) /\ k \in Nat
    BY DEF VInv, IsSeq
  <2>2. /\ seen[k].sound /\ seen[k].hash \in Nat
        /\ seen[k].hash <= Len(trail) => \A j \in 1..k : IsRecord(j)
    BY DEF VInv, Vouched
  <2> QED BY <2>1, <2>2 DEF IsRecord
<1> QED BY <1>1, VInit, VStep, PTL DEF Spec

-------------------------------------------------------------------------------
\* What the records, the operations under way and Purview have to do with one
\* another.

LEMMA LeastNat == ASSUME NEW T \in SUBSET Nat, T # {}
                  PROVE  \E n \in T : \A m \in T : n <= m
<1>1. PICK n \in T : \A m \in T : ~(<<m, n>> \in OpToRel(<, Nat))
  BY WFMin, NatLessThanWellFounded
<1>2. \A m \in T : ~(m < n) BY <1>1 DEF OpToRel
<1> QED BY <1>2

LEMMA Appended ==
    ASSUME NEW t, NEW r, IsSeq(t)
    PROVE  /\ Len(t) \in Nat /\ DOMAIN t = 1..Len(t) /\ Len(t) + 1 \notin DOMAIN t
           /\ DOMAIN Append(t, r) = DOMAIN t \cup {Len(t) + 1}
           /\ \A i \in DOMAIN t : Append(t, r)[i] = t[i]
           /\ Append(t, r)[Len(t) + 1] = r
           /\ IsSeq(Append(t, r)) /\ Len(Append(t, r)) = Len(t) + 1
<1>1. IsSeq(Append(t, r)) /\ Len(Append(t, r)) = Len(t) + 1 /\ Len(t) \in Nat BY Longer
<1>2. DOMAIN t = 1..Len(t) /\ DOMAIN Append(t, r) = 1..(Len(t) + 1) BY <1>1 DEF IsSeq
<1>3. PICK S : t \in Seq(S) BY DEF IsSeq
<1>4. /\ \A i \in DOMAIN t : Append(t, r)[i] = t[i]
      /\ Append(t, r)[Len(t) + 1] = r
  BY <1>3, <1>2
<1> QED BY <1>1, <1>2, <1>4

\* A case of reference d was attempted, by record j.
Asks(j, d) == trail[j].act = "case" /\ trail[j].out = "attempted" /\ trail[j].detail = d

\* Everything made belongs to a case, a case to itself.
Making ==
    \A i \in DOMAIN made :
        made[i].case \in Made("case") /\ (made[i].act = "case" => made[i].case = i)

\* What r says at place i is true of Purview and of the records before it.
Right(r, i) ==
    /\ r.out = "attempted" =>
          IF r.act = "case" THEN r.case = 0 ELSE r.case \in Made("case")
    /\ r.act = "case" /\ r.out = "ok" =>
          /\ r.case \in Made("case") /\ made[r.case].detail = r.detail
          /\ \E j \in DOMAIN trail : j < i /\ Asks(j, r.detail)

\* So it will be of what is recorded for o.
Fair(o) ==
    /\ o = [act |-> o.act, case |-> o.case, target |-> o.target, detail |-> o.detail,
            n |-> o.n, at |-> o.at]
    /\ o.act = "case" => \E j \in DOMAIN trail : Asks(j, o.detail)
    /\ o.act = "case" /\ o.at = "done" =>
          o.case \in Made("case") /\ made[o.case].detail = o.detail
    /\ o.act # "case" => o.case \in Made("case")

AllRight == \A i \in DOMAIN trail : Right(trail[i], i)
AllFair == \A o \in open : Fair(o)

NInv ==
    /\ IsSeq(trail) /\ IsSeq(made) /\ Making
    /\ AllRight /\ AllFair

LEMMA NInit == Init => NInv
<1> SUFFICES ASSUME Init PROVE NInv OBVIOUS
<1>1. trail = <<>> /\ made = <<>> /\ open = {} BY DEF Init
<1>2. DOMAIN trail = {} /\ DOMAIN made = {} /\ IsSeq(<<>>) BY <1>1 DEF IsSeq
<1> QED BY <1>1, <1>2 DEF NInv, Making, AllRight, AllFair

\* One more record, that is right.
LEMMA OneMore ==
    ASSUME NInv, NEW r, trail' = Append(trail, r), Right(r, Len(trail) + 1),
           UNCHANGED made,
           \A o \in open' : o \in open \/ Fair(o)'
    PROVE  NInv'
<1>1. /\ Len(trail) \in Nat /\ DOMAIN trail = 1..Len(trail)
      /\ DOMAIN trail' = DOMAIN trail \cup {Len(trail) + 1}
      /\ \A i \in DOMAIN trail : trail'[i] = trail[i]
      /\ trail'[Len(trail) + 1] = r
      /\ IsSeq(trail')
  BY Appended DEF NInv
<1>2. \A act : Made(act)' = Made(act) BY DEF Made
<1>3. \A j \in DOMAIN trail : \A d : Asks(j, d)' = Asks(j, d) BY <1>1 DEF Asks
<1>4. ASSUME NEW i \in DOMAIN trail', NEW x, x = trail'[i] PROVE Right(x, i)'
  <2>1. x = IF i \in DOMAIN trail THEN trail[i] ELSE r BY <1>1, <1>4
  <2>2. Right(x, i) BY <2>1, <1>1 DEF NInv, AllRight
  <2> QED BY <2>2, <1>1, <1>2, <1>3 DEF Right
<1>5. ASSUME NEW o \in open' PROVE Fair(o)'
  <2>1. CASE o \in open
    <3>1. Fair(o) BY <2>1 DEF NInv, AllFair
    <3> QED BY <3>1, <1>1, <1>2, <1>3 DEF Fair
  <2> QED BY <2>1
<1>6. Making' BY <1>2 DEF NInv, Making
<1>7. AllRight' BY <1>4 DEF AllRight
<1>8. AllFair' BY <1>5 DEF AllFair
<1> QED BY <1>1, <1>6, <1>7, <1>8 DEF NInv

\* Something is made, or not, and what is under way remains right.
LEMMA NoMore ==
    ASSUME NInv, UNCHANGED trail,
           IsSeq(made'), Making',
           DOMAIN made \subseteq DOMAIN made', \A i \in DOMAIN made : made'[i] = made[i],
           \A o \in open' : o \in open \/ Fair(o)'
    PROVE  NInv'
<1>1. Made("case") \subseteq Made("case")' BY DEF Made
<1>2. \A c \in Made("case") : made'[c] = made[c] BY DEF Made
<1>3. \A j, d : Asks(j, d)' = Asks(j, d) BY DEF Asks
<1>4. ASSUME NEW i \in DOMAIN trail', NEW x, x = trail'[i] PROVE Right(x, i)'
  <2>1. Right(x, i) BY <1>4 DEF NInv, AllRight
  <2> QED BY <2>1, <1>1, <1>2, <1>3 DEF Right
<1>5. ASSUME NEW o \in open' PROVE Fair(o)'
  <2>1. CASE o \in open
    <3>1. Fair(o) BY <2>1 DEF NInv, AllFair
    <3> QED BY <3>1, <1>1, <1>2, <1>3 DEF Fair
  <2> QED BY <2>1
<1>6. AllRight' BY <1>4 DEF AllRight
<1>7. AllFair' BY <1>5 DEF AllFair
<1> QED BY <1>6, <1>7 DEF NInv

LEMMA NBegins ==
    ASSUME NInv, NEW act, NEW c, NEW x, NEW d, Begins(act, c, x, d),
           IF act = "case" THEN c = 0 ELSE c \in Made("case")
    PROVE  NInv'
<1>1. PICK r : r = Record(act, "attempted", c, x, d) OBVIOUS
<1>2. PICK op : op = [act |-> act, case |-> c, target |-> x, detail |-> d,
                      n |-> Len(trail) + 1, at |-> "asked"] OBVIOUS
<1>3. trail' = Append(trail, r) /\ open' = open \cup {op} /\ UNCHANGED made
  BY <1>1, <1>2 DEF Begins, Writes
<1>4. r.act = act /\ r.out = "attempted" /\ r.case = c /\ r.detail = d BY <1>1 DEF Record
<1>5. /\ op.act = act /\ op.case = c /\ op.detail = d /\ op.at = "asked"
      /\ op = [act |-> op.act, case |-> op.case, target |-> op.target, detail |-> op.detail,
               n |-> op.n, at |-> op.at]
  BY <1>2
<1>6. Right(r, Len(trail) + 1) BY <1>4 DEF Right
<1>7. Fair(op)'
  <2>1. PICK k : k \in DOMAIN trail' /\ trail'[k] = r
    BY <1>3, Appended DEF NInv
  <2>2. act = "case" => Asks(k, d)' BY <2>1, <1>4 DEF Asks
  <2>3. c \in Made("case") => c \in Made("case")' BY <1>3 DEF Made
  <2> QED BY <2>1, <2>2, <2>3, <1>5 DEF Fair
<1> QED BY <1>3, <1>6, <1>7, OneMore

LEMMA NDone == ASSUME NInv, NEW o \in open, Done(o) PROVE NInv'
<1>1. PICK case : case = IF o.act = "case" THEN Len(made) + 1 ELSE o.case OBVIOUS
<1>2. PICK m : m = [act |-> o.act, case |-> case, detail |-> o.detail] OBVIOUS
<1>3. PICK new : new = [o EXCEPT !.at = "done", !.case = case,
                     !.target = IF o.act \in Creations THEN Len(made) + 1 ELSE @] OBVIOUS
<1>4. /\ IF o.act \in Creations THEN made' = Append(made, m) ELSE made' = made
      /\ open' = (open \ {o}) \cup {new} /\ trail' = trail
  BY <1>1, <1>2, <1>3 DEF Done
<1>5. m.act = o.act /\ m.case = case /\ m.detail = o.detail BY <1>2
<1>6. Fair(o) /\ Making /\ IsSeq(made) BY DEF NInv, AllFair
<1>7. /\ Len(made) \in Nat /\ DOMAIN made = 1..Len(made)
      /\ DOMAIN Append(made, m) = DOMAIN made \cup {Len(made) + 1}
      /\ \A i \in DOMAIN made : Append(made, m)[i] = made[i]
      /\ Append(made, m)[Len(made) + 1] = m
      /\ IsSeq(Append(made, m))
  BY <1>6, Appended
<1>8. IsSeq(made') /\ DOMAIN made \subseteq DOMAIN made' /\ \A i \in DOMAIN made : made'[i] = made[i]
  BY <1>4, <1>6, <1>7
<1>9. Made("case") \subseteq Made("case")' /\ \A c \in Made("case") : made'[c] = made[c]
  BY <1>8 DEF Made
<1>10. o.act = "case" =>
         Len(made) + 1 \in Made("case")' /\ made'[Len(made) + 1].detail = o.detail
  BY <1>4, <1>5, <1>7 DEF Made, Creations
<1>11. case \in Made("case")' BY <1>1, <1>6, <1>9, <1>10 DEF Fair
<1>12. Making'
  <2>1. ASSUME NEW i \in DOMAIN made'
        PROVE  made'[i].case \in Made("case")' /\ (made'[i].act = "case" => made'[i].case = i)
    <3>1. CASE i \in DOMAIN made BY <3>1, <1>6, <1>8, <1>9 DEF Making
    <3>2. CASE i \notin DOMAIN made
      <4>1. i = Len(made) + 1 /\ made'[i] = m BY <3>2, <1>4, <1>7
      <4> QED BY <4>1, <1>5, <1>11, <1>1
    <3> QED BY <3>1, <3>2
  <2> QED BY <2>1 DEF Making
<1>13. Fair(new)'
  <2>1. /\ new.act = o.act /\ new.case = case /\ new.detail = o.detail
        /\ new = [act |-> new.act, case |-> new.case, target |-> new.target,
                  detail |-> new.detail, n |-> new.n, at |-> new.at]
    BY <1>3, <1>6 DEF Fair
  <2>2. o.act = "case" => \E j \in DOMAIN trail' : Asks(j, o.detail)'
    BY <1>4, <1>6 DEF Fair, Asks
  <2>3. o.act = "case" => case \in Made("case")' /\ made'[case].detail = o.detail
    BY <1>1, <1>10
  <2> QED BY <2>1, <2>2, <2>3, <1>11 DEF Fair
<1> QED BY <1>4, <1>8, <1>12, <1>13, NoMore

LEMMA NAnswered == ASSUME NInv, NEW o \in open, Answered(o) PROVE NInv'
<1>1. PICK r : r = Record(o.act, "ok", o.case, o.target, o.detail) OBVIOUS
<1>2. trail' = Append(trail, r) /\ open' = open \ {o} /\ UNCHANGED made /\ o.at = "done"
  BY <1>1 DEF Answered, Writes
<1>3. r.act = o.act /\ r.out = "ok" /\ r.case = o.case /\ r.detail = o.detail
  BY <1>1 DEF Record
<1>4. Fair(o) BY DEF NInv, AllFair
<1>5. \A j \in DOMAIN trail : j < Len(trail) + 1 BY Appended DEF NInv
<1>6. Right(r, Len(trail) + 1) BY <1>2, <1>3, <1>4, <1>5 DEF Right, Fair
<1> QED BY <1>2, <1>6, OneMore

LEMMA NNotes ==
    ASSUME NInv, NEW act, NEW c, (act \in {"sign_in", "template"} /\ Notes(act, c)) \/ Denied(act, c)
    PROVE  NInv'
<1>1. PICK r : /\ r.out \in {"ok", "denied"} /\ (r.out = "ok" => r.act # "case")
               /\ trail' = Append(trail, r)
  <2>1. CASE Denied(act, c) BY <2>1 DEF Denied, Writes, Record
  <2>2. CASE act \in {"sign_in", "template"} /\ Notes(act, c)
    BY <2>2 DEF Notes, Writes, Record
  <2> QED BY <2>1, <2>2
<1>2. UNCHANGED <<made, open>> BY DEF Denied, Notes
<1>3. Right(r, Len(trail) + 1) BY <1>1 DEF Right
<1> QED BY <1>1, <1>2, <1>3, OneMore

LEMMA NEstimates == ASSUME NInv, NEW s, Estimates(s) PROVE NInv'
<1>1. PICK r : r = Record("estimate", "ok", made[s].case, s, "") OBVIOUS
<1>2. trail' = Append(trail, r) /\ UNCHANGED <<made, open>>
  BY <1>1 DEF Estimates, Writes
<1>3. Right(r, Len(trail) + 1) BY <1>1 DEF Right, Record
<1> QED BY <1>2, <1>3, OneMore

LEMMA NStep == NInv /\ [Next]_vars => NInv'
<1> SUFFICES ASSUME NInv, [Next]_vars PROVE NInv' OBVIOUS
<1>1. ASSUME NEW act \in {"case", "search"}, NEW c, Denied(act, c) PROVE NInv'
  BY <1>1, NNotes
<1>2. ASSUME NEW act \in {"sign_in", "template"}, NEW c, Notes(act, c) PROVE NInv'
  BY <1>2, NNotes
<1>3. ASSUME NEW r, Begins("case", 0, 0, r) PROVE NInv' BY <1>3, NBegins
<1>4. ASSUME NEW c \in Made("case"), NEW name, Begins("search", c, c, name) PROVE NInv'
  BY <1>4, NBegins
<1>5. ASSUME NEW s \in Made("search"), Estimates(s) \/ BeginsExport(s) PROVE NInv'
  <2>1. made[s].case \in Made("case") BY DEF NInv, Making, Made
  <2>2. CASE BeginsExport(s)
    <3>1. Begins("export", made[s].case, s, "name") BY <2>2 DEF BeginsExport
    <3> QED BY <3>1, <2>1, NBegins
  <2> QED BY <1>5, <2>2, NEstimates
<1>6. ASSUME NEW o \in open, Breaks(o) PROVE NInv'
  <2>1. UNCHANGED <<trail, made>> /\ open' \subseteq open BY <1>6 DEF Breaks
  <2>2. IsSeq(made') /\ Making' BY <2>1 DEF NInv, Making, Made
  <2> QED BY <2>1, <2>2, NoMore
<1>7. ASSUME UNCHANGED <<trail, made, open>> PROVE NInv'
  <2>1. IsSeq(made') /\ Making' BY <1>7 DEF NInv, Making, Made
  <2> QED BY <1>7, <2>1, NoMore
<1>8. ReadLine \/ UNCHANGED vars => UNCHANGED <<trail, made, open>>
  BY DEF ReadLine, vars, writing
<1> QED BY <1>1, <1>2, <1>3, <1>4, <1>5, <1>6, <1>7, <1>8, NDone, NAnswered DEF Next

\* The creation that a pack goes by is one of those of its case.
LEMMA EarliestIs ==
    ASSUME NEW T \in SUBSET Nat, T # {}
    PROVE  Earliest(T) \in T
BY LeastNat DEF Earliest

\* Every record about a case is in the pack of its case, with the attempt of the
\* creation, or counted in the packs; and no pack holds a record of another
\* case, for trails of any length (evidence.py:150).
THEOREM RecordsAccounted == Spec => []Accounted
<1>1. NInv => Accounted
  <2> SUFFICES ASSUME NInv, NEW c \in Made("case")
               PROVE  /\ \A i \in DOMAIN trail : trail[i].case = c => i \in Events(trail, c)
                      /\ \A i \in Of(trail, "case", "ok") : trail[i].case = c =>
                            \E j \in Of(trail, "case", "attempted") \cap Events(trail, c) :
                                j < i /\ trail[j].detail = trail[i].detail
                      /\ \A i \in Events(trail, c) :
                            trail[i].case = c \/ trail[i].detail = made[c].detail
                      /\ Unattributable(trail, c) =
                            {i \in DOMAIN trail : /\ trail[i].case = 0
                                                  /\ trail[i].act \in CaseActions
                                                  /\ trail[i].out # "attempted"}
      BY DEF Accounted
  <2> DEFINE created == About(trail, c) \cap Of(trail, "case", "ok")
             reference == trail[Earliest(created)].detail
  <2>1. c # 0 /\ DOMAIN trail \subseteq Nat BY DEF NInv, IsSeq, Made
  <2>2. \A i \in created : /\ i \in DOMAIN trail /\ trail[i].detail = made[c].detail
                           /\ \E j \in DOMAIN trail : j < i /\ Asks(j, made[c].detail)
    BY DEF About, Of, NInv, AllRight, Right
  <2>3. created # {} => reference = made[c].detail
    <3>1. created \in SUBSET Nat BY <2>1 DEF About
    <3> HIDE DEF created
    <3> QED BY <3>1, <2>2, EarliestIs
  <2>4. Events(trail, c) = About(trail, c) \cup
           IF created = {} THEN {}
           ELSE {i \in Of(trail, "case", "attempted") : trail[i].detail = reference}
    BY DEF Events
  <2> HIDE DEF reference
  <2>5. \A i \in DOMAIN trail : trail[i].case = c => i \in Events(trail, c)
    BY <2>4 DEF About
  <2>6. ASSUME NEW i \in Of(trail, "case", "ok"), trail[i].case = c
        PROVE  \E j \in Of(trail, "case", "attempted") \cap Events(trail, c) :
                  j < i /\ trail[j].detail = trail[i].detail
    <3>1. i \in created BY <2>6 DEF About, Of
    <3>2. PICK j \in DOMAIN trail : j < i /\ Asks(j, made[c].detail) BY <3>1, <2>2
    <3>3. j \in Of(trail, "case", "attempted") /\ trail[j].detail = made[c].detail
      BY <3>2 DEF Of, Asks
    <3>4. j \in Events(trail, c) BY <3>1, <3>3, <2>3, <2>4
    <3> QED BY <3>1, <3>2, <3>3, <3>4, <2>2
  <2>7. ASSUME NEW i \in Events(trail, c)
        PROVE  trail[i].case = c \/ trail[i].detail = made[c].detail
    BY <2>3, <2>4, <2>7 DEF About
  <2>8. ASSUME NEW i \in DOMAIN trail, trail[i].case = 0, trail[i].act \in CaseActions
        PROVE  i \in Events(trail, c) \cup Of(trail, "case", "attempted")
                 <=> trail[i].out = "attempted"
    <3>1. Right(trail[i], i) BY DEF NInv, AllRight
    <3>2. 0 \notin Made("case") BY DEF NInv, IsSeq, Made
    <3>3. trail[i].out = "attempted" => i \in Of(trail, "case", "attempted")
      BY <3>1, <3>2, <2>8 DEF Right, Of
    <3>4. i \in Events(trail, c) => i \in Of(trail, "case", "attempted")
      BY <2>1, <2>4, <2>8 DEF About
    <3> QED BY <3>3, <3>4 DEF Of
  <2>9. Unattributable(trail, c) =
           {i \in DOMAIN trail : /\ trail[i].case = 0
                                 /\ trail[i].act \in CaseActions
                                 /\ trail[i].out # "attempted"}
    BY <2>8 DEF Unattributable
  <2> QED BY <2>5, <2>6, <2>7, <2>9
<1> QED BY <1>1, NInit, NStep, PTL DEF Spec

-------------------------------------------------------------------------------
\* The rows of a pack, whatever the trail.

\* The attempts at a search of case c, and the answers, among the records t.
Attempts(t, c) == About(t, c) \cap Of(t, "search", "attempted")
Answers(t, c) == About(t, c) \cap Of(t, "search", "ok")
Sought(t, c, d) == {i \in Attempts(t, c) \cup Answers(t, c) : t[i].detail = d}

\* Of the first n records, the last about the search d of c is an attempt.
Waits(t, c, d, n) ==
    \E a \in Attempts(t, c) : /\ a <= n /\ t[a].detail = d
                              /\ \A b \in Sought(t, c, d) : b <= n => b <= a

\* Every answer follows an attempt of its own.
Orderly(t, c) == \A i \in Answers(t, c) : Waits(t, c, t[i].detail, i - 1)

\* What Searches does with record n, and f the rows after each record.
Turn(t, c, n, rows) == IF n \in Events(t, c) THEN Enters(rows, t[n], n) ELSE rows

Runs(f, t, c, len) ==
    f = [n \in 0..len |-> IF n = 0 THEN <<>> ELSE Turn(t, c, n, f[n - 1])]

LEMMA RunExists == ASSUME NEW t, NEW c, NEW len \in Nat PROVE \E f : Runs(f, t, c, len)
<1> DEFINE T == {n \in Nat : ~ \E f : Runs(f, t, c, n)}
<1>1. SUFFICES ASSUME T # {} PROVE FALSE OBVIOUS
<1>2. PICK n \in T : \A m \in T : n <= m
  <2>1. T \in SUBSET Nat OBVIOUS
  <2> HIDE DEF T
  <2> QED BY <1>1, <2>1, LeastNat
<1>3. n \in Nat /\ ~ \E f : Runs(f, t, c, n) BY <1>2
<1>4. n # 0
  <2>1. SUFFICES ASSUME n = 0 PROVE FALSE OBVIOUS
  <2>2. PICK f : f = [k \in 0..0 |-> <<>>] OBVIOUS
  <2>3. Runs(f, t, c, n) BY <2>1, <2>2 DEF Runs
  <2> QED BY <2>3, <1>3
<1>5. n - 1 \in Nat /\ n - 1 < n BY <1>3, <1>4
<1>6. n - 1 \notin T BY <1>2, <1>3, <1>5
<1>7. PICK g : Runs(g, t, c, n - 1) BY <1>5, <1>6
<1>8. PICK f : f = [k \in 0..n |-> IF k = n THEN Turn(t, c, n, g[n - 1]) ELSE g[k]] OBVIOUS
<1>9. \A k \in 0..(n - 1) : f[k] = g[k] BY <1>8, <1>3
<1>10. \A k \in 0..(n - 1) : g[k] = IF k = 0 THEN <<>> ELSE Turn(t, c, k, g[k - 1])
  BY <1>7 DEF Runs
<1>11. ASSUME NEW k \in 0..n PROVE f[k] = IF k = 0 THEN <<>> ELSE Turn(t, c, k, f[k - 1])
  <2>1. CASE k = n
    <3>1. f[k] = Turn(t, c, n, g[n - 1]) BY <2>1, <1>8
    <3>2. f[n - 1] = g[n - 1] BY <1>5, <1>9
    <3> QED BY <3>1, <3>2, <2>1, <1>4
  <2>2. CASE k # n /\ k # 0
    <3>1. k \in 0..(n - 1) /\ k - 1 \in 0..(n - 1) BY <2>2, <1>3
    <3>2. f[k] = g[k] /\ f[k - 1] = g[k - 1] BY <3>1, <1>9
    <3> QED BY <3>1, <3>2, <2>2, <1>10
  <2>3. CASE k = 0 BY <2>3, <1>9, <1>10, <1>5, <1>4, <1>3
  <2> QED BY <2>1, <2>2, <2>3
<1>12. Runs(f, t, c, n)
  <2>1. f = [k \in 0..n |-> f[k]] BY <1>8
  <2> QED BY <2>1, <1>11 DEF Runs
<1> QED BY <1>12, <1>3

LEMMA SearchesRun ==
    ASSUME NEW t, NEW c, Len(t) \in Nat
    PROVE  \E f : Runs(f, t, c, Len(t)) /\ Searches(t, c) = f[Len(t)]
<1>1. PICK g : g = CHOOSE f : Runs(f, t, c, Len(t)) OBVIOUS
<1>2. Runs(g, t, c, Len(t)) BY <1>1, RunExists
<1>3. Searches(t, c) = g[Len(t)] BY <1>1 DEF Searches, Runs, Turn
<1> QED BY <1>2, <1>3

-------------------------------------------------------------------------------
IsRow(x) ==
    /\ x = [name |-> x.name, id |-> x.id, ids |-> x.ids, created |-> x.created,
            estimate |-> x.estimate, export |-> x.export, attempted |-> x.attempted]
    /\ x.attempted = TRUE
    /\ x.created = 0 => x.ids = {} /\ x.export = 0
    /\ x.created # 0 => x.ids = {x.id}

\* Records after i and up to n ask for, or tell of, an export of what i created.
Exported(t, c, i, n) ==
    \E m \in About(t, c) : /\ i < m /\ m <= n /\ t[m].act = "export"
                           /\ t[m].out # "denied" /\ t[m].target = t[i].target

\* The row of answer i, n records read.
RowOf(x, t, c, i, n) ==
    /\ x.created = i /\ x.id = t[i].target /\ x.name = t[i].detail
    /\ x.export # 0 => /\ x.export > i
                       /\ t[x.export].act = "export" /\ t[x.export].target = x.id
    /\ Exported(t, c, i, n) => x.export # 0

Upto(S, n) == {i \in S : i <= n}
Complete(rows) == {k \in DOMAIN rows : rows[k].created # 0}

\* What the rows are when n records have been read.
RowsAre(rows, t, c, n) ==
    /\ IsSeq(rows)
    /\ \A k \in DOMAIN rows : IsRow(rows[k])
    /\ Len(rows) = Cardinality(Upto(Attempts(t, c), n))
    /\ Cardinality(Complete(rows)) = Cardinality(Upto(Answers(t, c), n))
    /\ \A i \in Upto(Answers(t, c), n) : \E k \in DOMAIN rows : RowOf(rows[k], t, c, i, n)
    /\ \A d : Waits(t, c, d, n) =>
          \E k \in Named(rows, d) : rows[k].created = 0 /\ \A j \in Named(rows, d) : j <= k

LEMMA UptoNext ==
    ASSUME NEW t, IsSeq(t), NEW S \in SUBSET DOMAIN t, NEW n \in Nat
    PROVE  /\ IsFiniteSet(Upto(S, n)) /\ Cardinality(Upto(S, n)) \in Nat
           /\ n + 1 \in S => /\ Upto(S, n + 1) = Upto(S, n) \cup {n + 1}
                             /\ Cardinality(Upto(S, n + 1)) = Cardinality(Upto(S, n)) + 1
           /\ n + 1 \notin S => Upto(S, n + 1) = Upto(S, n)
<1>1. DOMAIN t \subseteq 1..Len(t) /\ Len(t) \in Nat BY DEF IsSeq
<1>2. Upto(S, n) \subseteq 1..Len(t) BY <1>1 DEF Upto
<1>3. IsFiniteSet(Upto(S, n))
  <2>1. PICK len \in Int : len = Len(t) BY <1>1
  <2>2. IsFiniteSet(1..len) BY FS_Interval
  <2> QED BY <1>2, <2>1, <2>2, FS_Subset
<1>4. n + 1 \notin Upto(S, n) BY DEF Upto
<1>5. n + 1 \in S => Upto(S, n + 1) = Upto(S, n) \cup {n + 1} BY <1>1 DEF Upto
<1>6. n + 1 \notin S => Upto(S, n + 1) = Upto(S, n) BY <1>1 DEF Upto
<1> QED BY <1>3, <1>4, <1>5, <1>6, FS_AddElement, FS_CardinalityType

LEMMA RowsNone ==
    ASSUME NEW t, IsSeq(t), NEW c PROVE RowsAre(<<>>, t, c, 0)
<1>1. DOMAIN t \subseteq Nat \ {0} BY DEF IsSeq
<1>2. Attempts(t, c) \subseteq Nat \ {0} /\ Answers(t, c) \subseteq Nat \ {0}
  BY <1>1 DEF Attempts, Answers, About
<1>3. Upto(Attempts(t, c), 0) = {} /\ Upto(Answers(t, c), 0) = {} BY <1>2 DEF Upto
<1>4. \A d : ~ Waits(t, c, d, 0) BY <1>2 DEF Waits
<1>5. DOMAIN <<>> = {} /\ IsSeq(<<>>) /\ Len(<<>>) = 0 BY DEF IsSeq
<1>6. Complete(<<>>) = {} BY <1>5 DEF Complete
<1>7. Cardinality({}) = 0 BY FS_EmptySet
<1>8. \A k \in DOMAIN <<>> : IsRow(<<>>[k]) BY <1>5
<1>9. /\ Len(<<>>) = Cardinality(Upto(Attempts(t, c), 0))
      /\ Cardinality(Complete(<<>>)) = Cardinality(Upto(Answers(t, c), 0))
  BY <1>3, <1>5, <1>6, <1>7
<1>10. \A i \in Upto(Answers(t, c), 0) : \E k \in DOMAIN <<>> : RowOf(<<>>[k], t, c, i, 0)
  BY <1>3
<1> QED BY <1>4, <1>5, <1>8, <1>9, <1>10 DEF RowsAre

LEMMA Places ==
    ASSUME NEW t, IsSeq(t), NEW c
    PROVE  /\ Attempts(t, c) \in SUBSET DOMAIN t /\ Answers(t, c) \in SUBSET DOMAIN t
           /\ About(t, c) \in SUBSET DOMAIN t /\ DOMAIN t \subseteq Nat \ {0}
           /\ Attempts(t, c) \cap Answers(t, c) = {}
BY DEF IsSeq, Attempts, Answers, About, Of

\* A record that is neither an attempt nor an answer adds to neither of them.
LEMMA UptoSame ==
    ASSUME NEW t, IsSeq(t), NEW c, NEW n \in Nat,
           n + 1 \notin Attempts(t, c) \cup Answers(t, c)
    PROVE  /\ Upto(Attempts(t, c), n + 1) = Upto(Attempts(t, c), n)
           /\ Upto(Answers(t, c), n + 1) = Upto(Answers(t, c), n)
<1>1. Attempts(t, c) \in SUBSET DOMAIN t /\ Answers(t, c) \in SUBSET DOMAIN t BY Places
<1>2. ASSUME NEW S \in SUBSET DOMAIN t, n + 1 \notin S
      PROVE  Upto(S, n + 1) = Upto(S, n)
  BY <1>2, UptoNext
<1> QED BY <1>1, <1>2

LEMMA WaitsNext ==
    ASSUME NEW t, IsSeq(t), NEW c, NEW d, NEW n \in Nat, Waits(t, c, d, n + 1)
    PROVE  IF n + 1 \in Sought(t, c, d) THEN n + 1 \in Attempts(t, c) ELSE Waits(t, c, d, n)
<1>1. PICK a \in Attempts(t, c) : /\ a <= n + 1 /\ t[a].detail = d
                                  /\ \A b \in Sought(t, c, d) : b <= n + 1 => b <= a
  BY DEF Waits
<1>2. a \in Nat /\ Sought(t, c, d) \subseteq Nat BY Places DEF Sought
<1>3. CASE n + 1 \in Sought(t, c, d)
  <2>1. n + 1 <= a BY <1>1, <1>3
  <2>2. a = n + 1 BY <2>1, <1>1, <1>2
  <2> QED BY <2>2, <1>1, <1>3
<1>4. CASE n + 1 \notin Sought(t, c, d)
  <2>1. a \in Sought(t, c, d) BY <1>1 DEF Sought
  <2>2. a <= n BY <2>1, <1>1, <1>2, <1>4
  <2>3. \A b \in Sought(t, c, d) : b <= n => b <= a BY <1>1, <1>2
  <2> QED BY <1>1, <1>4, <2>2, <2>3 DEF Waits
<1> QED BY <1>3, <1>4

LEMMA ExportedNext ==
    ASSUME NEW t, IsSeq(t), NEW c, NEW i \in Nat, NEW n \in Nat, i <= n, Exported(t, c, i, n + 1)
    PROVE  \/ Exported(t, c, i, n)
           \/ /\ n + 1 \in About(t, c) /\ t[n + 1].act = "export" /\ t[n + 1].out # "denied"
              /\ t[n + 1].target = t[i].target
<1>1. About(t, c) \subseteq Nat BY Places
<1> QED BY <1>1 DEF Exported

\* A record that is neither of a search nor of an export changes no row.
LEMMA RowsSame ==
    ASSUME NEW t, IsSeq(t), NEW c, NEW n \in Nat, NEW rows, RowsAre(rows, t, c, n),
           n + 1 \notin Attempts(t, c) \cup Answers(t, c),
           ~ (n + 1 \in About(t, c) /\ t[n + 1].act = "export" /\ t[n + 1].out # "denied")
    PROVE  RowsAre(rows, t, c, n + 1)
<1>1. /\ Upto(Attempts(t, c), n + 1) = Upto(Attempts(t, c), n)
      /\ Upto(Answers(t, c), n + 1) = Upto(Answers(t, c), n)
  BY UptoSame
<1>2. ASSUME NEW i \in Upto(Answers(t, c), n)
      PROVE  \E k \in DOMAIN rows : RowOf(rows[k], t, c, i, n + 1)
  <2>1. PICK k \in DOMAIN rows : RowOf(rows[k], t, c, i, n) BY DEF RowsAre
  <2>2. i \in Nat /\ i <= n BY Places DEF Upto
  <2> QED BY <2>1, <2>2, ExportedNext DEF RowOf
<1>3. \A d : n + 1 \notin Sought(t, c, d) BY DEF Sought
<1>4. \A d : Waits(t, c, d, n + 1) => Waits(t, c, d, n) BY <1>3, WaitsNext
<1> QED BY <1>1, <1>2, <1>4 DEF RowsAre

\* An attempt starts a row.
LEMMA RowsAttempt ==
    ASSUME NEW t, IsSeq(t), NEW c, NEW n \in Nat, NEW rows, RowsAre(rows, t, c, n),
           n + 1 \in Attempts(t, c)
    PROVE  RowsAre(Append(rows, Row(t[n + 1].detail, TRUE)), t, c, n + 1)
<1>1. PICK x : x = Row(t[n + 1].detail, TRUE) OBVIOUS
<1>2. x.name = t[n + 1].detail /\ x.created = 0 /\ IsRow(x) BY <1>1 DEF Row, IsRow
<1>3. PICK new : new = Append(rows, x) OBVIOUS
<1>4. /\ Len(rows) \in Nat /\ DOMAIN rows = 1..Len(rows)
      /\ DOMAIN new = DOMAIN rows \cup {Len(rows) + 1}
      /\ \A k \in DOMAIN rows : new[k] = rows[k]
      /\ new[Len(rows) + 1] = x /\ IsSeq(new) /\ Len(new) = Len(rows) + 1
  BY <1>3, Appended DEF RowsAre
<1>5. n + 1 \notin Answers(t, c) BY Places
<1>6. /\ Cardinality(Upto(Attempts(t, c), n + 1)) = Cardinality(Upto(Attempts(t, c), n)) + 1
      /\ Upto(Answers(t, c), n + 1) = Upto(Answers(t, c), n)
  <2>1. Attempts(t, c) \in SUBSET DOMAIN t /\ Answers(t, c) \in SUBSET DOMAIN t BY Places
  <2>2. Cardinality(Upto(Attempts(t, c), n + 1)) = Cardinality(Upto(Attempts(t, c), n)) + 1
    BY <2>1, UptoNext
  <2>3. Upto(Answers(t, c), n + 1) = Upto(Answers(t, c), n) BY <1>5, <2>1, UptoNext
  <2> QED BY <2>2, <2>3
<1>7. \A k \in DOMAIN new : IsRow(new[k]) BY <1>2, <1>4 DEF RowsAre
<1>8. Complete(new) = Complete(rows) BY <1>2, <1>4 DEF Complete
<1>9. ASSUME NEW i \in Upto(Answers(t, c), n)
      PROVE  \E k \in DOMAIN new : RowOf(new[k], t, c, i, n + 1)
  <2>1. PICK k \in DOMAIN rows : RowOf(rows[k], t, c, i, n) BY DEF RowsAre
  <2>2. i \in Nat /\ i <= n BY Places DEF Upto
  <2>3. t[n + 1].act = "search" BY DEF Attempts, Of
  <2>4. RowOf(rows[k], t, c, i, n + 1) BY <2>1, <2>2, <2>3, ExportedNext DEF RowOf
  <2> QED BY <2>4, <1>4
<1>10. ASSUME NEW d, Waits(t, c, d, n + 1)
       PROVE  \E k \in Named(new, d) : new[k].created = 0 /\ \A j \in Named(new, d) : j <= k
  <2>1. CASE d = t[n + 1].detail
    <3>1. Len(rows) + 1 \in Named(new, d) BY <2>1, <1>2, <1>4 DEF Named
    <3>2. \A j \in Named(new, d) : j <= Len(rows) + 1 BY <1>4 DEF Named
    <3> QED BY <3>1, <3>2, <1>2, <1>4
  <2>2. CASE d # t[n + 1].detail
    <3>1. Waits(t, c, d, n) BY <2>2, <1>10, WaitsNext DEF Sought
    <3>2. PICK k \in Named(rows, d) : rows[k].created = 0 /\ \A j \in Named(rows, d) : j <= k
      BY <3>1 DEF RowsAre
    <3>3. Named(new, d) = Named(rows, d) BY <2>2, <1>2, <1>4 DEF Named
    <3> QED BY <3>2, <3>3, <1>4 DEF Named
  <2> QED BY <2>1, <2>2
<1>11. Len(new) = Cardinality(Upto(Attempts(t, c), n + 1)) BY <1>4, <1>6 DEF RowsAre
<1>12. RowsAre(new, t, c, n + 1) BY <1>4, <1>6, <1>7, <1>8, <1>9, <1>10, <1>11 DEF RowsAre
<1> QED BY <1>1, <1>3, <1>12

\* An estimate or an export is entered in every row that has its search.
LEMMA RowsStamp ==
    ASSUME NEW t, IsSeq(t), NEW c, NEW n \in Nat, NEW rows, RowsAre(rows, t, c, n),
           n + 1 \in About(t, c), t[n + 1].act \in {"estimate", "export"}
    PROVE  RowsAre(Stamps(rows, t[n + 1], n + 1, t[n + 1].act), t, c, n + 1)
<1>1. PICK r : r = t[n + 1] OBVIOUS
<1>2. PICK new : new = Stamps(rows, r, n + 1, r.act) OBVIOUS
<1>3. DOMAIN new = DOMAIN rows /\ IsSeq(new) /\ Len(new) = Len(rows)
  <2>1. new = [k \in DOMAIN rows |-> IF r.target \in rows[k].ids
                                     THEN [rows[k] EXCEPT ![r.act] = n + 1] ELSE rows[k]]
    BY <1>2 DEF Stamps
  <2>2. PICK len \in Nat : len = Len(rows) /\ DOMAIN rows = 1..len BY DEF RowsAre, IsSeq
  <2>3. PICK S : S = {new[k] : k \in DOMAIN rows} OBVIOUS
  <2>4. new \in [1..len -> S] BY <2>1, <2>2, <2>3
  <2>5. new \in Seq(S) /\ Len(new) = len BY <2>4, <2>2
  <2>6. DOMAIN new = DOMAIN rows BY <2>1
  <2> QED BY <2>2, <2>3, <2>5, <2>6 DEF IsSeq
<1>4. ASSUME NEW k \in DOMAIN rows
      PROVE  /\ IsRow(new[k]) /\ new[k].name = rows[k].name /\ new[k].created = rows[k].created
             /\ new[k].id = rows[k].id
             /\ new[k].export = IF r.act = "export" /\ r.target \in rows[k].ids
                                THEN n + 1 ELSE rows[k].export
  <2>1. IsRow(rows[k]) BY DEF RowsAre
  <2>2. new[k] = IF r.target \in rows[k].ids THEN [rows[k] EXCEPT ![r.act] = n + 1] ELSE rows[k]
    BY <1>2 DEF Stamps
  <2>3. CASE r.target \notin rows[k].ids BY <2>1, <2>2, <2>3
  <2>4. CASE r.target \in rows[k].ids /\ r.act = "estimate" BY <2>1, <2>2, <2>4 DEF IsRow
  <2>5. CASE r.target \in rows[k].ids /\ r.act = "export" BY <2>1, <2>2, <2>5 DEF IsRow
  <2> QED BY <2>3, <2>4, <2>5, <1>1
<1>5. n + 1 \notin Attempts(t, c) \cup Answers(t, c) BY DEF Attempts, Answers, Of
<1>6. /\ Upto(Attempts(t, c), n + 1) = Upto(Attempts(t, c), n)
      /\ Upto(Answers(t, c), n + 1) = Upto(Answers(t, c), n)
  BY <1>5, UptoSame
<1>7. Complete(new) = Complete(rows) BY <1>3, <1>4 DEF Complete
<1>8. ASSUME NEW i \in Upto(Answers(t, c), n)
      PROVE  \E k \in DOMAIN new : RowOf(new[k], t, c, i, n + 1)
  <2>1. PICK k \in DOMAIN rows : RowOf(rows[k], t, c, i, n) BY DEF RowsAre
  <2>2. i \in Nat \ {0} /\ i <= n BY Places DEF Upto
  <2>3. rows[k].ids = {t[i].target} BY <2>1, <2>2 DEF RowsAre, IsRow, RowOf
  <2>4. ASSUME r.act = "export" /\ r.target = t[i].target
        PROVE  RowOf(new[k], t, c, i, n + 1)
    BY <2>1, <2>2, <2>3, <2>4, <1>1, <1>4 DEF RowOf
  <2>5. ASSUME ~ (r.act = "export" /\ r.target = t[i].target)
        PROVE  RowOf(new[k], t, c, i, n + 1)
    <3>1. Exported(t, c, i, n + 1) => Exported(t, c, i, n) BY <2>2, <2>5, <1>1, ExportedNext
    <3> QED BY <3>1, <2>1, <2>3, <2>5, <1>4 DEF RowOf
  <2>6. RowOf(new[k], t, c, i, n + 1) BY <2>4, <2>5
  <2> QED BY <2>6, <1>3
<1>9. \A d : n + 1 \notin Sought(t, c, d) BY <1>5 DEF Sought
<1>10. ASSUME NEW d, Waits(t, c, d, n + 1)
       PROVE  \E k \in Named(new, d) : new[k].created = 0 /\ \A j \in Named(new, d) : j <= k
  <2>1. Waits(t, c, d, n) BY <1>9, <1>10, WaitsNext
  <2>2. Named(new, d) = Named(rows, d) BY <1>3, <1>4 DEF Named
  <2>3. PICK k \in Named(rows, d) : rows[k].created = 0 /\ \A j \in Named(rows, d) : j <= k
    BY <2>1 DEF RowsAre
  <2> QED BY <2>2, <2>3, <1>4 DEF Named
<1>11. \A k \in DOMAIN new : IsRow(new[k]) BY <1>3, <1>4
<1>12. /\ Len(new) = Cardinality(Upto(Attempts(t, c), n + 1))
       /\ Cardinality(Complete(new)) = Cardinality(Upto(Answers(t, c), n + 1))
  BY <1>3, <1>6, <1>7 DEF RowsAre
<1>13. RowsAre(new, t, c, n + 1) BY <1>3, <1>6, <1>8, <1>10, <1>11, <1>12 DEF RowsAre
<1> QED BY <1>1, <1>2, <1>13

\* An answer completes the row of its attempt.
LEMMA RowsAnswer ==
    ASSUME NEW t, IsSeq(t), NEW c, NEW n \in Nat, NEW rows, RowsAre(rows, t, c, n),
           n + 1 \in Answers(t, c), Orderly(t, c)
    PROVE  RowsAre(EntersCreation(rows, t[n + 1], n + 1), t, c, n + 1)
<1>1. PICK r : r = t[n + 1] OBVIOUS
<1>2. PICK k \in Named(rows, r.detail) :
         rows[k].created = 0 /\ \A j \in Named(rows, r.detail) : j <= k
  <2>1. Waits(t, c, r.detail, n) BY <1>1 DEF Orderly
  <2> QED BY <2>1 DEF RowsAre
<1>3. DOMAIN rows \subseteq Nat /\ k \in DOMAIN rows /\ rows[k].name = r.detail
  BY <1>2 DEF RowsAre, IsSeq, Named
<1>4. k = CHOOSE m \in Named(rows, r.detail) : \A j \in Named(rows, r.detail) : j <= m
  <2>1. \A m \in Named(rows, r.detail) : (\A j \in Named(rows, r.detail) : j <= m) => m = k
    BY <1>2, <1>3 DEF Named
  <2> QED BY <2>1, <1>2
<1>5. PICK new : new = [rows EXCEPT ![k].id = r.target, ![k].created = n + 1,
                                    ![k].ids = @ \cup {r.target}] OBVIOUS
<1>6. new = EntersCreation(rows, r, n + 1)
  <2>1. Named(rows, r.detail) # {} BY <1>2
  <2>2. EntersCreation(rows, r, n + 1) =
           [rows EXCEPT ![CHOOSE m \in Named(rows, r.detail) :
                            \A j \in Named(rows, r.detail) : j <= m].id = r.target,
                        ![CHOOSE m \in Named(rows, r.detail) :
                            \A j \in Named(rows, r.detail) : j <= m].created = n + 1,
                        ![CHOOSE m \in Named(rows, r.detail) :
                            \A j \in Named(rows, r.detail) : j <= m].ids = @ \cup {r.target}]
    BY <2>1 DEF EntersCreation
  <2> QED BY <2>2, <1>4, <1>5
<1>7. PICK x : x = [rows[k] EXCEPT !.id = r.target, !.created = n + 1,
                                   !.ids = rows[k].ids \cup {r.target}] OBVIOUS
<1>8. /\ IsRow(x) /\ x.name = rows[k].name /\ x.created = n + 1 /\ x.id = r.target
      /\ x.export = 0
  <2>1. IsRow(rows[k]) BY <1>3 DEF RowsAre
  <2>2. rows[k].ids = {} /\ rows[k].export = 0 /\ rows[k].attempted = TRUE
    BY <2>1, <1>2 DEF IsRow
  <2>3. x = [name |-> rows[k].name, id |-> r.target, ids |-> rows[k].ids \cup {r.target},
             created |-> n + 1, estimate |-> rows[k].estimate, export |-> rows[k].export,
             attempted |-> rows[k].attempted]
    BY <2>1, <1>7 DEF IsRow
  <2>4. n + 1 # 0 /\ {} \cup {r.target} = {r.target} OBVIOUS
  <2> QED BY <2>2, <2>3, <2>4 DEF IsRow
<1>9. DOMAIN new = DOMAIN rows /\ IsSeq(new) /\ Len(new) = Len(rows)
  <2>1. PICK len \in Nat : len = Len(rows) /\ DOMAIN rows = 1..len BY DEF RowsAre, IsSeq
  <2>2. PICK S : S = {new[j] : j \in DOMAIN rows} OBVIOUS
  <2>3. DOMAIN new = DOMAIN rows /\ new = [j \in DOMAIN rows |-> new[j]] BY <1>5
  <2>4. new \in [1..len -> S] BY <2>1, <2>2, <2>3
  <2>5. new \in Seq(S) /\ Len(new) = len BY <2>4, <2>1
  <2> QED BY <2>1, <2>2, <2>3, <2>5 DEF IsSeq
<1>10. new[k] = x /\ \A j \in DOMAIN rows \ {k} : new[j] = rows[j]
  <2>1. IsRow(rows[k]) BY <1>3 DEF RowsAre
  <2>2. new[k] = x BY <2>1, <1>3, <1>5, <1>7 DEF IsRow
  <2>3. \A j \in DOMAIN rows \ {k} : new[j] = rows[j] BY <1>5
  <2> QED BY <2>2, <2>3
<1>11. n + 1 \notin Attempts(t, c) BY Places
<1>12. /\ Upto(Attempts(t, c), n + 1) = Upto(Attempts(t, c), n)
       /\ Upto(Answers(t, c), n + 1) = Upto(Answers(t, c), n) \cup {n + 1}
       /\ Cardinality(Upto(Answers(t, c), n + 1)) = Cardinality(Upto(Answers(t, c), n)) + 1
  <2>1. Attempts(t, c) \in SUBSET DOMAIN t /\ Answers(t, c) \in SUBSET DOMAIN t BY Places
  <2>2. Upto(Attempts(t, c), n + 1) = Upto(Attempts(t, c), n) BY <1>11, <2>1, UptoNext
  <2> QED BY <2>1, <2>2, UptoNext
<1>13. \A j \in DOMAIN new : IsRow(new[j]) BY <1>8, <1>9, <1>10 DEF RowsAre
<1>14. Cardinality(Complete(new)) = Cardinality(Upto(Answers(t, c), n + 1))
  <2>1. Complete(new) = Complete(rows) \cup {k} /\ k \notin Complete(rows)
    BY <1>2, <1>3, <1>8, <1>9, <1>10 DEF Complete
  <2>2. IsFiniteSet(Complete(rows))
    <3>1. PICK len \in Int : DOMAIN rows = 1..len BY DEF RowsAre, IsSeq
    <3>2. IsFiniteSet(1..len) BY FS_Interval
    <3>3. Complete(rows) \subseteq 1..len BY <3>1 DEF Complete
    <3> QED BY <3>2, <3>3, FS_Subset
  <2>3. Cardinality(Complete(new)) = Cardinality(Complete(rows)) + 1
    BY <2>1, <2>2, FS_AddElement
  <2> QED BY <2>3, <1>12 DEF RowsAre
<1>15. ASSUME NEW i \in Upto(Answers(t, c), n + 1)
       PROVE  \E j \in DOMAIN new : RowOf(new[j], t, c, i, n + 1)
  <2>1. CASE i = n + 1
    <3>1. ~ Exported(t, c, n + 1, n + 1)
      <4>1. About(t, c) \subseteq Nat BY Places
      <4> QED BY <4>1 DEF Exported
    <3>2. RowOf(x, t, c, i, n + 1) BY <3>1, <2>1, <1>1, <1>3, <1>8 DEF RowOf
    <3> QED BY <3>2, <1>3, <1>9, <1>10
  <2>2. CASE i # n + 1
    <3>1. i \in Upto(Answers(t, c), n) BY <2>2, <1>12
    <3>2. PICK j \in DOMAIN rows : RowOf(rows[j], t, c, i, n) BY <3>1 DEF RowsAre
    <3>3. i \in Nat \ {0} /\ i <= n BY <3>1, Places DEF Upto
    <3>4. j # k BY <3>2, <3>3, <1>2 DEF RowOf
    <3>5. t[n + 1].act = "search" BY DEF Answers, Of
    <3>6. RowOf(rows[j], t, c, i, n + 1) BY <3>2, <3>3, <3>5, ExportedNext DEF RowOf
    <3> QED BY <3>2, <3>4, <3>6, <1>9, <1>10
  <2> QED BY <2>1, <2>2
<1>16. ASSUME NEW d, Waits(t, c, d, n + 1)
       PROVE  \E m \in Named(new, d) : new[m].created = 0 /\ \A j \in Named(new, d) : j <= m
  <2>1. n + 1 \notin Sought(t, c, d) BY <1>11, <1>16, WaitsNext
  <2>2. d # r.detail BY <2>1, <1>1 DEF Sought
  <2>3. Waits(t, c, d, n) BY <2>1, <1>16, WaitsNext
  <2>4. Named(new, d) = Named(rows, d) BY <1>8, <1>9, <1>10 DEF Named
  <2>5. PICK m \in Named(rows, d) : rows[m].created = 0 /\ \A j \in Named(rows, d) : j <= m
    BY <2>3 DEF RowsAre
  <2>6. m # k BY <2>2, <2>5, <1>3 DEF Named
  <2> QED BY <2>4, <2>5, <2>6, <1>10 DEF Named
<1>17. Len(new) = Cardinality(Upto(Attempts(t, c), n + 1)) BY <1>9, <1>12 DEF RowsAre
<1>18. RowsAre(new, t, c, n + 1) BY <1>9, <1>13, <1>14, <1>15, <1>16, <1>17 DEF RowsAre
<1> QED BY <1>1, <1>6, <1>18

\* The records are of the kinds the code writes.
Kinds(t) ==
    \A i \in DOMAIN t : /\ t[i].out \in {"attempted", "ok", "denied"}
                        /\ t[i].out = "denied" => t[i].act \notin {"estimate", "export"}

LEMMA RowsTurn ==
    ASSUME NEW t, IsSeq(t), Kinds(t), NEW c, Orderly(t, c),
           NEW n \in Nat, n + 1 <= Len(t), NEW rows, RowsAre(rows, t, c, n)
    PROVE  RowsAre(Turn(t, c, n + 1, rows), t, c, n + 1)
<1>1. PICK r : r = t[n + 1] OBVIOUS
<1>2. n + 1 \in DOMAIN t BY DEF IsSeq
<1>3. r.out \in {"attempted", "ok", "denied"} /\ (r.out = "denied" => r.act \notin {"estimate", "export"})
  BY <1>1, <1>2 DEF Kinds
<1>4. About(t, c) \subseteq Events(t, c) /\ (n + 1 \in About(t, c) <=> r.case = c)
  BY <1>1, <1>2 DEF Events, About
<1>5. n + 1 \in Attempts(t, c) <=> r.case = c /\ r.act = "search" /\ r.out = "attempted"
  BY <1>1, <1>2 DEF Attempts, About, Of
<1>6. n + 1 \in Answers(t, c) <=> r.case = c /\ r.act = "search" /\ r.out = "ok"
  BY <1>1, <1>2 DEF Answers, About, Of
<1>7. n + 1 \in Events(t, c) => r.case = c \/ r.act = "case"
  BY <1>1, <1>4 DEF Events, Of
<1>8. CASE n + 1 \in Attempts(t, c)
  <2>1. Turn(t, c, n + 1, rows) = Append(rows, Row(r.detail, TRUE))
    BY <1>1, <1>4, <1>5, <1>8 DEF Turn, Enters, EntersAttempt
  <2> QED BY <2>1, <1>1, <1>8, RowsAttempt
<1>9. CASE n + 1 \in Answers(t, c)
  <2>1. Turn(t, c, n + 1, rows) = EntersCreation(rows, r, n + 1)
    BY <1>1, <1>4, <1>6, <1>9 DEF Turn, Enters
  <2> QED BY <2>1, <1>1, <1>9, RowsAnswer
<1>10. CASE r.case = c /\ r.act \in {"estimate", "export"}
  <2>1. Turn(t, c, n + 1, rows) = Stamps(rows, r, n + 1, r.act)
    BY <1>1, <1>3, <1>4, <1>10 DEF Turn, Enters
  <2> QED BY <2>1, <1>1, <1>4, <1>10, RowsStamp
<1>11. CASE /\ n + 1 \notin Attempts(t, c) /\ n + 1 \notin Answers(t, c)
            /\ ~ (r.case = c /\ r.act \in {"estimate", "export"})
  <2>1. Turn(t, c, n + 1, rows) = rows
    <3>1. CASE n + 1 \notin Events(t, c) BY <3>1 DEF Turn
    <3>2. CASE n + 1 \in Events(t, c)
      <4>1. Turn(t, c, n + 1, rows) = Enters(rows, r, n + 1) BY <3>2, <1>1 DEF Turn
      <4>2. r.out = "denied" \/ r.act \notin {"search", "estimate", "export"}
        BY <3>2, <1>3, <1>5, <1>6, <1>7, <1>11
      <4>3. Enters(rows, r, n + 1) = rows BY <4>2 DEF Enters
      <4> QED BY <4>1, <4>3
    <3> QED BY <3>1, <3>2
  <2> QED BY <2>1, <1>1, <1>4, <1>11, RowsSame
<1> QED BY <1>8, <1>9, <1>10, <1>11

\* The searches of a pack are the attempts of its case, answered or not, when
\* every answer has an attempt of its own.
LEMMA SearchesAre ==
    ASSUME NEW t, IsSeq(t), Kinds(t), NEW c, Orderly(t, c)
    PROVE  RowsAre(Searches(t, c), t, c, Len(t))
<1>1. Len(t) \in Nat BY DEF IsSeq
<1>2. PICK f : Runs(f, t, c, Len(t)) /\ Searches(t, c) = f[Len(t)] BY <1>1, SearchesRun
<1>3. \A n \in 0..Len(t) : f[n] = IF n = 0 THEN <<>> ELSE Turn(t, c, n, f[n - 1])
  BY <1>2 DEF Runs
<1> DEFINE T == {n \in 0..Len(t) : ~ RowsAre(f[n], t, c, n)}
<1>4. ASSUME T # {} PROVE FALSE
  <2>1. PICK n \in T : \A m \in T : n <= m
    <3>1. T \in SUBSET Nat OBVIOUS
    <3> HIDE DEF T
    <3> QED BY <1>4, <3>1, LeastNat
  <2>2. n \in 0..Len(t) /\ ~ RowsAre(f[n], t, c, n) BY <2>1
  <2>3. n # 0
    <3>1. f[0] = <<>> BY <1>1, <1>3
    <3> QED BY <3>1, <2>2, RowsNone
  <2>4. PICK m : m = n - 1 OBVIOUS
  <2>5. m \in Nat /\ m + 1 = n /\ m \in 0..Len(t) /\ m < n BY <2>2, <2>3, <2>4, <1>1
  <2>6. RowsAre(f[m], t, c, m) BY <2>1, <2>2, <2>5
  <2>7. f[n] = Turn(t, c, n, f[m]) BY <2>2, <2>3, <2>4, <1>3
  <2>8. m + 1 <= Len(t) BY <2>2, <2>5
  <2>9. RowsAre(Turn(t, c, m + 1, f[m]), t, c, m + 1) BY <2>5, <2>6, <2>8, RowsTurn
  <2> QED BY <2>2, <2>5, <2>7, <2>9
<1>5. RowsAre(f[Len(t)], t, c, Len(t)) BY <1>1, <1>4
<1> QED BY <1>2, <1>5

-------------------------------------------------------------------------------
\* Record n asks for, or tells of, an export of search s, in the case of s.
ExportAt(n, s) ==
    /\ n \in DOMAIN trail /\ s \in DOMAIN made
    /\ trail[n].act = "export" /\ trail[n].out # "denied"
    /\ trail[n].target = s /\ trail[n].case = made[s].case

\* Record i, when it tells of a search, tells of one made in its case.
Tells(i) ==
    trail[i].act = "search" /\ trail[i].out = "ok" =>
        trail[i].target \in DOMAIN made /\ made[trail[i].target].case = trail[i].case

Linked(o) ==
    /\ o.act \in {"case", "search", "export"}
    /\ o.act = "export" => ExportAt(o.n, o.target)
    /\ o.act = "search" /\ o.at = "done" =>
          o.target \in DOMAIN made /\ made[o.target].case = o.case

Kind(r) == /\ r.out \in {"attempted", "ok", "denied"}
           /\ r.out = "denied" => r.act \notin {"estimate", "export"}

LInv ==
    /\ \A i \in DOMAIN trail : Kind(trail[i]) /\ Tells(i)
    /\ \A e \in started : ExportAt(e.n, e.search)
    /\ \A o \in open : Linked(o)

\* Nothing recorded or made is ever taken back.
LEMMA LKept ==
    ASSUME LInv,
           DOMAIN trail \subseteq DOMAIN trail', \A i \in DOMAIN trail : trail'[i] = trail[i],
           DOMAIN made \subseteq DOMAIN made', \A i \in DOMAIN made : made'[i] = made[i],
           \A i \in DOMAIN trail' : i \in DOMAIN trail \/ (Kind(trail[i]) /\ Tells(i))',
           \A e \in started' : e \in started \/ ExportAt(e.n, e.search)',
           \A o \in open' : o \in open \/ Linked(o)'
    PROVE  LInv'
<1>1. ASSUME NEW n, NEW s, ExportAt(n, s) PROVE ExportAt(n, s)' BY <1>1 DEF ExportAt
<1>2. ASSUME NEW i \in DOMAIN trail' PROVE (Kind(trail[i]) /\ Tells(i))'
  <2>1. CASE i \in DOMAIN trail
    <3>1. Kind(trail[i]) /\ Tells(i) /\ trail'[i] = trail[i] BY <2>1 DEF LInv
    <3>2. Kind(trail[i])' BY <3>1 DEF Kind
    <3>3. Tells(i)' BY <3>1 DEF Tells
    <3> QED BY <3>2, <3>3
  <2> QED BY <2>1
<1>3. \A e \in started' : ExportAt(e.n, e.search)' BY <1>1 DEF LInv
<1>4. ASSUME NEW o \in open' PROVE Linked(o)'
  <2>1. CASE o \in open
    <3>1. Linked(o) BY <2>1 DEF LInv
    <3> QED BY <3>1, <1>1 DEF Linked
  <2> QED BY <2>1
<1> QED BY <1>2, <1>3, <1>4 DEF LInv

LEMMA LInit == Init => LInv
<1> SUFFICES ASSUME Init PROVE LInv OBVIOUS
<1>1. trail = <<>> /\ open = {} /\ started = {} BY DEF Init
<1>2. DOMAIN trail = {} BY <1>1
<1> QED BY <1>1, <1>2 DEF LInv

\* One more record.
LEMMA LMore ==
    ASSUME NInv, LInv, NEW r, trail' = Append(trail, r), Kind(r),
           r.act = "search" /\ r.out = "ok" =>
              r.target \in DOMAIN made /\ made[r.target].case = r.case,
           UNCHANGED <<made, started>>,
           \A o \in open' : o \in open \/ Linked(o)'
    PROVE  LInv'
<1>1. /\ DOMAIN trail' = DOMAIN trail \cup {Len(trail) + 1}
      /\ \A i \in DOMAIN trail : trail'[i] = trail[i]
      /\ trail'[Len(trail) + 1] = r
  BY Appended DEF NInv
<1>2. ASSUME NEW i \in DOMAIN trail', i \notin DOMAIN trail
      PROVE  (Kind(trail[i]) /\ Tells(i))'
  <2>1. trail'[i] = r BY <1>1, <1>2
  <2>2. Kind(trail[i])' BY <2>1 DEF Kind
  <2>3. Tells(i)' BY <2>1 DEF Tells
  <2> QED BY <2>2, <2>3
<1> QED BY <1>1, <1>2, LKept

LEMMA LBegins ==
    ASSUME NInv, LInv, NEW act \in {"case", "search", "export"}, NEW c, NEW x, NEW d,
           Begins(act, c, x, d),
           act = "export" => x \in DOMAIN made /\ made[x].case = c
    PROVE  LInv'
<1>1. PICK r : r = Record(act, "attempted", c, x, d) OBVIOUS
<1>2. PICK op : op = [act |-> act, case |-> c, target |-> x, detail |-> d,
                      n |-> Len(trail) + 1, at |-> "asked"] OBVIOUS
<1>3. trail' = Append(trail, r) /\ open' = open \cup {op} /\ UNCHANGED <<made, started>>
  BY <1>1, <1>2 DEF Begins, Writes
<1>4. r.act = act /\ r.out = "attempted" /\ r.case = c /\ r.target = x BY <1>1 DEF Record
<1>5. op.n \in DOMAIN trail' /\ trail'[op.n] = r
  BY <1>2, <1>3, Appended DEF NInv
<1>6. op.act = act /\ op.target = x /\ op.at = "asked" BY <1>2
<1>7. act = "export" => ExportAt(op.n, op.target)' BY <1>3, <1>4, <1>5, <1>6 DEF ExportAt
<1>8. Linked(op)' BY <1>6, <1>7 DEF Linked
<1>9. Kind(r) BY <1>4 DEF Kind
<1>10. ~ (r.act = "search" /\ r.out = "ok") BY <1>4
<1> QED BY <1>3, <1>8, <1>9, <1>10, LMore

LEMMA LDone == ASSUME NInv, LInv, NEW o \in open, Done(o) PROVE LInv'
<1>1. PICK case : case = IF o.act = "case" THEN Len(made) + 1 ELSE o.case OBVIOUS
<1>2. PICK m : m = [act |-> o.act, case |-> case, detail |-> o.detail] OBVIOUS
<1>3. PICK new : new = [o EXCEPT !.at = "done", !.case = case,
                     !.target = IF o.act \in Creations THEN Len(made) + 1 ELSE @] OBVIOUS
<1>4. PICK e : e = [search |-> o.target, n |-> o.n] OBVIOUS
<1>5. /\ IF o.act \in Creations THEN made' = Append(made, m) /\ started' = started
         ELSE made' = made /\ started' = started \cup {e}
      /\ open' = (open \ {o}) \cup {new} /\ trail' = trail
  BY <1>1, <1>2, <1>3, <1>4 DEF Done
<1>6. m.case = case BY <1>2
<1>7. Fair(o) /\ Linked(o) BY DEF NInv, AllFair, LInv
<1>8. /\ DOMAIN Append(made, m) = DOMAIN made \cup {Len(made) + 1}
      /\ \A i \in DOMAIN made : Append(made, m)[i] = made[i]
      /\ Append(made, m)[Len(made) + 1] = m
  BY Appended DEF NInv
<1>9. DOMAIN made \subseteq DOMAIN made' /\ \A i \in DOMAIN made : made'[i] = made[i]
  BY <1>5, <1>8
<1>10. /\ new.act = o.act /\ new.case = case /\ new.n = o.n
       /\ new.target = IF o.act \in Creations THEN Len(made) + 1 ELSE o.target
  BY <1>3, <1>7 DEF Fair
<1>11. o.act = "export" => ExportAt(o.n, o.target)'
  BY <1>5, <1>7 DEF Linked, ExportAt, Creations
<1>12. o.act = "search" => new.target \in DOMAIN made' /\ made'[new.target].case = new.case
  BY <1>5, <1>6, <1>8, <1>10 DEF Creations
<1>13. Linked(new)'
  <2>1. new.act = "export" => ExportAt(new.n, new.target)' BY <1>10, <1>11 DEF Creations
  <2> QED BY <2>1, <1>7, <1>10, <1>12 DEF Linked
<1>14. ASSUME NEW f \in started' PROVE f \in started \/ ExportAt(f.n, f.search)'
  <2>1. CASE f = e /\ o.act \notin Creations
    <3>1. f.n = o.n /\ f.search = o.target BY <2>1, <1>4
    <3>2. o.act = "export" BY <2>1, <1>7 DEF Linked, Creations
    <3> QED BY <3>1, <3>2, <1>11
  <2> QED BY <2>1, <1>5
<1>15. \A p \in open' : p \in open \/ Linked(p)' BY <1>5, <1>13
<1> QED BY <1>5, <1>9, <1>14, <1>15, LKept

LEMMA LAnswered == ASSUME NInv, LInv, NEW o \in open, Answered(o) PROVE LInv'
<1>1. PICK r : r = Record(o.act, "ok", o.case, o.target, o.detail) OBVIOUS
<1>2. trail' = Append(trail, r) /\ open' = open \ {o} /\ UNCHANGED <<made, started>> /\ o.at = "done"
  BY <1>1 DEF Answered, Writes
<1>3. r.act = o.act /\ r.out = "ok" /\ r.case = o.case /\ r.target = o.target
  BY <1>1 DEF Record
<1>4. Linked(o) BY DEF LInv
<1>5. Kind(r) BY <1>3 DEF Kind
<1> QED BY <1>2, <1>3, <1>4, <1>5, LMore DEF Linked

LEMMA LStep == NInv /\ LInv /\ [Next]_vars => LInv'
<1> SUFFICES ASSUME NInv, LInv, [Next]_vars PROVE LInv' OBVIOUS
<1>1. ASSUME NEW r, trail' = Append(trail, r), UNCHANGED <<made, started, open>>,
             Kind(r), ~ (r.act = "search" /\ r.out = "ok")
      PROVE  LInv'
  BY <1>1, LMore
<1>2. ASSUME NEW act \in {"case", "search"}, NEW c, Denied(act, c) PROVE LInv'
  <2>1. PICK r : r = Record(act, "denied", c, 0, "description") OBVIOUS
  <2>2. Kind(r) /\ r.out = "denied" BY <2>1 DEF Kind, Record
  <2> QED BY <1>1, <1>2, <2>1, <2>2 DEF Denied, Writes
<1>3. ASSUME NEW act \in {"sign_in", "template"}, NEW c, Notes(act, c) PROVE LInv'
  <2>1. PICK r : r = Record(act, "ok", c, 0, "note") OBVIOUS
  <2>2. Kind(r) /\ r.act # "search" BY <2>1 DEF Kind, Record
  <2> QED BY <1>1, <1>3, <2>1, <2>2 DEF Notes, Writes
<1>4. ASSUME NEW s, Estimates(s) PROVE LInv'
  <2>1. PICK r : r = Record("estimate", "ok", made[s].case, s, "") OBVIOUS
  <2>2. Kind(r) /\ r.act # "search" BY <2>1 DEF Kind, Record
  <2> QED BY <1>1, <1>4, <2>1, <2>2 DEF Estimates, Writes
<1>5. ASSUME NEW r, Begins("case", 0, 0, r) PROVE LInv' BY <1>5, LBegins
<1>6. ASSUME NEW c, NEW name, Begins("search", c, c, name) PROVE LInv' BY <1>6, LBegins
<1>7. ASSUME NEW s \in Made("search"), BeginsExport(s) PROVE LInv'
  <2>1. Begins("export", made[s].case, s, "name") BY <1>7 DEF BeginsExport
  <2>2. s \in DOMAIN made BY DEF Made
  <2> QED BY <2>1, <2>2, LBegins
<1>8. ASSUME UNCHANGED <<trail, made, started>>, open' \subseteq open PROVE LInv'
  BY <1>8, LKept
<1>9. ReadLine \/ UNCHANGED vars \/ (\E o \in open : Breaks(o)) =>
         UNCHANGED <<trail, made, started>> /\ open' \subseteq open
  BY DEF ReadLine, Breaks, vars, writing
<1> QED BY <1>2, <1>3, <1>4, <1>5, <1>6, <1>7, <1>8, <1>9, LDone, LAnswered DEF Next

-------------------------------------------------------------------------------
\* r is an attempt at the search d of c, or its answer.
Concerns(r, c, d) ==
    r.act = "search" /\ r.out \in {"attempted", "ok"} /\ r.case = c /\ r.detail = d

LEMMA GrowSought ==
    ASSUME NEW t, IsSeq(t), NEW r, NEW c
    PROVE  /\ Attempts(Append(t, r), c) =
                Attempts(t, c) \cup
                  IF r.act = "search" /\ r.out = "attempted" /\ r.case = c THEN {Len(t) + 1} ELSE {}
           /\ Answers(Append(t, r), c) =
                Answers(t, c) \cup
                  IF r.act = "search" /\ r.out = "ok" /\ r.case = c THEN {Len(t) + 1} ELSE {}
           /\ \A d : Sought(Append(t, r), c, d) =
                Sought(t, c, d) \cup IF Concerns(r, c, d) THEN {Len(t) + 1} ELSE {}
<1>1. PICK u : u = Append(t, r) OBVIOUS
<1>2. /\ DOMAIN t = 1..Len(t) /\ Len(t) \in Nat
      /\ DOMAIN u = DOMAIN t \cup {Len(t) + 1}
      /\ \A i \in DOMAIN t : u[i] = t[i]
      /\ u[Len(t) + 1] = r
  BY <1>1, Appended
<1>3. Attempts(u, c) =
        Attempts(t, c) \cup
          IF r.act = "search" /\ r.out = "attempted" /\ r.case = c THEN {Len(t) + 1} ELSE {}
  BY <1>2 DEF Attempts, About, Of
<1>4. Answers(u, c) =
        Answers(t, c) \cup
          IF r.act = "search" /\ r.out = "ok" /\ r.case = c THEN {Len(t) + 1} ELSE {}
  BY <1>2 DEF Answers, About, Of
<1>5. Attempts(t, c) \subseteq DOMAIN t /\ Answers(t, c) \subseteq DOMAIN t BY Places
<1>6. ASSUME NEW d
      PROVE  Sought(u, c, d) =
               Sought(t, c, d) \cup IF Concerns(r, c, d) THEN {Len(t) + 1} ELSE {}
  BY <1>2, <1>3, <1>4, <1>5 DEF Sought, Concerns
<1> QED BY <1>1, <1>3, <1>4, <1>6

LEMMA GrowWaits ==
    ASSUME NEW t, IsSeq(t), NEW r, NEW c, NEW d
    PROVE  /\ \A n \in 0..Len(t) : Waits(t, c, d, n) => Waits(Append(t, r), c, d, n)
           /\ Waits(t, c, d, Len(t)) /\ ~ Concerns(r, c, d) =>
                 Waits(Append(t, r), c, d, Len(t) + 1)
           /\ Concerns(r, c, d) /\ r.out = "attempted" => Waits(Append(t, r), c, d, Len(t) + 1)
<1>1. PICK u : u = Append(t, r) OBVIOUS
<1>2. /\ Len(t) \in Nat /\ DOMAIN t = 1..Len(t)
      /\ \A i \in DOMAIN t : u[i] = t[i]
      /\ u[Len(t) + 1] = r
  BY <1>1, Appended
<1>3. /\ Attempts(u, c) = Attempts(t, c) \cup
           IF r.act = "search" /\ r.out = "attempted" /\ r.case = c THEN {Len(t) + 1} ELSE {}
      /\ Sought(u, c, d) =
           Sought(t, c, d) \cup IF Concerns(r, c, d) THEN {Len(t) + 1} ELSE {}
  BY <1>1, GrowSought
<1>4. Attempts(t, c) \subseteq 1..Len(t) /\ Sought(t, c, d) \subseteq 1..Len(t)
  BY <1>2, Places DEF Sought
<1>5. ASSUME NEW n \in 0..Len(t), Waits(t, c, d, n) PROVE Waits(u, c, d, n)
  <2>1. PICK a \in Attempts(t, c) : /\ a <= n /\ t[a].detail = d
                                    /\ \A b \in Sought(t, c, d) : b <= n => b <= a
    BY <1>5 DEF Waits
  <2>2. a \in Attempts(u, c) /\ u[a].detail = d BY <2>1, <1>2, <1>3, <1>4
  <2>3. \A b \in Sought(u, c, d) : b <= n => b <= a BY <2>1, <1>2, <1>3
  <2> QED BY <2>1, <2>2, <2>3 DEF Waits
<1>6. ASSUME Waits(t, c, d, Len(t)), ~ Concerns(r, c, d) PROVE Waits(u, c, d, Len(t) + 1)
  <2>1. PICK a \in Attempts(t, c) : /\ a <= Len(t) /\ t[a].detail = d
                                    /\ \A b \in Sought(t, c, d) : b <= Len(t) => b <= a
    BY <1>6 DEF Waits
  <2>2. a \in Attempts(u, c) /\ u[a].detail = d /\ a <= Len(t) + 1
    BY <2>1, <1>2, <1>3, <1>4
  <2>3. \A b \in Sought(u, c, d) : b <= a BY <2>1, <1>3, <1>4, <1>6
  <2> QED BY <2>2, <2>3 DEF Waits
<1>7. ASSUME Concerns(r, c, d), r.out = "attempted" PROVE Waits(u, c, d, Len(t) + 1)
  <2>1. Len(t) + 1 \in Attempts(u, c) /\ u[Len(t) + 1].detail = d
    BY <1>2, <1>3, <1>7 DEF Concerns
  <2> QED BY <2>1, <1>2 DEF Waits
<1> QED BY <1>1, <1>5, <1>6, <1>7

LEMMA GrowOrderly ==
    ASSUME NEW t, IsSeq(t), NEW r, NEW c, Orderly(t, c),
           r.act = "search" /\ r.out = "ok" /\ r.case = c => Waits(t, c, r.detail, Len(t))
    PROVE  Orderly(Append(t, r), c)
<1>1. PICK u : u = Append(t, r) OBVIOUS
<1>2. /\ Len(t) \in Nat /\ DOMAIN t = 1..Len(t)
      /\ \A i \in DOMAIN t : u[i] = t[i]
      /\ u[Len(t) + 1] = r
  BY <1>1, Appended
<1>3. Answers(u, c) = Answers(t, c) \cup
        IF r.act = "search" /\ r.out = "ok" /\ r.case = c THEN {Len(t) + 1} ELSE {}
  BY <1>1, GrowSought
<1>4. Answers(t, c) \subseteq 1..Len(t) BY <1>2, Places
<1>5. ASSUME NEW i \in Answers(u, c) PROVE Waits(u, c, u[i].detail, i - 1)
  <2>1. CASE i \in Answers(t, c)
    <3>1. Waits(t, c, t[i].detail, i - 1) BY <2>1 DEF Orderly
    <3>2. i - 1 \in 0..Len(t) /\ u[i] = t[i] BY <2>1, <1>2, <1>4
    <3> QED BY <3>1, <3>2, <1>1, GrowWaits
  <2>2. CASE i \notin Answers(t, c)
    <3>1. i = Len(t) + 1 /\ r.act = "search" /\ r.out = "ok" /\ r.case = c BY <2>2, <1>3
    <3>2. i - 1 = Len(t) /\ Len(t) \in 0..Len(t) /\ u[i] = r BY <3>1, <1>2
    <3>3. Waits(t, c, r.detail, Len(t)) BY <3>1
    <3> QED BY <3>2, <3>3, <1>1, GrowWaits
  <2> QED BY <2>1, <2>2
<1> QED BY <1>1, <1>5 DEF Orderly

-------------------------------------------------------------------------------
\* While no two creations of a name in a case have overlapped, each answer has
\* its attempt, and the last of what is recorded of a search under way is its
\* attempt.
Alike(o, p) == o.act = "search" /\ p.act = "search" /\ o.case = p.case /\ o.detail = p.detail

Apart ==
    /\ \A c : Orderly(trail, c)
    /\ \A o \in open : o.act = "search" => Waits(trail, o.case, o.detail, Len(trail))
    /\ \A o, p \in open : Alike(o, p) => o = p

OInv == ~ overlapped => Apart

LEMMA OInit == Init => OInv
<1> SUFFICES ASSUME Init PROVE OInv OBVIOUS
<1>1. trail = <<>> /\ open = {} BY DEF Init
<1>2. \A c : Answers(trail, c) = {} BY <1>1 DEF Answers, About, Of
<1> QED BY <1>1, <1>2 DEF OInv, Apart, Orderly

\* A record that is not of a search comes in, or none; searches under way stay.
LEMMA OAside ==
    ASSUME NInv, OInv, NEW r, trail' = Append(trail, r),
           r.out = "denied" \/ r.act # "search",
           UNCHANGED overlapped,
           \A o \in open' : o \in open \/ o.act # "search"
    PROVE  OInv'
<1> SUFFICES ASSUME ~ overlapped' PROVE Apart' BY DEF OInv
<1>1. Apart BY DEF OInv
<1>2. IsSeq(trail) /\ Len(trail') = Len(trail) + 1 BY Appended DEF NInv
<1>3. ASSUME NEW c PROVE Orderly(trail', c) BY <1>1, <1>2, GrowOrderly DEF Apart
<1>4. ASSUME NEW o \in open', o.act = "search"
      PROVE  Waits(trail', o.case, o.detail, Len(trail'))
  <2>1. Waits(trail, o.case, o.detail, Len(trail)) BY <1>1, <1>4 DEF Apart
  <2>2. ~ Concerns(r, o.case, o.detail) BY DEF Concerns
  <2> QED BY <2>1, <2>2, <1>2, GrowWaits
<1>5. \A o, p \in open' : Alike(o, p) => o = p BY <1>1 DEF Apart, Alike
<1> QED BY <1>3, <1>4, <1>5 DEF Apart

LEMMA OBegins ==
    ASSUME NInv, OInv, NEW act, NEW c, NEW x, NEW d, Begins(act, c, x, d)
    PROVE  OInv'
<1>1. PICK r : r = Record(act, "attempted", c, x, d) OBVIOUS
<1>2. PICK op : op = [act |-> act, case |-> c, target |-> x, detail |-> d,
                      n |-> Len(trail) + 1, at |-> "asked"] OBVIOUS
<1>3. /\ trail' = Append(trail, r) /\ open' = open \cup {op}
      /\ overlapped' = (overlapped \/ (act = "search" /\ \E o \in open :
                           o.act = "search" /\ o.case = c /\ o.detail = d))
  BY <1>1, <1>2 DEF Begins, Writes
<1>4. r.act = act /\ r.out = "attempted" /\ r.case = c /\ r.detail = d BY <1>1 DEF Record
<1>5. op.act = act /\ op.case = c /\ op.detail = d BY <1>2
<1>6. CASE act # "search"
  <2>1. \A o \in open' : o \in open \/ o.act # "search" BY <1>3, <1>5, <1>6
  <2>2. ASSUME ~ overlapped' PROVE Apart'
    <3>1. ~ overlapped /\ Apart BY <1>3, <2>2 DEF OInv
    <3>2. IsSeq(trail) /\ Len(trail') = Len(trail) + 1 BY <1>3, Appended DEF NInv
    <3>3. ASSUME NEW a PROVE Orderly(trail', a)
      BY <1>3, <1>4, <1>6, <3>1, <3>2, GrowOrderly DEF Apart
    <3>4. ASSUME NEW o \in open', o.act = "search"
          PROVE  Waits(trail', o.case, o.detail, Len(trail'))
      <4>1. Waits(trail, o.case, o.detail, Len(trail)) BY <2>1, <3>1, <3>4 DEF Apart
      <4>2. ~ Concerns(r, o.case, o.detail) BY <1>4, <1>6 DEF Concerns
      <4> QED BY <4>1, <4>2, <1>3, <3>2, GrowWaits
    <3>5. \A o, p \in open' : Alike(o, p) => o = p BY <2>1, <3>1 DEF Apart, Alike
    <3> QED BY <3>3, <3>4, <3>5 DEF Apart
  <2> QED BY <2>2 DEF OInv
<1>7. CASE act = "search"
  <2>1. ASSUME ~ overlapped' PROVE Apart'
    <3>1. /\ ~ overlapped /\ Apart
          /\ \A o \in open : ~ (o.act = "search" /\ o.case = c /\ o.detail = d)
      BY <1>3, <1>7, <2>1 DEF OInv
    <3>2. IsSeq(trail) /\ Len(trail') = Len(trail) + 1 BY <1>3, Appended DEF NInv
    <3>3. ASSUME NEW a PROVE Orderly(trail', a)
      BY <1>3, <1>4, <3>1, <3>2, GrowOrderly DEF Apart
    <3>4. ASSUME NEW o \in open', o.act = "search"
          PROVE  Waits(trail', o.case, o.detail, Len(trail'))
      <4>1. CASE o \in open
        <5>1. Waits(trail, o.case, o.detail, Len(trail)) BY <3>1, <3>4, <4>1 DEF Apart
        <5>2. ~ Concerns(r, o.case, o.detail) BY <1>4, <3>1, <3>4, <4>1 DEF Concerns
        <5> QED BY <5>1, <5>2, <1>3, <3>2, GrowWaits
      <4>2. CASE o = op
        <5>1. Concerns(r, o.case, o.detail) BY <1>4, <1>5, <1>7, <4>2 DEF Concerns
        <5> QED BY <5>1, <1>3, <1>4, <3>2, GrowWaits
      <4> QED BY <4>1, <4>2, <1>3
    <3>5. ASSUME NEW o \in open', NEW p \in open', Alike(o, p) PROVE o = p
      <4>1. CASE o \in open /\ p \in open BY <4>1, <3>1, <3>5 DEF Apart
      <4>2. CASE o = op \/ p = op
        <5>1. o.act = "search" /\ o.case = c /\ o.detail = d BY <4>2, <3>5, <1>5, <1>7 DEF Alike
        <5>2. p.act = "search" /\ p.case = c /\ p.detail = d BY <4>2, <3>5, <1>5, <1>7 DEF Alike
        <5> QED BY <5>1, <5>2, <3>1, <1>3
      <4> QED BY <4>1, <4>2, <1>3
    <3> QED BY <3>3, <3>4, <3>5 DEF Apart
  <2> QED BY <2>1 DEF OInv
<1> QED BY <1>6, <1>7

\* Of what is under way, only the rest of an operation changes.
LEMMA OSame ==
    ASSUME OInv, UNCHANGED <<trail, overlapped>>, open' \subseteq open PROVE OInv'
<1> SUFFICES ASSUME ~ overlapped' PROVE Apart' BY DEF OInv
<1> QED BY DEF OInv, Apart

LEMMA ODone == ASSUME NInv, OInv, NEW o \in open, Done(o) PROVE OInv'
<1>1. PICK case : case = IF o.act = "case" THEN Len(made) + 1 ELSE o.case OBVIOUS
<1>2. PICK new : new = [o EXCEPT !.at = "done", !.case = case,
                     !.target = IF o.act \in Creations THEN Len(made) + 1 ELSE @] OBVIOUS
<1>3. open' = (open \ {o}) \cup {new} /\ UNCHANGED <<trail, overlapped>>
  BY <1>1, <1>2 DEF Done
<1>4. Fair(o) BY DEF NInv, AllFair
<1>5. new.act = o.act /\ new.case = case /\ new.detail = o.detail BY <1>2, <1>4 DEF Fair
<1>6. o.act = "search" => new.case = o.case BY <1>1, <1>5
<1> SUFFICES ASSUME ~ overlapped' PROVE Apart' BY DEF OInv
<1>7. Apart BY <1>3 DEF OInv
<1>8. ASSUME NEW p \in open', p.act = "search" PROVE Waits(trail, p.case, p.detail, Len(trail))
  BY <1>3, <1>5, <1>6, <1>7, <1>8 DEF Apart
<1>9. ASSUME NEW p \in open', NEW q \in open', Alike(p, q) PROVE p = q
  <2>1. PICK b : b = IF p = new THEN o ELSE p OBVIOUS
  <2>2. PICK e : e = IF q = new THEN o ELSE q OBVIOUS
  <2>3. b \in open /\ e \in open BY <2>1, <2>2, <1>3
  <2>4. Alike(b, e) BY <2>1, <2>2, <1>5, <1>6, <1>9 DEF Alike
  <2>5. b = e BY <2>3, <2>4, <1>7 DEF Apart
  <2> QED BY <2>1, <2>2, <2>5, <1>3
<1> QED BY <1>3, <1>7, <1>8, <1>9 DEF Apart

LEMMA OAnswered == ASSUME NInv, OInv, NEW o \in open, Answered(o) PROVE OInv'
<1>1. PICK r : r = Record(o.act, "ok", o.case, o.target, o.detail) OBVIOUS
<1>2. trail' = Append(trail, r) /\ open' = open \ {o} /\ UNCHANGED overlapped
  BY <1>1 DEF Answered, Writes
<1>3. r.act = o.act /\ r.out = "ok" /\ r.case = o.case /\ r.detail = o.detail
  BY <1>1 DEF Record
<1>4. CASE o.act # "search" BY <1>2, <1>3, <1>4, OAside
<1>5. CASE o.act = "search"
  <2> SUFFICES ASSUME ~ overlapped' PROVE Apart' BY DEF OInv
  <2>1. Apart BY <1>2 DEF OInv
  <2>2. IsSeq(trail) /\ Len(trail') = Len(trail) + 1 BY <1>2, Appended DEF NInv
  <2>3. Waits(trail, o.case, o.detail, Len(trail)) BY <1>5, <2>1 DEF Apart
  <2>4. ASSUME NEW a PROVE Orderly(trail', a)
    BY <1>2, <1>3, <2>1, <2>2, <2>3, GrowOrderly DEF Apart
  <2>5. ASSUME NEW p \in open', p.act = "search"
        PROVE  Waits(trail', p.case, p.detail, Len(trail'))
    <3>1. p \in open /\ p # o BY <1>2
    <3>2. ~ Alike(o, p) BY <3>1, <2>1 DEF Apart
    <3>3. ~ Concerns(r, p.case, p.detail) BY <3>2, <1>3, <1>5, <2>5 DEF Concerns, Alike
    <3>4. Waits(trail, p.case, p.detail, Len(trail)) BY <3>1, <2>1, <2>5 DEF Apart
    <3> QED BY <3>3, <3>4, <1>2, <2>2, GrowWaits
  <2>6. \A p, q \in open' : Alike(p, q) => p = q BY <1>2, <2>1 DEF Apart
  <2> QED BY <2>4, <2>5, <2>6 DEF Apart
<1> QED BY <1>4, <1>5

LEMMA OStep == NInv /\ OInv /\ [Next]_vars => OInv'
<1> SUFFICES ASSUME NInv, OInv, [Next]_vars PROVE OInv' OBVIOUS
<1>1. ASSUME NEW r, trail' = Append(trail, r), UNCHANGED <<open, overlapped>>,
             r.out = "denied" \/ r.act # "search"
      PROVE  OInv'
  BY <1>1, OAside
<1>2. ASSUME NEW act, NEW c, Denied(act, c) PROVE OInv'
  <2>1. PICK r : r = Record(act, "denied", c, 0, "description") OBVIOUS
  <2>2. r.out = "denied" BY <2>1 DEF Record
  <2> QED BY <1>1, <1>2, <2>1, <2>2 DEF Denied, Writes
<1>3. ASSUME NEW act \in {"sign_in", "template"}, NEW c, Notes(act, c) PROVE OInv'
  <2>1. PICK r : r = Record(act, "ok", c, 0, "note") OBVIOUS
  <2>2. r.act # "search" BY <2>1 DEF Record
  <2> QED BY <1>1, <1>3, <2>1, <2>2 DEF Notes, Writes
<1>4. ASSUME NEW s, Estimates(s) PROVE OInv'
  <2>1. PICK r : r = Record("estimate", "ok", made[s].case, s, "") OBVIOUS
  <2>2. r.act # "search" BY <2>1 DEF Record
  <2> QED BY <1>1, <1>4, <2>1, <2>2 DEF Estimates, Writes
<1>5. ASSUME NEW r, Begins("case", 0, 0, r) PROVE OInv' BY <1>5, OBegins
<1>6. ASSUME NEW c, NEW name, Begins("search", c, c, name) PROVE OInv' BY <1>6, OBegins
<1>7. ASSUME NEW s, BeginsExport(s) PROVE OInv' BY <1>7, OBegins DEF BeginsExport
<1>8. ReadLine \/ UNCHANGED vars \/ (\E o \in open : Breaks(o)) =>
         UNCHANGED <<trail, overlapped>> /\ open' \subseteq open
  BY DEF ReadLine, Breaks, vars, writing
<1> QED BY <1>2, <1>3, <1>4, <1>5, <1>6, <1>7, <1>8, OSame, ODone, OAnswered DEF Next

-------------------------------------------------------------------------------
LEMMA PackRows ==
    ASSUME NInv, LInv, OInv, ~ overlapped, NEW c
    PROVE  RowsAre(Searches(trail, c), trail, c, Len(trail))
<1>1. Orderly(trail, c) BY DEF OInv, Apart
<1>2. Kinds(trail) BY DEF LInv, Kind, Kinds
<1> QED BY <1>1, <1>2, SearchesAre DEF NInv

LEMMA AllOf == ASSUME NEW t, IsSeq(t), NEW S \in SUBSET DOMAIN t PROVE Upto(S, Len(t)) = S
BY DEF IsSeq, Upto

LEMMA PackTells == NInv /\ LInv /\ OInv => RowsTell
<1> SUFFICES ASSUME NInv, LInv, OInv, ~ overlapped, NEW c \in Made("case")
             PROVE  LET rows == Searches(trail, c)
                        attempts == About(trail, c) \cap Of(trail, "search", "attempted")
                        answers == About(trail, c) \cap Of(trail, "search", "ok")
                    IN  /\ Len(rows) = Cardinality(attempts)
                        /\ Cardinality({k \in DOMAIN rows : ~Incomplete(rows[k])})
                             = Cardinality(answers)
                        /\ \A i \in answers : \E k \in DOMAIN rows :
                              /\ rows[k].id = trail[i].target /\ rows[k].created = i
                              /\ rows[k].name = trail[i].detail
                              /\ rows[k].export # 0 =>
                                    /\ rows[k].export > i
                                    /\ trail[rows[k].export].act = "export"
                                    /\ trail[rows[k].export].target = rows[k].id
    BY DEF RowsTell
<1>1. PICK rows : rows = Searches(trail, c) OBVIOUS
<1>2. RowsAre(rows, trail, c, Len(trail)) BY <1>1, PackRows
<1>3. /\ Upto(Attempts(trail, c), Len(trail)) = Attempts(trail, c)
      /\ Upto(Answers(trail, c), Len(trail)) = Answers(trail, c)
  BY AllOf, Places DEF NInv
<1>4. {k \in DOMAIN rows : ~Incomplete(rows[k])} = Complete(rows)
  <2>1. \A k \in DOMAIN rows : Incomplete(rows[k]) <=> rows[k].created = 0
    BY <1>2 DEF RowsAre, IsRow, Incomplete
  <2> QED BY <2>1 DEF Complete
<1>5. /\ Len(rows) = Cardinality(Attempts(trail, c))
      /\ Cardinality({k \in DOMAIN rows : ~Incomplete(rows[k])}) = Cardinality(Answers(trail, c))
  BY <1>2, <1>3, <1>4 DEF RowsAre
<1>6. ASSUME NEW i \in Answers(trail, c)
      PROVE  \E k \in DOMAIN rows :
                /\ rows[k].id = trail[i].target /\ rows[k].created = i
                /\ rows[k].name = trail[i].detail
                /\ rows[k].export # 0 =>
                      /\ rows[k].export > i
                      /\ trail[rows[k].export].act = "export"
                      /\ trail[rows[k].export].target = rows[k].id
  BY <1>2, <1>3 DEF RowsAre, RowOf
<1> QED BY <1>1, <1>5, <1>6 DEF Attempts, Answers

\* Unless two creations of one name in one case overlapped, the rows of a pack
\* are the attempts of its case, each complete when it was answered, with the
\* search it made and its last export, for trails of any length (evidence.py:180).
THEOREM RowsTellTheAttempts == Spec => []RowsTell
<1>1. NInv /\ LInv /\ OInv => RowsTell BY PackTells
<1> QED BY <1>1, NInit, NStep, LInit, LStep, OInit, OStep, PTL DEF Spec

LEMMA PackShows == NInv /\ LInv /\ OInv => ExportsAreShown
<1> SUFFICES ASSUME NInv, LInv, OInv, ~ overlapped, NEW e \in started,
                    NEW i \in Of(trail, "search", "ok"), trail[i].target = e.search, i < e.n,
                    NEW rows, rows = Searches(trail, made[e.search].case)
             PROVE  \E k \in DOMAIN rows : rows[k].id = e.search /\ rows[k].export # 0
    BY DEF ExportsAreShown
<1>1. PICK c : c = made[e.search].case OBVIOUS
<1>2. RowsAre(rows, trail, c, Len(trail)) BY <1>1, PackRows
<1>3. i \in DOMAIN trail /\ trail[i].act = "search" /\ trail[i].out = "ok" BY DEF Of
<1>4. trail[i].case = c BY <1>1, <1>3 DEF LInv, Tells
<1>5. i \in Answers(trail, c) BY <1>3, <1>4 DEF Answers, About, Of
<1>6. i \in Upto(Answers(trail, c), Len(trail)) BY <1>5, AllOf, Places DEF NInv
<1>7. PICK k \in DOMAIN rows : RowOf(rows[k], trail, c, i, Len(trail)) BY <1>2, <1>6 DEF RowsAre
<1>8. ExportAt(e.n, e.search) BY DEF LInv
<1>9. e.n \in About(trail, c) /\ e.n <= Len(trail)
  BY <1>1, <1>8 DEF ExportAt, About, NInv, IsSeq
<1>10. Exported(trail, c, i, Len(trail)) BY <1>8, <1>9 DEF Exported, ExportAt
<1> QED BY <1>7, <1>10 DEF RowOf

\* No export that Purview has started is missing from the pack of its case, even
\* one whose answer or whose record was lost, when the creation of its search was
\* recorded before it was asked for (workflow.py:380).
THEOREM StartedIsShown == Spec => []ExportsAreShown
<1>1. NInv /\ LInv /\ OInv => ExportsAreShown BY PackShows
<1> QED BY <1>1, NInit, NStep, LInit, LStep, OInit, OStep, PTL DEF Spec
===============================================================================
