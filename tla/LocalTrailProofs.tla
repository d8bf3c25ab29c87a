---------------------------- MODULE LocalTrailProofs ----------------------------
(***************************************************************************)
(* Proofs about LocalTrail.tla, for every number of processes, days, calls *)
(* and faults: its type invariant, that a record its caller was told of is *)
(* in a file whatever raises, ends or loses power, and on a line that      *)
(* parses but for short writes and torn lines before it; and that one      *)
(* process at a time leaves an intact chain and uses no number twice.      *)
(*                                                                         *)
(* The first strengthening follows a call through append(): once written   *)
(* its record is in the file (InFile), once fsync has answered it is in    *)
(* the part that a power cut keeps (OnDisk), and an acknowledged one stays *)
(* there.  With it goes what is left of its line (KeptInv): a write that   *)
(* somebody was told of or waits for is whole unless it came back short.   *)
(*                                                                         *)
(* The second (AloneInv) is about the order of all writes, over the days:  *)
(* each that has only whole ones before it continues the one just before   *)
(* it, lines that parse are numbered upwards, and the process on the       *)
(* directory goes on from the end of that.  A power cut takes from the     *)
(* end, as long as what no fsync has reached is the last write of all.     *)
(***************************************************************************)
EXTENDS LocalTrail, TLAPS

\* Call n's record is among the writes of day d's file.
InFile(n, d) == \E i \in DOMAIN file[d] : file[d][i].call = n

\* It is among those a power cut cannot take back.
OnDisk(n, d) == \E i \in DOMAIN file[d] : i <= synced[d] /\ file[d][i].call = n

CallOK(p) ==
    LET n == at[p].call IN
    /\ at[p].pc # "idle" => n \in DOMAIN rec
    /\ at[p].pc = "fsync" => InFile(n, rec[n].day)
    /\ at[p].pc = "chmod" => OnDisk(n, rec[n].day)

IInv ==
    /\ TypeOK
    /\ Len(rec) <= MaxCalls
    /\ \A d \in Days : /\ synced[d] <= Len(file[d])
                       /\ \A i \in DOMAIN file[d] : file[d][i].call \in DOMAIN rec
    /\ \A p \in Procs : CallOK(p)
    /\ \A n \in acked \ aside : \E d \in Days : OnDisk(n, d)

-------------------------------------------------------------------------------
(* Facts about the operators the actions are built from.                   *)

\* What the actions assign has the type of what it replaces.
LEMMA Types ==
  /\ Idle \in Stands
  /\ Genesis \in Heads
  /\ \A seq, last \in Nat : [seq |-> seq, last |-> last] \in Heads
  /\ \A pc \in {"idle", "append", "fsync", "chmod"}, n \in Nat :
        [pc |-> pc, call |-> n] \in Stands
  BY DEF Idle, Stands, Genesis, Heads

\* The numbers a process holds are numbers.
LEMMA Fields ==
  ASSUME IInv, NEW p \in Procs
  PROVE  /\ at[p].pc \in {"idle", "append", "fsync", "chmod"}
         /\ at[p].call \in Nat
         /\ head[p].seq \in Nat
         /\ head[p].last \in Nat
         /\ Len(rec) \in Nat
         /\ DOMAIN rec \subseteq Calls
         /\ \A n \in DOMAIN rec : rec[n].seq \in Nat /\ rec[n].day \in Days
  <1>1. at[p] \in Stands /\ head[p] \in Heads
    BY DEF IInv, TypeOK
  <1>2. /\ Len(rec) \in Nat
        /\ DOMAIN rec = 1..Len(rec)
        /\ \A n \in DOMAIN rec : rec[n] \in Records
    BY DEF IInv, TypeOK
  <1>3. MaxCalls \in Nat /\ Len(rec) <= MaxCalls
    BY LocalAssumption DEF IInv
  <1>4. QED
    BY <1>1, <1>2, <1>3 DEF Stands, Heads, Records, Calls

\* A power cut leaves a file of writes that starts with the synced ones.
LEMMA RemainsKeeps ==
  ASSUME NEW f \in Seq(Writes), NEW k \in Nat, k <= Len(f), NEW g \in Remains(f, k)
  PROVE  /\ g \in Seq(Writes)
         /\ k <= Len(g)
         /\ \A i \in DOMAIN f : i <= k => i \in DOMAIN g /\ g[i] = f[i]
  <1>1. CASE \E n \in k..Len(f) : g = SubSeq(f, 1, n)
    <2>1. PICK n \in k..Len(f) : g = SubSeq(f, 1, n)
      BY <1>1
    <2>2. QED
      BY <2>1
  <1>2. CASE \E n \in k..(Len(f) - 1), part \in Parts :
                g = Append(SubSeq(f, 1, n), [f[n + 1] EXCEPT !.part = part])
    <2>1. PICK n \in k..(Len(f) - 1), part \in Parts :
             g = Append(SubSeq(f, 1, n), [f[n + 1] EXCEPT !.part = part])
      BY <1>2
    <2> DEFINE w == [f[n + 1] EXCEPT !.part = part]
    <2>2. SubSeq(f, 1, n) \in Seq(Writes) /\ Len(SubSeq(f, 1, n)) = n
      OBVIOUS
    <2>3. w \in Writes
      <3>1. f[n + 1] \in Writes
        OBVIOUS
      <3>2. QED
        BY <3>1 DEF Writes
    <2>4. g = Append(SubSeq(f, 1, n), w)
      BY <2>1
    <2> HIDE DEF w
    <2>5. QED
      BY <2>2, <2>3, <2>4
  <1>3. (\E n \in k..Len(f) : g = SubSeq(f, 1, n)) \/
        \E n \in k..(Len(f) - 1), part \in Parts :
            g = Append(SubSeq(f, 1, n), [f[n + 1] EXCEPT !.part = part])
    BY DEF Remains
  <1>4. QED
    BY <1>1, <1>2, <1>3

\* Nothing is in it that was not in the file, at the same place.
LEMMA RemainsFrom ==
  ASSUME NEW f \in Seq(Writes), NEW k \in Nat, k <= Len(f), NEW g \in Remains(f, k),
         NEW i \in DOMAIN g
  PROVE  i \in DOMAIN f /\ g[i].call = f[i].call
  <1>1. CASE \E n \in k..Len(f) : g = SubSeq(f, 1, n)
    <2>1. PICK n \in k..Len(f) : g = SubSeq(f, 1, n)
      BY <1>1
    <2>2. QED
      BY <2>1
  <1>2. CASE \E n \in k..(Len(f) - 1), part \in Parts :
                g = Append(SubSeq(f, 1, n), [f[n + 1] EXCEPT !.part = part])
    <2>1. PICK n \in k..(Len(f) - 1), part \in Parts :
             g = Append(SubSeq(f, 1, n), [f[n + 1] EXCEPT !.part = part])
      BY <1>2
    <2>2. SubSeq(f, 1, n) \in Seq(Writes) /\ Len(SubSeq(f, 1, n)) = n
      OBVIOUS
    <2>3. i \in 1..(n + 1)
      BY <2>1, <2>2
    <2>4. CASE i = n + 1
      BY <2>1, <2>2, <2>4
    <2>5. CASE i \in 1..n
      BY <2>1, <2>2, <2>5
    <2>6. QED
      BY <2>3, <2>4, <2>5
  <1>3. (\E n \in k..Len(f) : g = SubSeq(f, 1, n)) \/
        \E n \in k..(Len(f) - 1), part \in Parts :
            g = Append(SubSeq(f, 1, n), [f[n + 1] EXCEPT !.part = part])
    BY DEF Remains
  <1>4. QED
    BY <1>1, <1>2, <1>3

\* What Append does, for a sequence of anything.
LEMMA Appended ==
  ASSUME NEW S, NEW f \in Seq(S), NEW w \in S
  PROVE  /\ Len(Append(f, w)) = Len(f) + 1
         /\ \A i \in DOMAIN Append(f, w) :
               Append(f, w)[i] = w \/ (i \in DOMAIN f /\ Append(f, w)[i] = f[i])
  OBVIOUS

\* A write at the end of day d's file disturbs none before it, in any file.
LEMMA AppendKeeps ==
  ASSUME TypeOK, NEW d \in Days, NEW w \in Writes,
         file' = [file EXCEPT ![d] = Append(@, w)]
  PROVE  /\ file' \in [Days -> Seq(Writes)]
         /\ Len(file[d]) + 1 \in DOMAIN file'[d]
         /\ file'[d][Len(file[d]) + 1] = w
         /\ \A e \in Days : /\ Len(file[e]) <= Len(file'[e])
                            /\ \A i \in DOMAIN file[e] : /\ i \in DOMAIN file'[e]
                                                         /\ file'[e][i] = file[e][i]
  BY DEF TypeOK

\* What os.write puts at the end of the file: the record, in full or short.
LEMMA WriteAdds ==
  ASSUME NEW p \in Procs, Write(p), at[p].call \in Calls
  PROVE  \E w \in Writes :
            /\ w.call = at[p].call
            /\ w.part = "whole" \/ w.short
            /\ file' = [file EXCEPT ![rec[at[p].call].day] = Append(@, w)]
  <1>1. PICK part \in Parts :
           file' = [file EXCEPT ![rec[at[p].call].day] =
                      Append(@, [call |-> at[p].call, part |-> part,
                                 short |-> part # "whole"])]
    BY DEF Write
  <1>2. PICK w : w = [call |-> at[p].call, part |-> part, short |-> part # "whole"]
    OBVIOUS
  <1>3. (part # "whole") \in BOOLEAN
    OBVIOUS
  <1>4. w \in Writes /\ w.call = at[p].call /\ (w.part = "whole" \/ w.short)
    BY <1>2, <1>3 DEF Writes
  <1>5. file' = [file EXCEPT ![rec[at[p].call].day] = Append(@, w)]
    BY <1>1, <1>2
  <1>6. QED
    BY <1>4, <1>5

-------------------------------------------------------------------------------
(* Every step keeps the invariant.                                         *)

\* The initial state has it.
LEMMA InitIInv == Init => IInv
  <1> SUFFICES ASSUME Init PROVE IInv
    OBVIOUS
  <1>1. TypeOK
    <2>1. file \in [Days -> Seq(Writes)] /\ rec \in Seq(Records)
      BY DEF Init
    <2>2. 1 \in Days
      BY LocalAssumption DEF Days
    <2>3. synced \in [Days -> Nat] /\ spent \in [Counters -> Nat]
      BY DEF Init
    <2>4. /\ sink \in [Procs -> {"none", "file", "stderr"}]
          /\ head \in [Procs -> Heads] /\ at \in [Procs -> Stands]
      BY Types DEF Init
    <2>5. QED
      BY <2>1, <2>2, <2>3, <2>4 DEF Init, TypeOK
  <1>2. QED
    BY <1>1, LocalAssumption DEF Init, IInv, CallOK, Idle

\* A step that leaves the files, the records and the acknowledgements alone
\* keeps it, if the processes it moves are out of append().
LEMMA ProcStep ==
  ASSUME IInv, NEW p \in Procs, UNCHANGED <<disk, rec, told>>,
         TypeOK', at' = at \/ at' = [at EXCEPT ![p] = Idle]
  PROVE  IInv'
  <1>1. UNCHANGED <<file, synced, rec, acked, aside>>
    BY DEF disk, told
  <1>2. \A q \in Procs : at'[q] = at[q] \/ at'[q] = Idle
    BY DEF IInv, TypeOK
  <1>3. \A q \in Procs : CallOK(q)'
    BY <1>1, <1>2 DEF IInv, CallOK, InFile, OnDisk, Idle
  <1>4. QED
    BY <1>1, <1>3 DEF IInv, OnDisk

\* Starting on the files, or on stderr.
LEMMA StartKeeps ==
  ASSUME IInv, NEW p \in Procs, Start(p) \/ Degrade(p)
  PROVE  IInv'
  <1>1. head' \in [Procs -> Heads]
    <2>1. CASE head' = [head EXCEPT ![p] = Genesis]
      BY <2>1, Types DEF IInv, TypeOK
    <2>2. CASE \E l \in Readable : head' = [head EXCEPT ![p] =
                           [seq |-> rec[Held(l)].seq, last |-> Held(l)]]
      <3>1. PICK l \in Readable : head' = [head EXCEPT ![p] =
                           [seq |-> rec[Held(l)].seq, last |-> Held(l)]]
        BY <2>2
      <3>2. l[1] \in Days /\ l[2] \in DOMAIN file[l[1]]
        BY DEF Readable, Places
      <3>3. Held(l) \in DOMAIN rec
        BY <3>2 DEF Held, IInv
      <3>4. Held(l) \in Nat /\ rec[Held(l)].seq \in Nat
        BY <3>3, Fields DEF Calls
      <3>5. QED
        BY <3>1, <3>4, Types DEF IInv, TypeOK
    <2>3. QED
      BY <2>1, <2>2 DEF Start, Degrade
  <1>2. /\ UNCHANGED <<file, synced, today, at, rec, acked, aside, spent>>
        /\ shared' \in BOOLEAN
        /\ sink' \in [Procs -> {"none", "file", "stderr"}]
    BY DEF Start, Degrade, IInv, TypeOK, disk, told
  <1>3. TypeOK'
    BY <1>1, <1>2 DEF TypeOK, IInv
  <1>4. QED
    BY <1>2, <1>3, ProcStep DEF disk, told

\* A call that raises, or a process that ends: no file is touched.
LEMMA RaiseKeeps ==
  ASSUME IInv, NEW p \in Procs, OpenFails(p) \/ FsyncRaises(p) \/ Stop(p)
  PROVE  IInv'
  <1>1. /\ UNCHANGED <<file, synced, today, rec, acked, aside, shared>>
        /\ head' \in [Procs -> Heads]
    BY Types DEF OpenFails, FsyncRaises, Stop, Raises, IInv, TypeOK, disk, told
  <1>2. spent' \in [Counters -> Nat]
    <2>1. spent' = spent \/ \E c \in Counters : spent' = [spent EXCEPT ![c] = @ + 1]
      BY DEF OpenFails, FsyncRaises, Stop, Counters, Spend
    <2>2. CASE \E c \in Counters : spent' = [spent EXCEPT ![c] = @ + 1]
      <3>1. PICK c \in Counters : spent' = [spent EXCEPT ![c] = @ + 1]
        BY <2>2
      <3>2. spent \in [Counters -> Nat] /\ spent[c] \in Nat
        BY DEF IInv, TypeOK
      <3>3. QED
        BY <3>1, <3>2
    <2>3. QED
      BY <2>1, <2>2 DEF IInv, TypeOK
  <1>3. /\ sink' \in [Procs -> {"none", "file", "stderr"}]
        /\ at' = [at EXCEPT ![p] = Idle]
    BY DEF OpenFails, FsyncRaises, Stop, Raises, IInv, TypeOK
  <1>4. TypeOK'
    BY <1>1, <1>2, <1>3, Types DEF IInv, TypeOK
  <1>5. QED
    BY <1>1, <1>3, <1>4, ProcStep DEF disk, told

\* A call that builds its record.
LEMMA BuildKeeps ==
  ASSUME IInv, NEW p \in Procs, Build(p)
  PROVE  IInv'
  <1> DEFINE r == [seq |-> head[p].seq + 1, prev |-> head[p].last, day |-> today]
  <1>1. r \in Records
    BY Fields DEF IInv, TypeOK, Records
  <1>2. rec \in Seq(Records) /\ rec' = Append(rec, r)
    BY DEF Build, IInv, TypeOK
  <1> HIDE DEF r
  <1>3. /\ rec' \in Seq(Records)
        /\ Len(rec') = Len(rec) + 1
        /\ \A n \in DOMAIN rec : n \in DOMAIN rec' /\ rec'[n] = rec[n]
        /\ Len(rec) + 1 \in DOMAIN rec'
    BY <1>1, <1>2
  <1>4. Len(rec) \in Nat /\ Len(rec') <= MaxCalls
    BY <1>3, Fields, LocalAssumption DEF Build
  <1>5. /\ UNCHANGED <<file, synced, today, sink, head, acked, aside, shared, spent>>
        /\ at' = [at EXCEPT ![p] = [pc |-> "append", call |-> Len(rec) + 1]]
    BY DEF Build, disk, told
  <1>6. [pc |-> "append", call |-> Len(rec) + 1] \in Stands
    BY <1>4, Types
  <1>7. TypeOK'
    BY <1>3, <1>5, <1>6 DEF IInv, TypeOK
  <1>8. \A q \in Procs : CallOK(q)'
    <2> SUFFICES ASSUME NEW q \in Procs PROVE CallOK(q)'
      OBVIOUS
    <2>1. CASE q = p
      BY <1>3, <1>5, <2>1 DEF IInv, TypeOK, CallOK
    <2>2. CASE q # p
      <3>1. at'[q] = at[q] /\ CallOK(q)
        BY <1>5, <2>2 DEF IInv, TypeOK
      <3>2. at[q].pc # "idle" => rec'[at[q].call] = rec[at[q].call]
        BY <1>3, <3>1 DEF CallOK
      <3>3. QED
        BY <1>3, <1>5, <3>1, <3>2 DEF CallOK, InFile, OnDisk
    <2>3. QED
      BY <2>1, <2>2
  <1>9. QED
    BY <1>3, <1>4, <1>5, <1>7, <1>8 DEF IInv, OnDisk

\* A call that is answered: its record is in the kept part of its file, or
\* stderr took it.
LEMMA AnswerKeeps ==
  ASSUME IInv, NEW p \in Procs, Logs(p) \/ Returns(p)
  PROVE  IInv'
  <1> DEFINE n == at[p].call
  <1>1. n \in DOMAIN rec /\ n \in Calls
    BY Fields DEF Logs, Returns, IInv, CallOK
  <1>2. /\ UNCHANGED <<file, synced, today, sink, rec, shared, spent>>
        /\ head' = [head EXCEPT ![p] = [seq |-> rec[n].seq, last |-> n]]
        /\ at' = [at EXCEPT ![p] = Idle]
        /\ acked' = acked \cup {n}
        /\ aside' = aside \/ aside' = aside \cup {n}
    BY DEF Logs, Returns, Accepts, disk
  <1>3. [seq |-> rec[n].seq, last |-> n] \in Heads
    BY <1>1, Fields, Types
  <1>4. TypeOK'
    <2>1. acked' \subseteq Calls /\ aside' \subseteq acked'
      BY <1>1, <1>2 DEF IInv, TypeOK
    <2>2. QED
      BY <1>2, <1>3, <2>1, Types DEF IInv, TypeOK
  <1>5. \A q \in Procs : CallOK(q)'
    <2>1. \A q \in Procs : at'[q] = at[q] \/ at'[q] = Idle
      BY <1>2 DEF IInv, TypeOK
    <2>2. ASSUME NEW q \in Procs PROVE CallOK(q)'
      <3>1. CASE at'[q] = Idle
        BY <3>1 DEF CallOK, Idle
      <3>2. CASE at'[q] = at[q]
        <4>1. CallOK(q)
          BY DEF IInv
        <4>2. \A m, e : (InFile(m, e)' <=> InFile(m, e)) /\ (OnDisk(m, e)' <=> OnDisk(m, e))
          BY <1>2 DEF InFile, OnDisk
        <4>3. QED
          BY <1>2, <3>2, <4>1, <4>2 DEF CallOK
      <3>3. QED
        BY <2>1, <3>1, <3>2
    <2>3. QED
      BY <2>2
  <1>6. \A m \in acked' \ aside' : \E d \in Days : OnDisk(m, d)
    <2>1. CASE Logs(p)
      BY <2>1 DEF Logs, Accepts, IInv
    <2>2. CASE Returns(p)
      <3>1. OnDisk(n, rec[n].day) /\ rec[n].day \in Days
        BY <2>2, <1>1, Fields DEF Returns, IInv, CallOK
      <3>2. QED
        BY <2>2, <3>1 DEF Returns, Accepts, IInv
    <2>3. QED
      BY <2>1, <2>2
  <1>7. QED
    BY <1>2, <1>4, <1>5, <1>6 DEF IInv, OnDisk

\* os.write: the record is at the end of its day's file.
LEMMA WriteKeeps ==
  ASSUME IInv, NEW p \in Procs, Write(p)
  PROVE  IInv'
  <1> DEFINE n == at[p].call
             d == rec[n].day
  <1>1. n \in DOMAIN rec /\ n \in Calls /\ d \in Days
    BY Fields DEF Write, IInv, CallOK
  <1>2. PICK w \in Writes : w.call = n /\ file' = [file EXCEPT ![d] = Append(@, w)]
    BY <1>1, WriteAdds
  <1>3. w \in Writes
    BY <1>2
  <1>4. /\ file' \in [Days -> Seq(Writes)]
        /\ Len(file[d]) + 1 \in DOMAIN file'[d]
        /\ file'[d][Len(file[d]) + 1] = w
        /\ \A e \in Days : /\ Len(file[e]) <= Len(file'[e])
                           /\ \A i \in DOMAIN file[e] : /\ i \in DOMAIN file'[e]
                                                        /\ file'[e][i] = file[e][i]
    BY <1>1, <1>2, <1>3, AppendKeeps DEF IInv
  <1>5. /\ UNCHANGED <<synced, today, sink, head, rec, acked, aside, shared>>
        /\ at' = [at EXCEPT ![p] = [pc |-> "fsync", call |-> n]]
        /\ [pc |-> "fsync", call |-> n] \in Stands
    BY <1>1, Types DEF Write, told, Calls
  <1>6. spent' \in [Counters -> Nat]
    BY DEF Write, IInv, Counters, TypeOK, Spend
  <1>7. TypeOK'
    BY <1>4, <1>5, <1>6 DEF IInv, TypeOK
  <1>8. \A q \in Procs : CallOK(q)'
    <2> SUFFICES ASSUME NEW q \in Procs PROVE CallOK(q)'
      OBVIOUS
    <2>1. CASE q = p
      <3>1. at'[p] = [pc |-> "fsync", call |-> n]
        BY <1>5 DEF IInv, TypeOK
      <3>2. \E i \in DOMAIN file'[d] : file'[d][i].call = n
        <4>1. file'[d][Len(file[d]) + 1].call = n
          BY <1>2, <1>4
        <4>2. QED
          BY <1>4, <4>1
      <3>3. QED
        BY <1>1, <1>5, <2>1, <3>1, <3>2 DEF CallOK, InFile
    <2>2. CASE q # p
      <3>1. at'[q] = at[q] /\ CallOK(q)
        BY <1>5, <2>2 DEF IInv, TypeOK
      <3>2. at[q].pc # "idle" => rec[at[q].call].day \in Days
        BY <3>1, Fields DEF CallOK
      <3>3. \A m, e : e \in Days /\ InFile(m, e) => InFile(m, e)'
        BY <1>4 DEF InFile
      <3>4. \A m, e : e \in Days /\ OnDisk(m, e) => OnDisk(m, e)'
        BY <1>4, <1>5 DEF OnDisk
      <3>5. QED
        BY <1>5, <3>1, <3>2, <3>3, <3>4 DEF CallOK
    <2>3. QED
      BY <2>1, <2>2
  <1>9. \A e \in Days : /\ synced[e] <= Len(file'[e])
                      /\ \A i \in DOMAIN file'[e] : file'[e][i].call \in DOMAIN rec
    <2> SUFFICES ASSUME NEW e \in Days
                 PROVE  /\ synced[e] <= Len(file'[e])
                        /\ \A i \in DOMAIN file'[e] : file'[e][i].call \in DOMAIN rec
      OBVIOUS
    <2>1. /\ file[e] \in Seq(Writes) /\ synced[e] \in Nat
          /\ synced[e] <= Len(file[e])
          /\ \A i \in DOMAIN file[e] : file[e][i].call \in DOMAIN rec
      BY DEF IInv, TypeOK
    <2>2. CASE e # d
      <3>1. file'[e] = file[e]
        BY <1>2, <2>2 DEF IInv, TypeOK
      <3>2. QED
        BY <2>1, <3>1
    <2>3. CASE e = d
      <3>1. file'[d] = Append(file[d], w)
        BY <1>1, <1>2 DEF IInv, TypeOK
      <3>2. w.call \in DOMAIN rec
        BY <1>1, <1>2
      <3> DEFINE f == file[e]
      <3>3. file'[e] = Append(f, w) /\ f \in Seq(Writes)
        BY <2>1, <2>3, <3>1
      <3>4. \A i \in DOMAIN f : f[i].call \in DOMAIN rec
        BY <2>1
      <3>5. synced[e] <= Len(f) /\ synced[e] \in Nat
        BY <2>1
      <3> HIDE DEF f
      <3>6. /\ Len(Append(f, w)) = Len(f) + 1
            /\ \A i \in DOMAIN Append(f, w) :
                  Append(f, w)[i] = w \/ (i \in DOMAIN f /\ Append(f, w)[i] = f[i])
        BY <1>3, <3>3, Appended
      <3>7. Len(f) \in Nat
        BY <3>3
      <3>8. \A i \in DOMAIN Append(f, w) : Append(f, w)[i].call \in DOMAIN rec
        BY <3>2, <3>4, <3>6
      <3>9. QED
        BY <3>3, <3>5, <3>6, <3>7, <3>8
    <2>4. QED
      BY <2>2, <2>3
  <1>10. \A m \in acked \ aside : \E e \in Days : OnDisk(m, e)'
    <2>1. \A m, e : e \in Days /\ OnDisk(m, e) => OnDisk(m, e)'
      BY <1>4, <1>5 DEF OnDisk
    <2>2. QED
      BY <2>1 DEF IInv
  <1>11. QED
    BY <1>5, <1>7, <1>8, <1>9, <1>10 DEF IInv

\* os.fsync: all of the file is kept, the call's own record with it.
LEMMA FsyncKeeps ==
  ASSUME IInv, NEW p \in Procs, Fsync(p)
  PROVE  IInv'
  <1> DEFINE n == at[p].call
             d == rec[n].day
  <1>1. n \in DOMAIN rec /\ d \in Days /\ InFile(n, d)
    BY Fields DEF Fsync, IInv, CallOK
  <1>2. /\ UNCHANGED <<file, today, sink, head, rec, acked, aside, shared, spent>>
        /\ at' = [at EXCEPT ![p] = [pc |-> "chmod", call |-> n]]
        /\ [pc |-> "chmod", call |-> n] \in Stands
    BY <1>1, Types, Fields DEF Fsync, told, Calls
  <1>3. /\ synced' \in [Days -> Nat]
        /\ \A e \in Days : synced[e] <= synced'[e] /\ synced'[e] <= Len(file[e])
        /\ synced'[d] = Len(file[d])
    BY <1>1 DEF Fsync, IInv, TypeOK
  <1>4. TypeOK'
    BY <1>2, <1>3 DEF IInv, TypeOK
  <1>5. \A q \in Procs : CallOK(q)'
    <2> SUFFICES ASSUME NEW q \in Procs PROVE CallOK(q)'
      OBVIOUS
    <2>1. CASE q = p
      <3>1. \E i \in DOMAIN file[d] : i <= synced'[d] /\ file[d][i].call = n
        <4>1. PICK i \in DOMAIN file[d] : file[d][i].call = n
          BY <1>1 DEF InFile
        <4>2. i <= Len(file[d])
          BY <1>1 DEF IInv, TypeOK
        <4>3. QED
          BY <1>3, <4>1, <4>2
      <3>2. at'[p] = [pc |-> "chmod", call |-> n]
        BY <1>2 DEF IInv, TypeOK
      <3>3. QED
        BY <2>1, <3>1, <3>2, <1>1, <1>2 DEF CallOK, OnDisk
    <2>2. CASE q # p
      <3>1. at'[q] = at[q] /\ CallOK(q)
        BY <1>2, <2>2 DEF IInv, TypeOK
      <3>2. at[q].pc # "idle" => rec[at[q].call].day \in Days
        BY <3>1, Fields DEF CallOK
      <3>3. \A m, e : e \in Days /\ OnDisk(m, e) => OnDisk(m, e)'
        BY <1>2, <1>3 DEF OnDisk, IInv, TypeOK
      <3>4. QED
        BY <1>2, <3>1, <3>2, <3>3 DEF CallOK, InFile
    <2>3. QED
      BY <2>1, <2>2
  <1>6. \A m \in acked \ aside : \E e \in Days : OnDisk(m, e)'
    BY <1>2, <1>3 DEF IInv, OnDisk, TypeOK
  <1>7. QED
    BY <1>2, <1>3, <1>4, <1>5, <1>6 DEF IInv

\* A power cut: every process is down, every synced record where it was.
LEMMA PowerCutKeeps ==
  ASSUME IInv, PowerCut
  PROVE  IInv'
  <1>1. /\ DOMAIN file' = Days
        /\ \A d \in Days : file'[d] \in Remains(file[d], synced[d])
    BY DEF PowerCut
  <1>2. \A d \in Days : /\ file'[d] \in Seq(Writes)
                       /\ synced[d] <= Len(file'[d])
                       /\ \A i \in DOMAIN file[d] : i <= synced[d] =>
                             i \in DOMAIN file'[d] /\ file'[d][i].call = file[d][i].call
    BY <1>1, RemainsKeeps DEF IInv, TypeOK
  <1>3. file' \in [Days -> Seq(Writes)]
    BY <1>1, <1>2 DEF PowerCut
  <1>4. UNCHANGED <<today, rec, acked, aside, shared>>
    BY DEF PowerCut, told
  <1>5. /\ synced' = [d \in Days |-> Len(file'[d])]
        /\ sink' = [q \in Procs |-> "none"]
        /\ head' = [q \in Procs |-> Genesis]
        /\ at' = [q \in Procs |-> Idle]
    BY DEF PowerCut
  <1>6. spent' \in [Counters -> Nat]
    <2>1. \E c \in Counters : spent' = [spent EXCEPT ![c] = @ + 1]
      BY DEF PowerCut, Counters, Spend
    <2>2. QED
      BY <2>1 DEF IInv, TypeOK
  <1>7. TypeOK'
    BY <1>3, <1>4, <1>5, <1>6, Types DEF IInv, TypeOK
  <1>8. \A d \in Days : \A i \in DOMAIN file'[d] : file'[d][i].call \in DOMAIN rec
    <2> SUFFICES ASSUME NEW d \in Days, NEW i \in DOMAIN file'[d]
                 PROVE  file'[d][i].call \in DOMAIN rec
      OBVIOUS
    <2>1. i \in DOMAIN file[d] /\ file'[d][i].call = file[d][i].call
      BY <1>1, RemainsFrom DEF IInv, TypeOK
    <2>2. QED
      BY <2>1 DEF IInv
  <1>9. \A m \in acked \ aside : \E d \in Days : OnDisk(m, d)'
    <2> SUFFICES ASSUME NEW m \in acked \ aside PROVE \E d \in Days : OnDisk(m, d)'
      OBVIOUS
    <2>1. PICK d \in Days : OnDisk(m, d)
      BY DEF IInv
    <2>2. PICK i \in DOMAIN file[d] : i <= synced[d] /\ file[d][i].call = m
      BY <2>1 DEF OnDisk
    <2>3. i \in DOMAIN file'[d] /\ file'[d][i].call = m
      BY <1>2, <2>2
    <2>4. i <= synced'[d]
      BY <1>3, <1>5, <2>3
    <2>5. QED
      BY <2>3, <2>4 DEF OnDisk
  <1>10. QED
    BY <1>3, <1>4, <1>5, <1>7, <1>8, <1>9 DEF IInv, CallOK, Idle

\* Midnight.
LEMMA NextDayKeeps ==
  ASSUME IInv, NextDay
  PROVE  IInv'
  <1>1. TypeOK'
    <2>1. today' \in Days
      BY LocalAssumption DEF NextDay, IInv, TypeOK, Days
    <2>2. QED
      BY <2>1 DEF NextDay, IInv, TypeOK, disk, told, procs
  <1>2. UNCHANGED <<file, synced, at, rec, acked, aside>>
    BY DEF NextDay, disk, told, procs
  <1>3. \A q \in Procs : CallOK(q)'
    BY <1>2 DEF IInv, CallOK, InFile, OnDisk
  <1>4. QED
    BY <1>1, <1>2, <1>3 DEF IInv, OnDisk

\* Every step keeps the strengthened invariant.
LEMMA StepKeeps == IInv /\ [Next]_vars => IInv'
  <1> SUFFICES ASSUME IInv, [Next]_vars PROVE IInv'
    OBVIOUS
  <1>1. ASSUME NEW p \in Procs, Start(p) \/ Degrade(p) PROVE IInv'
    BY <1>1, StartKeeps
  <1>2. ASSUME NEW p \in Procs, OpenFails(p) \/ FsyncRaises(p) \/ Stop(p) PROVE IInv'
    BY <1>2, RaiseKeeps
  <1>3. ASSUME NEW p \in Procs, Build(p) PROVE IInv'
    BY <1>3, BuildKeeps
  <1>4. ASSUME NEW p \in Procs, Logs(p) \/ Returns(p) PROVE IInv'
    BY <1>4, AnswerKeeps
  <1>5. ASSUME NEW p \in Procs, Write(p) PROVE IInv'
    BY <1>5, WriteKeeps
  <1>6. ASSUME NEW p \in Procs, Fsync(p) PROVE IInv'
    BY <1>6, FsyncKeeps
  <1>7. CASE UNCHANGED vars
    BY <1>7 DEF vars, IInv, TypeOK, CallOK, InFile, OnDisk
  <1>8. QED
    BY <1>1, <1>2, <1>3, <1>4, <1>5, <1>6, <1>7, PowerCutKeeps, NextDayKeeps DEF Next

-------------------------------------------------------------------------------
\* Every state of every behaviour has the strengthened invariant.
LEMMA Invariant == Spec => []IInv
  <1>1. QED
    BY InitIInv, StepKeeps, PTL DEF Spec

\* The variables keep their types (sink.py, trail.py: what a process and the
\* files of a directory hold), whatever the number of processes and faults.
THEOREM LocalTypeCorrect == Spec => []TypeOK
  <1>1. IInv => TypeOK
    BY DEF IInv
  <1>2. QED
    BY <1>1, Invariant, PTL

-------------------------------------------------------------------------------
(* What is left of an answered record's line.                              *)

\* Somebody was told of call n's record, or waits to be.
Owed(n) == n \in acked \/ \E p \in Procs : at[p].pc # "idle" /\ at[p].call = n

\* A call is written once: not before append(), after it into its own day's
\* file, and once fsync has answered it is all among what is kept.
Once(p) ==
    LET n == at[p].call IN
    /\ at[p].pc # "idle" => n \notin acked
    /\ at[p].pc = "append" => \A q \in Places : Held(q) # n
    /\ at[p].pc = "fsync" => \A q \in Places : Held(q) = n => q[1] = rec[n].day
    /\ at[p].pc = "chmod" =>
          \A q \in Places : Held(q) = n => q[2] <= synced[q[1]]

KeptInv ==
    /\ acked \subseteq DOMAIN rec
    /\ \A q \in Places : Owed(Held(q)) =>
          file[q[1]][q[2]].part = "whole" \/ file[q[1]][q[2]].short
    /\ \A q \in Places : q[2] > synced[q[1]] => Held(q) \notin acked
    /\ \A p \in Procs : Once(p)
    /\ \A p, q \in Procs : at[p].pc # "idle" /\ at[q].pc # "idle" /\ p # q
                             => at[p].call # at[q].call

\* A step that leaves the files, the records and the acknowledgements alone, and
\* moves processes out of append() at most.
LEMMA KeptQuiet ==
  ASSUME KeptInv, UNCHANGED <<file, synced, rec, acked>>,
         \A q \in Procs : at'[q] = at[q] \/ at'[q] = Idle
  PROVE  KeptInv'
  <1>1. Places' = Places /\ \A q : Held(q)' = Held(q)
    BY DEF Places, Held
  <1>2. \A n : Owed(n)' => Owed(n)
    BY DEF Owed, Idle
  <1>3. \A q \in Procs : Once(q)'
    BY <1>1 DEF KeptInv, Once, Idle
  <1>4. \A p, q \in Procs : at'[p].pc # "idle" /\ at'[q].pc # "idle" /\ p # q
                             => at'[p].call # at'[q].call
    BY DEF KeptInv, Idle
  <1>5. QED
    BY <1>1, <1>2, <1>3, <1>4 DEF KeptInv

\* A call that builds its record: nothing holds its number yet.
LEMMA KeptBuild ==
  ASSUME IInv, KeptInv, NEW p \in Procs, Build(p)
  PROVE  KeptInv'
  <1>1. PICK n : n = Len(rec) + 1
    OBVIOUS
  <1>2. /\ n \notin DOMAIN rec
        /\ \A m \in DOMAIN rec : m \in DOMAIN rec' /\ rec'[m] = rec[m]
    BY <1>1 DEF Build, IInv, TypeOK
  <1>3. /\ UNCHANGED <<file, synced, acked>>
        /\ at'[p].pc = "append" /\ at'[p].call = n
        /\ \A q \in Procs : q # p => at'[q] = at[q]
    BY <1>1 DEF Build, IInv, TypeOK, disk, told
  <1>4. /\ Places' = Places
        /\ \A q \in Places : /\ Held(q)' = Held(q) /\ Held(q) \in DOMAIN rec
                             /\ Held(q) # n
    BY <1>2, <1>3 DEF Places, Held, IInv
  <1>5. \A m \in DOMAIN rec : Owed(m)' => Owed(m)
    BY <1>2, <1>3 DEF Owed
  <1>6. \A q \in Procs : at[q].pc # "idle" => at[q].call \in DOMAIN rec
    BY DEF IInv, CallOK
  <1>7. \A q \in Procs : Once(q)'
    <2> SUFFICES ASSUME NEW q \in Procs PROVE Once(q)'
      OBVIOUS
    <2>1. CASE q = p
      BY <1>2, <1>3, <1>4, <2>1 DEF KeptInv, Once
    <2>2. CASE q # p
      BY <1>2, <1>3, <1>4, <1>6, <2>2 DEF KeptInv, Once
    <2>3. QED
      BY <2>1, <2>2
  <1>8. \A a, b \in Procs : at'[a].pc # "idle" /\ at'[b].pc # "idle" /\ a # b
                             => at'[a].call # at'[b].call
    BY <1>2, <1>3, <1>6 DEF KeptInv
  <1>9. QED
    BY <1>2, <1>3, <1>4, <1>5, <1>7, <1>8 DEF KeptInv

\* A call that is answered: it was owed, and what a file holds of it is kept.
LEMMA KeptAnswer ==
  ASSUME IInv, KeptInv, NEW p \in Procs, Logs(p) \/ Returns(p)
  PROVE  KeptInv'
  <1>1. PICK n : n = at[p].call
    OBVIOUS
  <1>2. /\ UNCHANGED <<file, synced, rec>>
        /\ acked' = acked \cup {n}
        /\ at'[p] = Idle /\ \A q \in Procs : q # p => at'[q] = at[q]
        /\ at[p].pc \in {"append", "chmod"} /\ n \in DOMAIN rec
    BY <1>1 DEF Logs, Returns, Accepts, disk, IInv, TypeOK, CallOK
  <1>3. Places' = Places /\ \A q : Held(q)' = Held(q)
    BY <1>2 DEF Places, Held
  <1>4. \A m : Owed(m)' => Owed(m)
    BY <1>1, <1>2 DEF Owed, Idle
  <1>5. \A q \in Places : q[2] > synced[q[1]] => Held(q) # n
    <2>1. CASE at[p].pc = "append"
      BY <1>1, <2>1 DEF KeptInv, Once
    <2>2. CASE at[p].pc = "chmod"
      <3>1. \A q \in Places : q[2] \in Nat /\ synced[q[1]] \in Nat
        BY DEF IInv, TypeOK, Places
      <3>2. QED
        BY <1>1, <2>2, <3>1 DEF KeptInv, Once
    <2>3. QED
      BY <1>2, <2>1, <2>2
  <1>6. \A q \in Procs : Once(q)'
    <2> SUFFICES ASSUME NEW q \in Procs PROVE Once(q)'
      OBVIOUS
    <2>1. CASE q = p
      BY <1>2, <2>1 DEF Once, Idle
    <2>2. CASE q # p
      <3>1. at[q].pc # "idle" => at[q].call # n
        BY <1>1, <1>2, <2>2 DEF KeptInv
      <3>2. QED
        BY <1>2, <1>3, <2>2, <3>1 DEF KeptInv, Once
    <2>3. QED
      BY <2>1, <2>2
  <1>7. QED
    BY <1>2, <1>3, <1>4, <1>5, <1>6 DEF KeptInv, Idle

\* os.write: one more place, which holds a call no other place does.
LEMMA KeptWrite ==
  ASSUME IInv, KeptInv, NEW p \in Procs, Write(p)
  PROVE  KeptInv'
  <1>1. PICK n \in Calls : n = at[p].call /\ n \in DOMAIN rec
    BY Fields DEF Write, IInv, CallOK
  <1>2. PICK d \in Days : d = rec[n].day
    BY <1>1, Fields
  <1>3. PICK w \in Writes : /\ w.call = n /\ (w.part = "whole" \/ w.short)
                           /\ file' = [file EXCEPT ![d] = Append(@, w)]
    BY <1>1, <1>2, WriteAdds
  <1>4. /\ UNCHANGED <<synced, rec, acked>> /\ at[p].pc = "append"
        /\ at'[p].pc = "fsync" /\ at'[p].call = n
        /\ \A q \in Procs : q # p => at'[q] = at[q]
    BY <1>1 DEF Write, told, IInv, TypeOK
  <1>5. file[d] \in Seq(Writes) /\ file'[d] = Append(file[d], w)
    BY <1>2, <1>3 DEF IInv, TypeOK
  <1>6. PICK k \in Nat : k = Len(file[d]) + 1
    BY <1>5
  <1>7. ASSUME NEW q \in Places'
        PROVE  \/ q \in Places /\ file'[q[1]][q[2]] = file[q[1]][q[2]]
               \/ q[1] = d /\ file'[q[1]][q[2]] = w
    <2>1. q = <<q[1], q[2]>> /\ q[1] \in Days /\ q[2] \in DOMAIN file'[q[1]]
      BY <1>7 DEF Places
    <2>2. CASE q[1] # d
      <3>1. file'[q[1]] = file[q[1]]
        BY <1>3, <2>1, <2>2 DEF IInv, TypeOK
      <3>2. QED
        BY <2>1, <3>1 DEF Places
    <2>3. CASE q[1] = d
      <3>1. \A i \in DOMAIN file'[d] :
               file'[d][i] = w \/ (i \in DOMAIN file[d] /\ file'[d][i] = file[d][i])
        BY <1>5, Appended
      <3>2. QED
        BY <2>1, <2>3, <3>1 DEF Places
    <2>4. QED
      BY <2>2, <2>3
  <1>8. \A m : Owed(m)' => Owed(m)
    BY <1>1, <1>4 DEF Owed
  <1>9. n \notin acked
    BY <1>1, <1>4 DEF KeptInv, Once
  <1>10. \A q \in Places' : Owed(Held(q))' =>
            file'[q[1]][q[2]].part = "whole" \/ file'[q[1]][q[2]].short
    BY <1>3, <1>7, <1>8 DEF KeptInv, Held
  <1>11. \A q \in Places' : q[2] > synced'[q[1]] => Held(q)' \notin acked'
    <2> SUFFICES ASSUME NEW q \in Places', q[2] > synced[q[1]]
                 PROVE  Held(q)' \notin acked
      BY <1>4
    <2>1. CASE file'[q[1]][q[2]] = w
      BY <1>3, <1>9, <2>1 DEF Held
    <2>2. CASE q \in Places /\ file'[q[1]][q[2]] = file[q[1]][q[2]]
      BY <2>2 DEF KeptInv, Held
    <2>3. QED
      BY <1>7, <2>1, <2>2
  <1>12. ASSUME NEW q \in Procs PROVE Once(q)'
    <2>1. CASE q = p
      <3>1. \A o \in Places : Held(o) # n
        BY <1>1, <1>4 DEF KeptInv, Once
      <3>2. \A o \in Places' : Held(o)' = n => o[1] = rec'[n].day
        BY <1>2, <1>4, <1>7, <3>1 DEF Held
      <3>3. QED
        BY <1>4, <1>9, <2>1, <3>2 DEF Once
    <2>2. CASE q # p
      <3>1. at[q].pc # "idle" => at[q].call # n
        BY <1>1, <1>4, <2>2 DEF KeptInv
      <3>2. \A o \in Places' : at[q].pc # "idle" /\ Held(o)' = at[q].call =>
                               o \in Places /\ Held(o) = at[q].call
        BY <1>3, <1>7, <3>1 DEF Held
      <3>3. QED
        BY <1>4, <2>2, <3>2 DEF KeptInv, Once
    <2>3. QED
      BY <2>1, <2>2
  <1>13. QED
    BY <1>1, <1>4, <1>10, <1>11, <1>12 DEF KeptInv

\* os.fsync: all of the file is kept, and with it every place of the call's.
LEMMA KeptFsync ==
  ASSUME IInv, KeptInv, NEW p \in Procs, Fsync(p)
  PROVE  KeptInv'
  <1>1. PICK n \in Calls : n = at[p].call /\ n \in DOMAIN rec /\ rec[n].day \in Days
    BY Fields DEF Fsync, IInv, CallOK
  <1>2. /\ UNCHANGED <<file, rec, acked>> /\ at[p].pc = "fsync"
        /\ at'[p].pc = "chmod" /\ at'[p].call = n
        /\ \A q \in Procs : q # p => at'[q] = at[q]
    BY <1>1 DEF Fsync, told, IInv, TypeOK
  <1>3. Places' = Places /\ \A q : Held(q)' = Held(q)
    BY <1>2 DEF Places, Held
  <1>4. \A q \in Places : /\ q[2] \in Nat /\ synced[q[1]] \in Nat /\ synced'[q[1]] \in Nat
                          /\ synced[q[1]] <= synced'[q[1]]
                          /\ q[1] = rec[n].day => q[2] <= synced'[q[1]]
    BY <1>1 DEF Fsync, IInv, TypeOK, Places
  <1>5. \A m : Owed(m)' => Owed(m)
    BY <1>1, <1>2 DEF Owed
  <1>6. ASSUME NEW q \in Procs PROVE Once(q)'
    <2>1. CASE q = p
      BY <1>1, <1>2, <1>3, <1>4, <2>1 DEF KeptInv, Once
    <2>2. CASE q # p
      BY <1>2, <1>3, <1>4, <2>2 DEF KeptInv, Once
    <2>3. QED
      BY <2>1, <2>2
  <1>7. \A q \in Places : q[2] > synced'[q[1]] => Held(q) \notin acked
    BY <1>4 DEF KeptInv
  <1>8. QED
    BY <1>1, <1>2, <1>3, <1>5, <1>6, <1>7 DEF KeptInv

\* A power cut: what it tears lies beyond what is kept, so nobody was told.
LEMMA KeptCut ==
  ASSUME IInv, KeptInv, PowerCut
  PROVE  KeptInv'
  <1>1. /\ UNCHANGED <<rec, acked>> /\ \A q \in Procs : at'[q] = Idle
        /\ synced' = [d \in Days |-> Len(file'[d])]
        /\ \A d \in Days : file'[d] \in Remains(file[d], synced[d])
    BY DEF PowerCut, told
  <1>2. ASSUME NEW q \in Places'
        PROVE  /\ q \in Places /\ Held(q)' = Held(q)
               /\ q[2] <= synced'[q[1]]
               /\ q[2] > synced[q[1]] \/ file'[q[1]][q[2]] = file[q[1]][q[2]]
    <2>1. q = <<q[1], q[2]>> /\ q[1] \in Days /\ q[2] \in DOMAIN file'[q[1]]
      BY <1>2 DEF Places
    <2>2. /\ file[q[1]] \in Seq(Writes) /\ synced[q[1]] \in Nat
          /\ synced[q[1]] <= Len(file[q[1]])
      BY <2>1 DEF IInv, TypeOK
    <2>3. q[2] \in DOMAIN file[q[1]] /\ file'[q[1]][q[2]].call = file[q[1]][q[2]].call
      BY <1>1, <2>1, <2>2, RemainsFrom
    <2>4. /\ file'[q[1]] \in Seq(Writes)
          /\ q[2] <= synced[q[1]] => file'[q[1]][q[2]] = file[q[1]][q[2]]
      BY <1>1, <2>1, <2>2, <2>3, RemainsKeeps
    <2>5. q[2] \in Nat /\ q[2] <= synced'[q[1]]
      BY <1>1, <2>1, <2>4
    <2>6. QED
      BY <2>1, <2>2, <2>3, <2>4, <2>5 DEF Places, Held
  <1>3. \A m : Owed(m)' <=> m \in acked
    BY <1>1 DEF Owed, Idle
  <1>4. \A q \in Places' : Owed(Held(q))' =>
           file'[q[1]][q[2]].part = "whole" \/ file'[q[1]][q[2]].short
    BY <1>2, <1>3 DEF KeptInv, Owed
  <1>5. \A q \in Places' : ~(q[2] > synced'[q[1]])
    <2> SUFFICES ASSUME NEW q \in Places' PROVE ~(q[2] > synced'[q[1]])
      OBVIOUS
    <2>1. q[1] \in Days /\ q[2] \in DOMAIN file'[q[1]]
      BY DEF Places
    <2>2. file'[q[1]] \in Seq(Writes)
      BY <1>1, <2>1, RemainsKeeps DEF IInv, TypeOK
    <2>3. QED
      BY <1>1, <2>1, <2>2
  <1>6. \A q \in Procs : Once(q)'
    BY <1>1 DEF Once, Idle
  <1>7. QED
    BY <1>1, <1>4, <1>5, <1>6 DEF KeptInv, Idle

\* Every step keeps it.
LEMMA KeptStep == IInv /\ KeptInv /\ [Next]_vars => KeptInv'
  <1> SUFFICES ASSUME IInv, KeptInv, [Next]_vars PROVE KeptInv'
    OBVIOUS
  <1>1. ASSUME NEW p \in Procs, \/ Start(p) \/ Degrade(p) \/ OpenFails(p)
                               \/ FsyncRaises(p) \/ Stop(p)
        PROVE  KeptInv'
    <2>1. /\ UNCHANGED <<file, synced, rec, acked>>
          /\ at' = at \/ at' = [at EXCEPT ![p] = Idle]
      BY <1>1 DEF Start, Degrade, OpenFails, FsyncRaises, Stop, Raises, disk, told
    <2>2. \A q \in Procs : at'[q] = at[q] \/ at'[q] = Idle
      BY <2>1 DEF IInv, TypeOK
    <2>3. QED
      BY <2>1, <2>2, KeptQuiet
  <1>2. CASE NextDay \/ UNCHANGED vars
    BY <1>2, KeptQuiet DEF NextDay, vars, disk, told, procs
  <1>3. QED
    BY <1>1, <1>2, KeptBuild, KeptAnswer, KeptWrite, KeptFsync, KeptCut DEF Next

\* An answered record has a place.  It is whole there unless its own write was
\* short, and what is before it on its line was short or never answered.
LEMMA KeptIsReadable == IInv /\ KeptInv => AckedOnDisk
  <1> SUFFICES ASSUME IInv, KeptInv, NEW n \in acked \ aside
               PROVE  \E p \in Places :
                         /\ Held(p) = n
                         /\ Parses(p) \/ file[p[1]][p[2]].short \/ Spoilt(p)
    BY DEF AckedOnDisk
  <1>0. PICK d \in Days : OnDisk(n, d)
    BY DEF IInv
  <1>1. PICK i \in DOMAIN file[d] : file[d][i].call = n
    BY <1>0 DEF OnDisk
  <1>2. PICK p : p = <<d, i>>
    OBVIOUS
  <1>3. p[1] = d /\ p[2] = i /\ p \in Places /\ Held(p) = n
    BY <1>1, <1>2 DEF Places, Held
  <1>4. file[d][i].part = "whole" \/ file[d][i].short
    BY <1>3 DEF KeptInv, Owed
  <1>5. CASE i > 1 /\ file[d][i - 1].part # "whole"
    <2>1. PICK b : b = <<d, i - 1>>
      OBVIOUS
    <2>2. i - 1 \in DOMAIN file[d]
      BY <1>1, <1>5 DEF IInv, TypeOK
    <2>3. b[1] = d /\ b[2] = i - 1 /\ b \in Places /\ Held(b) = file[d][i - 1].call
      BY <2>1, <2>2 DEF Places, Held
    <2>4. file[d][i - 1].short \/ file[d][i - 1].call \notin acked
      BY <1>5, <2>3 DEF KeptInv, Owed
    <2>5. QED
      BY <1>3, <1>5, <2>4 DEF Spoilt
  <1>6. CASE ~(i > 1 /\ file[d][i - 1].part # "whole")
    BY <1>3, <1>4, <1>6 DEF Parses
  <1>7. QED
    BY <1>5, <1>6

\* JsonlFileSink.append: a record the caller was told of can be read from its
\* file after any number of stops, power cuts and fsyncs that raise, unless its
\* own write was short or the line was begun by one that was short or unanswered.
THEOREM AckedSurvives == Spec => []AckedOnDisk
  <1>1. Init => KeptInv
    BY DEF Init, KeptInv, Places, Once, Idle
  <1>2. QED
    BY <1>1, Invariant, KeptStep, KeptIsReadable, PTL DEF Spec

-------------------------------------------------------------------------------
(* One process, and nothing raised: the chain, and its numbers.            *)

\* What IntactWhenAlone and SeqReused ask for, but for whole writes.
Alone == ~shared /\ spent["raised"] = 0 /\ ~CutAcrossDays

Whole(p) == file[p[1]][p[2]].part = "whole"
AllWhole == \A p \in Places : Whole(p)
WholeUpTo(q) == \A p \in Places : ~Before(q, p) => Whole(p)
LastPlace(l) == l \in Places /\ \A q \in Places : ~Before(l, q)
JustBefore(p, q) ==
    p \in Places /\ Before(p, q) /\ \A o \in Places : Before(o, q) => ~Before(p, o)
SeqAt(p) == rec[Held(p)].seq

\* A write with only whole ones up to it continues the one just before it.
Chained ==
    \A q \in Places : WholeUpTo(q) =>
        \/ /\ \A p \in Places : ~Before(p, q)
           /\ SeqAt(q) = 1 /\ rec[Held(q)].prev = 0
        \/ \E p \in Places : /\ JustBefore(p, q)
                             /\ SeqAt(q) = SeqAt(p) + 1 /\ rec[Held(q)].prev = Held(p)

\* Whatever comes after a line that parses has a higher number.
Increasing == \A p, q \in Places : Before(p, q) /\ Parses(p) => SeqAt(p) < SeqAt(q)

\* h is what the last write of all has left, or the genesis.
IsHead(h) ==
    \/ Places = {} /\ h = Genesis
    \/ \E l \in Places : LastPlace(l) /\ h = [seq |-> SeqAt(l), last |-> Held(l)]

OneFile == \A p, q \in Procs : sink[p] = "file" /\ sink[q] = "file" => p = q

\* Where the process on the directory stands: what it goes on from is the end of
\* the trail, and no line that parses is numbered above it.
Standing(p) ==
    LET c == at[p].call IN
    /\ sink[p] = "none" => at[p].pc = "idle"
    /\ at[p].pc \in {"fsync", "chmod"} => sink[p] = "file"
    /\ sink[p] = "file" /\ at[p].pc \in {"idle", "append"} =>
          /\ AllWhole => IsHead(head[p])
          /\ \A q \in Readable : SeqAt(q) <= head[p].seq
    /\ sink[p] = "file" /\ at[p].pc = "append" =>
          rec[c].seq = head[p].seq + 1 /\ rec[c].prev = head[p].last
    /\ sink[p] = "file" /\ at[p].pc \in {"fsync", "chmod"} =>
          /\ \E l \in Places : LastPlace(l) /\ Held(l) = c
          /\ \A q \in Readable : SeqAt(q) <= rec[c].seq
    /\ sink[p] = "file" /\ at[p].pc # "idle" =>
          rec[c].day <= today /\ \A q \in Places : q[1] <= rec[c].day

\* What no fsync has reached is the last write of all, which waits for its own: as
\* long as no process was ended between the two.
Flushed ==
    spent["stops"] = 0 =>
        \A q \in Places : q[2] > synced[q[1]] =>
            /\ LastPlace(q)
            /\ \E p \in Procs : at[p].pc = "fsync" /\ rec[at[p].call].day = q[1]

FilesInv == (\A q \in Places : q[1] <= today) /\ Chained /\ Increasing

AloneInv == OneFile /\ FilesInv /\ Flushed /\ \A p \in Procs : Standing(p)

-------------------------------------------------------------------------------
(* Places.                                                                 *)

LEMMA PlaceIs ==
  ASSUME IInv, NEW q
  PROVE  /\ q \in Places <=> q = <<q[1], q[2]>> /\ q[1] \in Days /\ q[2] \in DOMAIN file[q[1]]
         /\ q \in Places => /\ q[1] \in Nat /\ q[2] \in Nat /\ q[2] >= 1
                            /\ q[2] <= Len(file[q[1]])
                            /\ Held(q) \in DOMAIN rec /\ Held(q) \in Nat /\ SeqAt(q) \in Nat
  <1>1. q \in Places <=> q = <<q[1], q[2]>> /\ q[1] \in Days /\ q[2] \in DOMAIN file[q[1]]
    BY DEF Places
  <1>2. ASSUME q \in Places
        PROVE  /\ q[1] \in Nat /\ q[2] \in Nat /\ q[2] >= 1 /\ q[2] <= Len(file[q[1]])
               /\ Held(q) \in DOMAIN rec /\ Held(q) \in Nat /\ SeqAt(q) \in Nat
    <2>1. q[1] \in Days /\ q[2] \in DOMAIN file[q[1]] /\ file[q[1]] \in Seq(Writes)
      BY <1>1, <1>2 DEF IInv, TypeOK
    <2>2. q[1] \in Nat /\ q[2] \in Nat /\ q[2] >= 1 /\ q[2] <= Len(file[q[1]])
      BY <2>1, LocalAssumption DEF Days
    <2>3. Held(q) \in DOMAIN rec
      BY <2>1 DEF IInv, Held
    <2>4. rec \in Seq(Records) /\ rec[Held(q)] \in Records /\ Held(q) \in Nat
      BY <2>3 DEF IInv, TypeOK
    <2>5. QED
      BY <2>2, <2>3, <2>4 DEF Records, SeqAt
  <1>3. QED
    BY <1>1, <1>2

\* Places are in one line.
LEMMA InLine ==
  ASSUME IInv, NEW p \in Places, NEW q \in Places
  PROVE  /\ p = q \/ Before(p, q) \/ Before(q, p)
         /\ Before(p, q) => p # q /\ ~Before(q, p)
  <1>1. p = <<p[1], p[2]>> /\ q = <<q[1], q[2]>> /\ {p[1], p[2], q[1], q[2]} \subseteq Nat
    BY PlaceIs
  <1>2. QED
    BY <1>1 DEF Before

\* Nothing of this changes with the records to come.
LEMMA SameFiles ==
  ASSUME IInv, UNCHANGED file, \A n \in DOMAIN rec : rec'[n] = rec[n]
  PROVE  /\ Places' = Places /\ Readable' = Readable /\ AllWhole' = AllWhole
         /\ \A q \in Places : Held(q)' = Held(q) /\ SeqAt(q)' = SeqAt(q)
         /\ \A l : LastPlace(l)' <=> LastPlace(l)
         /\ \A h : IsHead(h) => IsHead(h)'
         /\ Chained => Chained'
         /\ Increasing => Increasing'
  <1>1. /\ Places' = Places /\ \A q : (Parses(q)' <=> Parses(q)) /\ (Whole(q)' <=> Whole(q))
        /\ \A q : Held(q)' = Held(q)
    BY DEF Places, Parses, Whole, Held
  <1>2. Readable' = Readable /\ AllWhole' = AllWhole /\ \A q : WholeUpTo(q)' <=> WholeUpTo(q)
    BY <1>1 DEF Readable, AllWhole, WholeUpTo
  <1>3. \A q \in Places : rec'[Held(q)] = rec[Held(q)] /\ SeqAt(q)' = SeqAt(q)
    BY <1>1, PlaceIs DEF SeqAt
  <1>4. \A l : LastPlace(l)' <=> LastPlace(l)
    BY <1>1 DEF LastPlace
  <1>5. \A h : IsHead(h) => IsHead(h)'
    BY <1>1, <1>3, <1>4 DEF IsHead
  <1>6. \A p, q : JustBefore(p, q)' <=> JustBefore(p, q)
    BY <1>1 DEF JustBefore
  <1>7. Chained => Chained'
    BY <1>1, <1>2, <1>3, <1>6 DEF Chained
  <1>8. Increasing => Increasing'
    BY <1>1, <1>3 DEF Increasing
  <1>9. QED
    BY <1>1, <1>2, <1>3, <1>4, <1>5, <1>7, <1>8

\* A process other than p, which did not move.
LEMMA OthersStand ==
  ASSUME IInv, AloneInv, UNCHANGED file, \A n \in DOMAIN rec : rec'[n] = rec[n],
         today' >= today, today' \in Nat,
         NEW q \in Procs, at'[q] = at[q], sink'[q] = sink[q], head'[q] = head[q]
  PROVE  Standing(q)'
  <1>1. /\ Standing(q) /\ CallOK(q) /\ today \in Nat
        /\ at[q].pc # "idle" => rec'[at[q].call] = rec[at[q].call] /\ rec[at[q].call].day \in Nat
    <2>1. \A d \in Days : d \in Nat
      BY LocalAssumption DEF Days
    <2>2. today \in Days /\ Standing(q) /\ CallOK(q)
      BY DEF AloneInv, IInv, TypeOK
    <2>3. at[q].pc # "idle" => at[q].call \in DOMAIN rec
      BY <2>2 DEF CallOK
    <2>4. \A n \in DOMAIN rec : rec[n].day \in Days
      BY Fields
    <2>5. QED
      BY <2>1, <2>2, <2>3, <2>4
  <1>2. PICK h : h = head[q]
    OBVIOUS
  <1>3. AllWhole => (IsHead(h) => IsHead(h)')
    BY SameFiles
  <1>4. (AllWhole => IsHead(h)) => (AllWhole' => IsHead(head[q])')
    BY <1>2, <1>3, SameFiles DEF IsHead
  <1>5. QED
    BY <1>1, <1>2, <1>4, SameFiles DEF Standing, Readable

-------------------------------------------------------------------------------
(* Every step.                                                             *)

\* What was not so before a step is not so after it.
LEMMA AloneBefore ==
  ASSUME IInv, [Next]_vars, Alone'
  PROVE  Alone /\ today' >= today /\ today' \in Nat
  <1>1. today \in Nat /\ today >= 1 /\ \A c \in Counters : spent[c] \in Nat
    BY LocalAssumption DEF IInv, TypeOK, Days
  <1>2. (shared => shared') /\ today' \in {today, today + 1}
    <2>1. ASSUME NEW p \in Procs, Start(p)
          PROVE  shared' = (shared \/ \E q \in Procs : sink[q] = "file") /\ today' = today
      BY <2>1 DEF Start
    <2>2. ASSUME NEW p \in Procs,
                 \/ Degrade(p) \/ Build(p) \/ Logs(p) \/ OpenFails(p) \/ Write(p)
                 \/ Fsync(p) \/ FsyncRaises(p) \/ Returns(p) \/ Stop(p)
          PROVE  shared' = shared /\ today' = today
      BY <2>2 DEF Degrade, Build, Logs, OpenFails, Write, Fsync, FsyncRaises, Returns, Stop
    <2>3. CASE PowerCut \/ NextDay \/ UNCHANGED vars
      BY <2>3 DEF PowerCut, NextDay, vars
    <2>4. QED
      BY <2>1, <2>2, <2>3 DEF Next
  <1>3. \/ spent' = spent
        \/ \E c \in Counters : spent' = [spent EXCEPT ![c] = @ + 1]
    BY DEF Next, Start, Degrade, Build, Logs, OpenFails, Write, Fsync, FsyncRaises, Returns, Stop,
           PowerCut, NextDay, vars, Spend, Counters
  <1>4. \A c \in Counters : spent'[c] \in Nat /\ spent'[c] >= spent[c]
    <2>1. CASE spent' = spent
      BY <1>1, <2>1
    <2>2. ASSUME NEW c \in Counters, spent' = [spent EXCEPT ![c] = @ + 1]
          PROVE  \A b \in Counters : spent'[b] \in Nat /\ spent'[b] >= spent[b]
      <3>1. spent \in [Counters -> Nat]
        BY DEF IInv, TypeOK
      <3>2. QED
        BY <1>1, <2>2, <3>1
    <2>3. QED
      BY <1>3, <2>1, <2>2
  <1>5. {"raised", "cuts", "stops"} \subseteq Counters
    BY DEF Counters
  <1>6. QED
    BY <1>1, <1>2, <1>4, <1>5 DEF Alone, CutAcrossDays

\* A step that leaves the files, and all but one process, as they are.
LEMMA QuietStep ==
  ASSUME IInv, AloneInv, NEW p \in Procs,
         UNCHANGED <<file, synced, today>>, \A n \in DOMAIN rec : rec'[n] = rec[n],
         \A q \in Procs : q # p => at'[q] = at[q] /\ sink'[q] = sink[q] /\ head'[q] = head[q],
         sink'[p] = "file" => \A q \in Procs : sink[q] = "file" => q = p,
         spent'["stops"] = 0 => spent["stops"] = 0 /\ at[p].pc # "fsync",
         Standing(p)'
  PROVE  AloneInv'
  <1>1. OneFile'
    BY DEF OneFile, AloneInv
  <1>2. FilesInv'
    BY SameFiles DEF FilesInv, AloneInv
  <1>3. today' >= today /\ today' \in Nat
    BY LocalAssumption DEF IInv, TypeOK, Days
  <1>4. \A q \in Procs : Standing(q)'
    BY <1>3, OthersStand
  <1>5. Flushed'
    <2>1. SUFFICES ASSUME spent'["stops"] = 0, NEW q \in Places, q[2] > synced[q[1]]
                   PROVE  /\ LastPlace(q)
                          /\ \E r \in Procs : at'[r].pc = "fsync" /\ rec'[at'[r].call].day = q[1]
      BY SameFiles DEF Flushed
    <2>2. PICK r \in Procs : at[r].pc = "fsync" /\ rec[at[r].call].day = q[1]
      BY <2>1 DEF AloneInv, Flushed
    <2>3. r # p /\ at[r].call \in DOMAIN rec
      BY <2>1, <2>2 DEF IInv, CallOK
    <2>4. QED
      BY <2>1, <2>2, <2>3 DEF AloneInv, Flushed
  <1>6. QED
    BY <1>1, <1>2, <1>4, <1>5 DEF AloneInv

\* build_sink and AuditTrail.__init__: the last line that parses.
LEMMA StartStands ==
  ASSUME IInv, AloneInv, NEW p \in Procs, Start(p), Alone'
  PROVE  AloneInv'
  <1>1. /\ UNCHANGED <<file, synced, today, at, rec, spent>>
        /\ sink[p] = "none" /\ sink' = [sink EXCEPT ![p] = "file"]
        /\ \A q \in Procs : sink[q] # "file"
    BY DEF Start, disk, Alone
  <1>2. PICK h : head' = [head EXCEPT ![p] = h]
    BY DEF Start
  <1>3. /\ sink'[p] = "file" /\ head'[p] = h
        /\ \A q \in Procs : q # p => sink'[q] = sink[q] /\ head'[q] = head[q]
    BY <1>1, <1>2 DEF IInv, TypeOK
  <1>4. at[p].pc = "idle"
    BY <1>1 DEF AloneInv, Standing
  <1>5. \/ Readable = {} /\ h = Genesis
        \/ \E l \in Readable : IsLast(l) /\ h = [seq |-> SeqAt(l), last |-> Held(l)]
    BY <1>2, <1>3 DEF Start, IInv, TypeOK, SeqAt
  <1>6. AllWhole => Readable = Places
    <2>1. SUFFICES ASSUME AllWhole, NEW q \in Places PROVE Parses(q)
      BY DEF Readable
    <2>2. q = <<q[1], q[2]>> /\ q[1] \in Days /\ q[2] \in DOMAIN file[q[1]]
      BY PlaceIs
    <2>3. \A i \in DOMAIN file[q[1]] : file[q[1]][i].part = "whole"
      <3>1. \A i \in DOMAIN file[q[1]] : <<q[1], i>> \in Places
        BY <2>2 DEF Places
      <3>2. QED
        BY <2>1, <3>1 DEF AllWhole, Whole
    <2>4. file[q[1]] \in Seq(Writes)
      BY <2>2 DEF IInv, TypeOK
    <2>5. QED
      BY <2>2, <2>3, <2>4 DEF Parses
  <1>7. AllWhole => IsHead(h)
    BY <1>5, <1>6 DEF IsHead, LastPlace, IsLast
  <1>8. \A q \in Readable : SeqAt(q) <= h.seq
    <2>1. CASE Readable = {}
      BY <2>1
    <2>2. ASSUME NEW l \in Readable, IsLast(l), h = [seq |-> SeqAt(l), last |-> Held(l)],
                 NEW q \in Readable
          PROVE  SeqAt(q) <= h.seq
      <3>1. q \in Places /\ l \in Places /\ Parses(q) /\ h.seq = SeqAt(l)
        BY <2>2 DEF Readable
      <3>2. SeqAt(q) \in Nat /\ SeqAt(l) \in Nat
        BY <3>1, PlaceIs
      <3>3. q = l \/ Before(q, l)
        BY <2>2, <3>1, InLine DEF IsLast
      <3>4. QED
        BY <3>1, <3>2, <3>3 DEF AloneInv, FilesInv, Increasing
    <2>3. QED
      BY <1>5, <2>1, <2>2
  <1>9. Standing(p)'
    <2>1. AllWhole' => IsHead(head[p])'
      <3>1. AllWhole' => IsHead(h)'
        BY <1>1, <1>7, SameFiles
      <3>2. QED
        BY <1>3, <3>1 DEF IsHead
    <2>2. \A q \in Readable' : SeqAt(q)' <= head'[p].seq
      BY <1>1, <1>3, <1>8, SameFiles DEF Readable
    <2>3. QED
      BY <1>1, <1>3, <1>4, <2>1, <2>2 DEF Standing
  <1>10. QED
    BY <1>1, <1>3, <1>4, <1>9, QuietStep

\* Steps of a process on stderr, and its end.
LEMMA AsideStands ==
  ASSUME IInv, AloneInv, NEW p \in Procs, Degrade(p) \/ Logs(p) \/ Stop(p)
  PROVE  AloneInv'
  <1>1. /\ UNCHANGED <<file, synced, today, rec>>
        /\ \A q \in Procs : q # p => at'[q] = at[q] /\ sink'[q] = sink[q] /\ head'[q] = head[q]
    BY DEF Degrade, Logs, Accepts, Stop, disk, IInv, TypeOK
  <1>2. at'[p].pc = "idle" /\ sink'[p] # "file"
    BY DEF Degrade, Logs, Accepts, Stop, Idle, IInv, TypeOK, AloneInv, Standing
  <1>3. spent'["stops"] = 0 => spent["stops"] = 0 /\ at[p].pc # "fsync"
    <2>1. CASE Degrade(p) \/ Logs(p)
      BY <2>1 DEF Degrade, Logs, AloneInv, Standing
    <2>2. CASE Stop(p)
      BY <2>2 DEF Stop, Spend, Counters, IInv, TypeOK
    <2>3. QED
      BY <2>1, <2>2
  <1>4. QED
    BY <1>1, <1>2, <1>3, QuietStep DEF Standing

LEMMA BuildStands ==
  ASSUME IInv, AloneInv, NEW p \in Procs, Build(p)
  PROVE  AloneInv'
  <1> DEFINE n == Len(rec) + 1
  <1>1. /\ UNCHANGED <<file, synced, today, sink, head, spent>>
        /\ at[p].pc = "idle"
        /\ rec' = Append(rec, [seq |-> head[p].seq + 1, prev |-> head[p].last, day |-> today])
        /\ at' = [at EXCEPT ![p] = [pc |-> "append", call |-> n]]
    BY DEF Build, disk
  <1>2. rec \in Seq(Records)
    BY DEF IInv, TypeOK
  <1>3. /\ \A m \in DOMAIN rec : rec'[m] = rec[m]
        /\ rec'[n] = [seq |-> head[p].seq + 1, prev |-> head[p].last, day |-> today]
    <2>1. [seq |-> head[p].seq + 1, prev |-> head[p].last, day |-> today] \in Records
      BY Fields DEF IInv, TypeOK, Records
    <2>2. QED
      BY <1>1, <1>2, <2>1
  <1>4. /\ at'[p].pc = "append" /\ at'[p].call = n
        /\ \A q \in Procs : q # p => at'[q] = at[q]
    BY <1>1 DEF IInv, TypeOK
  <1>5. Standing(p)'
    <2>1. PICK h : h = head[p]
      OBVIOUS
    <2>2. sink[p] = "file" => /\ AllWhole => IsHead(h)
                              /\ \A q \in Readable : SeqAt(q) <= h.seq
      BY <1>1, <2>1 DEF AloneInv, Standing
    <2>3. sink[p] = "file" => /\ AllWhole' => IsHead(h)'
                              /\ \A q \in Readable' : SeqAt(q)' <= h.seq
      BY <1>1, <1>3, <2>2, SameFiles DEF Readable
    <2>4. sink[p] = "file" => (AllWhole' => IsHead(head[p])')
      BY <1>1, <2>1, <2>3 DEF IsHead
    <2>5. sink[p] # "none"
      BY DEF Build
    <2>6. \A q \in Places' : q[1] <= today
      BY <1>1, <1>3, SameFiles DEF AloneInv, FilesInv
    <2>7. rec'[n].seq = head[p].seq + 1 /\ rec'[n].prev = head[p].last /\ rec'[n].day = today
      BY <1>3
    <2>8. today <= today
      BY LocalAssumption DEF IInv, TypeOK, Days
    <2>9. QED
      BY <1>1, <1>4, <2>1, <2>3, <2>4, <2>5, <2>6, <2>7, <2>8 DEF Standing
  <1>6. QED
    BY <1>1, <1>3, <1>4, <1>5, QuietStep DEF AloneInv, OneFile

LEMMA OpenFailsStands ==
  ASSUME IInv, AloneInv, NEW p \in Procs, OpenFails(p)
  PROVE  AloneInv'
  <1>1. /\ UNCHANGED <<file, synced, today, sink, head, rec, spent>>
        /\ at[p].pc = "append" /\ sink[p] = "file"
        /\ at'[p].pc = "idle" /\ \A q \in Procs : q # p => at'[q] = at[q]
    BY DEF OpenFails, Raises, disk, Idle, IInv, TypeOK
  <1>2. Standing(p)'
    <2>1. PICK h : h = head[p]
      OBVIOUS
    <2>2. /\ AllWhole => IsHead(h)
          /\ \A q \in Readable : SeqAt(q) <= h.seq
      BY <1>1, <2>1 DEF AloneInv, Standing
    <2>3. /\ AllWhole' => IsHead(h)'
          /\ \A q \in Readable' : SeqAt(q)' <= h.seq
      BY <1>1, <2>2, SameFiles DEF Readable
    <2>4. AllWhole' => IsHead(head[p])'
      BY <1>1, <2>1, <2>3 DEF IsHead
    <2>5. QED
      BY <1>1, <2>1, <2>3, <2>4 DEF Standing
  <1>3. QED
    BY <1>1, <1>2, QuietStep DEF AloneInv, OneFile

LEMMA ReturnsStands ==
  ASSUME IInv, AloneInv, NEW p \in Procs, Returns(p)
  PROVE  AloneInv'
  <1> DEFINE c == at[p].call
  <1>1. /\ UNCHANGED <<file, synced, today, sink, rec, spent>>
        /\ at[p].pc = "chmod" /\ sink[p] = "file"
        /\ at'[p].pc = "idle" /\ head'[p] = [seq |-> rec[c].seq, last |-> c]
        /\ \A q \in Procs : q # p => at'[q] = at[q] /\ head'[q] = head[q]
    BY DEF Returns, Accepts, disk, Idle, IInv, TypeOK, AloneInv, Standing
  <1>2. Standing(p)'
    <2>1. PICK h : h = [seq |-> rec[c].seq, last |-> c]
      OBVIOUS
    <2>2. /\ \E l \in Places : LastPlace(l) /\ Held(l) = c
          /\ \A q \in Readable : SeqAt(q) <= rec[c].seq
      BY <1>1 DEF AloneInv, Standing
    <2>3. IsHead(h) /\ \A q \in Readable : SeqAt(q) <= h.seq
      BY <2>1, <2>2 DEF IsHead, SeqAt
    <2>4. /\ IsHead(h)'
          /\ \A q \in Readable' : SeqAt(q)' <= h.seq
      BY <1>1, <2>3, SameFiles DEF Readable
    <2>5. IsHead(head[p])'
      BY <1>1, <2>1, <2>4 DEF IsHead
    <2>6. QED
      BY <1>1, <2>1, <2>4, <2>5 DEF Standing
  <1>3. QED
    BY <1>1, <1>2, QuietStep DEF AloneInv, OneFile

LEMMA FsyncStands ==
  ASSUME IInv, AloneInv, NEW p \in Procs, Fsync(p)
  PROVE  AloneInv'
  <1> DEFINE n == at[p].call
             d == rec[n].day
  <1>1. /\ UNCHANGED <<file, today, sink, head, rec, spent>>
        /\ at[p].pc = "fsync" /\ sink[p] = "file"
        /\ at'[p].pc = "chmod" /\ at'[p].call = n
        /\ \A q \in Procs : q # p => at'[q] = at[q]
        /\ \A e \in Days : synced'[e] = IF e = d THEN Len(file[d]) ELSE synced[e]
    BY DEF Fsync, IInv, TypeOK, AloneInv, Standing
  <1>2. today' >= today /\ today' \in Nat
    BY <1>1, LocalAssumption DEF IInv, TypeOK, Days
  <1>3. Standing(p)'
    <2>1. /\ \E l \in Places : LastPlace(l) /\ Held(l) = n
          /\ \A q \in Readable : SeqAt(q) <= rec[n].seq
          /\ rec[n].day <= today /\ \A q \in Places : q[1] <= rec[n].day
      BY <1>1 DEF AloneInv, Standing
    <2>2. QED
      BY <1>1, <2>1, SameFiles DEF Standing, Readable
  <1>4. \A q \in Procs : Standing(q)'
    BY <1>1, <1>2, <1>3, OthersStand
  <1>5. OneFile' /\ FilesInv'
    BY <1>1, SameFiles DEF AloneInv, OneFile, FilesInv
  <1>6. Flushed'
    <2>1. SUFFICES ASSUME spent["stops"] = 0, NEW q \in Places, q[2] > synced'[q[1]]
                   PROVE  FALSE
      BY <1>1, SameFiles DEF Flushed
    <2>2. q[1] \in Days /\ q[2] \in Nat /\ q[2] <= Len(file[q[1]]) /\ Len(file[q[1]]) \in Nat
      BY PlaceIs DEF IInv, TypeOK
    <2>3. q[1] # d /\ q[2] > synced[q[1]]
      BY <1>1, <2>1, <2>2
    <2>4. PICK r \in Procs : at[r].pc = "fsync" /\ rec[at[r].call].day = q[1]
      BY <2>1, <2>3 DEF AloneInv, Flushed
    <2>5. r = p
      BY <1>1, <2>4 DEF AloneInv, Standing, OneFile
    <2>6. QED
      BY <2>3, <2>4, <2>5
  <1>7. QED
    BY <1>4, <1>5, <1>6 DEF AloneInv

LEMMA NextDayStands ==
  ASSUME IInv, AloneInv, NextDay
  PROVE  AloneInv'
  <1>1. UNCHANGED <<file, synced, sink, head, at, rec, spent>> /\ today' = today + 1
    BY DEF NextDay, disk, procs
  <1>2. today \in Nat /\ today' >= today /\ today' \in Nat
    BY <1>1, LocalAssumption DEF IInv, TypeOK, Days
  <1>3. \A q \in Procs : Standing(q)'
    BY <1>1, <1>2, OthersStand
  <1>4. FilesInv'
    <2>1. \A q \in Places : q[1] <= today'
      <3>1. \A q \in Places : q[1] \in Nat /\ q[1] <= today
        BY PlaceIs DEF AloneInv, FilesInv
      <3>2. QED
        BY <1>2, <3>1
    <2>2. QED
      BY <1>1, <2>1, SameFiles DEF AloneInv, FilesInv
  <1>5. OneFile' /\ Flushed'
    BY <1>1, SameFiles DEF AloneInv, OneFile, Flushed
  <1>6. QED
    BY <1>3, <1>4, <1>5 DEF AloneInv

\* os.write, short or not: a new last place.
LEMMA WriteStands ==
  ASSUME IInv, AloneInv, NEW p \in Procs, Write(p)
  PROVE  AloneInv'
  <1>1. TypeOK /\ CallOK(p)
    BY DEF IInv
  <1>2. PICK n \in Calls : n = at[p].call /\ n \in DOMAIN rec
    BY <1>1, Fields DEF Write, CallOK
  <1>3. PICK d \in Days : d = rec[n].day
    BY <1>2, Fields
  <1>4. PICK w \in Writes : w.call = n /\ file' = [file EXCEPT ![d] = Append(@, w)]
    BY <1>2, <1>3, WriteAdds
  <1>5. PICK k \in Nat : k = Len(file[d]) + 1
    BY <1>1 DEF TypeOK
  <1>6. /\ file'[d] = Append(file[d], w) /\ file[d] \in Seq(Writes)
        /\ \A e \in Days : e # d => file'[e] = file[e]
    BY <1>1, <1>4 DEF TypeOK
  <1>7. PICK z : z = <<d, k>>
    OBVIOUS
  <1>8. z[1] = d /\ z[2] = k
    BY <1>7
  <1>9. /\ UNCHANGED <<synced, today, sink, head, rec>>
        /\ sink[p] = "file" /\ at[p].pc = "append"
        /\ at'[p].pc = "fsync" /\ at'[p].call = n
        /\ \A q \in Procs : q # p => at'[q] = at[q]
        /\ spent'["stops"] = spent["stops"]
    BY <1>1, <1>2 DEF Write, Spend, Counters, TypeOK
  <1>10. /\ \A q \in Places : q[1] <= d
         /\ AllWhole => IsHead(head[p])
         /\ \A q \in Readable : SeqAt(q) <= head[p].seq
         /\ rec[n].seq = head[p].seq + 1 /\ rec[n].prev = head[p].last /\ d <= today
    BY <1>2, <1>3, <1>9 DEF AloneInv, Standing
  <1>11. /\ Places' = Places \cup {z}
         /\ Held(z)' = n
    <2>1. /\ file'[d][k] = w
          /\ DOMAIN file'[d] = DOMAIN file[d] \cup {k}
      BY <1>5, <1>6
    <2>2. \A e \in Days : e # d => DOMAIN file'[e] = DOMAIN file[e]
      BY <1>6
    <2>3. Places' = Places \cup {z}
      BY <1>7, <2>1, <2>2 DEF Places
    <2>4. QED
      BY <1>4, <1>8, <2>1, <2>3 DEF Held
  <1>12. ASSUME NEW q \in Places
         PROVE  /\ Before(q, z) /\ ~Before(z, q) /\ q # z /\ file'[q[1]][q[2]] = file[q[1]][q[2]]
                /\ Held(q)' = Held(q) /\ SeqAt(q)' = SeqAt(q) /\ (Whole(q)' <=> Whole(q))
                /\ Parses(q)' => Parses(q)
    <2>1. /\ q = <<q[1], q[2]>> /\ q[1] \in Days /\ q[2] \in DOMAIN file[q[1]]
          /\ q[1] \in Nat /\ q[2] \in Nat /\ q[2] >= 1 /\ q[2] <= Len(file[q[1]])
      BY PlaceIs
    <2>2. d \in Nat
      BY LocalAssumption DEF Days
    <2>3. Before(q, z) /\ ~Before(z, q) /\ q # z
      BY <1>5, <1>10, <1>8, <2>1, <2>2 DEF Before
    <2>4. /\ Len(file'[q[1]]) >= Len(file[q[1]])
          /\ Len(file'[q[1]]) \in Nat /\ Len(file[q[1]]) \in Nat
          /\ \A i \in DOMAIN file[q[1]] : file'[q[1]][i] = file[q[1]][i]
      <3>1. CASE q[1] = d
        BY <1>6, <3>1
      <3>2. CASE q[1] # d
        BY <1>1, <1>6, <2>1, <3>2 DEF TypeOK
      <3>3. QED
        BY <3>1, <3>2
    <2>5. file[q[1]] \in Seq(Writes)
      BY <1>1, <2>1 DEF TypeOK
    <2>6. Held(q)' = Held(q) /\ SeqAt(q)' = SeqAt(q) /\ (Whole(q)' <=> Whole(q))
      BY <1>9, <2>1, <2>4 DEF Held, SeqAt, Whole
    <2>7. Parses(q)' => Parses(q)
      BY <2>1, <2>4, <2>5 DEF Parses
    <2>8. QED
      BY <2>1, <2>3, <2>4, <2>6, <2>7
  <1>13. SeqAt(z)' = rec[n].seq /\ ~Before(z, z)
    <2>1. ~Before(z, z)
      BY <1>8, LocalAssumption DEF Before, Days
    <2>2. QED
      BY <1>9, <1>11, <2>1 DEF SeqAt
  <1>14. head[p].seq \in Nat
    BY Fields
  <1>15. LastPlace(z)'
    BY <1>11, <1>12, <1>13 DEF LastPlace
  <1>16. Chained'
    <2>1. SUFFICES ASSUME NEW q \in Places', WholeUpTo(q)'
                   PROVE  \/ /\ \A o \in Places' : ~Before(o, q)
                             /\ SeqAt(q)' = 1 /\ rec[Held(q)'].prev = 0
                          \/ \E o \in Places' : /\ JustBefore(o, q)'
                                                /\ SeqAt(q)' = SeqAt(o)' + 1
                                                /\ rec[Held(q)'].prev = Held(o)'
      BY <1>9 DEF Chained
    <2>2. CASE q \in Places
      <3>1. WholeUpTo(q)
        BY <1>11, <1>12, <2>1, <2>2 DEF WholeUpTo
      <3>2. \A o \in Places : JustBefore(o, q) => JustBefore(o, q)'
        BY <1>11, <1>12, <2>2 DEF JustBefore
      <3>3. \/ /\ \A o \in Places : ~Before(o, q)
               /\ SeqAt(q) = 1 /\ rec[Held(q)].prev = 0
            \/ \E o \in Places : /\ JustBefore(o, q)
                                 /\ SeqAt(q) = SeqAt(o) + 1 /\ rec[Held(q)].prev = Held(o)
        BY <2>2, <3>1 DEF AloneInv, FilesInv, Chained
      <3>4. QED
        BY <1>11, <1>12, <2>2, <3>2, <3>3
    <2>3. CASE q = z
      <3>1. AllWhole
        BY <1>11, <1>12, <2>1, <2>3 DEF WholeUpTo, AllWhole
      <3>2. CASE Places = {} /\ head[p] = Genesis
        BY <1>10, <1>11, <1>13, <2>3, <3>2 DEF Genesis
      <3>3. ASSUME NEW l \in Places, LastPlace(l), head[p] = [seq |-> SeqAt(l), last |-> Held(l)]
            PROVE  /\ JustBefore(l, q)' /\ l \in Places'
                   /\ SeqAt(q)' = SeqAt(l)' + 1
                   /\ rec[Held(q)'].prev = Held(l)'
        <4>1. JustBefore(l, q)'
          BY <1>11, <1>12, <1>13, <2>3, <3>3 DEF JustBefore, LastPlace
        <4>2. QED
          BY <1>10, <1>11, <1>12, <1>13, <2>3, <3>3, <4>1
      <3>4. QED
        BY <1>10, <3>1, <3>2, <3>3 DEF IsHead
    <2>4. QED
      BY <1>11, <2>2, <2>3
  <1>17. Increasing'
    <2>1. SUFFICES ASSUME NEW o \in Places', NEW q \in Places', Before(o, q), Parses(o)'
                   PROVE  SeqAt(o)' < SeqAt(q)'
      BY DEF Increasing
    <2>2. o \in Places /\ Parses(o)
      BY <1>11, <1>12, <1>13, <2>1
    <2>3. CASE q \in Places
      BY <1>12, <2>1, <2>2, <2>3 DEF AloneInv, FilesInv, Increasing
    <2>4. CASE q = z
      <3>1. SeqAt(o) \in Nat /\ SeqAt(o) <= head[p].seq
        BY <1>10, <2>2, PlaceIs DEF Readable
      <3>2. QED
        BY <1>10, <1>12, <1>13, <1>14, <2>2, <2>4, <3>1
    <2>5. QED
      BY <1>11, <2>3, <2>4
  <1>18. Flushed'
    <2>1. SUFFICES ASSUME spent["stops"] = 0, NEW q \in Places', q[2] > synced[q[1]]
                   PROVE  /\ LastPlace(q)'
                          /\ \E r \in Procs : at'[r].pc = "fsync" /\ rec[at'[r].call].day = q[1]
      BY <1>9 DEF Flushed
    <2>2. CASE q \in Places
      <3>1. PICK r \in Procs : at[r].pc = "fsync"
        BY <2>1, <2>2 DEF AloneInv, Flushed
      <3>2. r = p
        BY <1>9, <3>1 DEF AloneInv, Standing, OneFile
      <3>3. QED
        BY <1>9, <3>1, <3>2
    <2>3. CASE q = z
      BY <1>3, <1>9, <1>15, <1>8, <2>3
    <2>4. QED
      BY <1>11, <2>2, <2>3
  <1>19. ASSUME NEW q \in Procs
         PROVE  Standing(q)'
    <2>1. CASE q # p
      BY <1>9, <2>1 DEF AloneInv, Standing, OneFile
    <2>2. CASE q = p
      <3>1. \A o \in Readable' : SeqAt(o)' <= rec[n].seq
        <4>1. SUFFICES ASSUME NEW o \in Places', Parses(o)' PROVE SeqAt(o)' <= rec[n].seq
          BY DEF Readable
        <4>2. CASE o = z
          BY <1>10, <1>13, <1>14, <4>2
        <4>3. CASE o \in Places
          <5>1. SeqAt(o) \in Nat /\ SeqAt(o) <= head[p].seq
            BY <1>10, <1>12, <4>1, <4>3, PlaceIs DEF Readable
          <5>2. QED
            BY <1>10, <1>12, <1>14, <4>3, <5>1
        <4>4. QED
          BY <1>11, <4>1, <4>2, <4>3
      <3>2. \A o \in Places' : o[1] <= d
        <4>1. d <= d
          BY LocalAssumption DEF Days
        <4>2. QED
          BY <1>10, <1>11, <1>8, <4>1
      <3>3. \E l \in Places' : LastPlace(l)' /\ Held(l)' = n
        BY <1>11, <1>15
      <3>4. rec'[n].day = d /\ rec'[n].seq = rec[n].seq
        BY <1>3, <1>9
      <3>5. QED
        BY <1>9, <1>10, <2>2, <3>1, <3>2, <3>3, <3>4 DEF Standing
    <2>3. QED
      BY <2>1, <2>2
  <1>20. \A q \in Places' : q[1] <= today'
    BY <1>9, <1>10, <1>11, <1>8 DEF AloneInv, FilesInv
  <1>21. OneFile'
    BY <1>9 DEF AloneInv, OneFile
  <1>22. QED
    BY <1>16, <1>17, <1>18, <1>19, <1>20, <1>21 DEF AloneInv, FilesInv

\* Of a write that is left, only the last one may be left in part.
LEMMA RemainsWhole ==
  ASSUME NEW f \in Seq(Writes), NEW k \in Nat, k <= Len(f), NEW g \in Remains(f, k)
  PROVE  /\ Len(g) \in Nat /\ Len(g) <= Len(f) /\ DOMAIN g = 1..Len(g)
         /\ \A i \in 1..Len(g) : i < Len(g) \/ g[i].part = "whole" => g[i] = f[i]
         /\ k = Len(f) => g = f
  <1>1. CASE \E n \in k..Len(f) : g = SubSeq(f, 1, n)
    <2>1. PICK n \in k..Len(f) : g = SubSeq(f, 1, n)
      BY <1>1
    <2>2. n \in Nat /\ Len(g) = n /\ \A i \in 1..n : g[i] = f[i]
      BY <2>1
    <2>3. QED
      BY <2>1, <2>2
  <1>2. CASE \E n \in k..(Len(f) - 1), part \in Parts \ {"whole"} :
                g = Append(SubSeq(f, 1, n), [f[n + 1] EXCEPT !.part = part])
    <2>1. PICK n \in k..(Len(f) - 1), part \in Parts \ {"whole"} :
             g = Append(SubSeq(f, 1, n), [f[n + 1] EXCEPT !.part = part])
      BY <1>2
    <2>2. PICK h : h = SubSeq(f, 1, n)
      OBVIOUS
    <2>3. h \in Seq(Writes) /\ Len(h) = n /\ n \in Nat /\ \A i \in 1..n : h[i] = f[i]
      BY <2>2
    <2>4. PICK w : w = [f[n + 1] EXCEPT !.part = part]
      OBVIOUS
    <2>5. w.part # "whole" /\ g = Append(h, w) /\ Len(f) \in Nat /\ n + 1 <= Len(f)
      BY <2>1, <2>2, <2>4
    <2>6. w \in Writes
      <3>1. f[n + 1] \in Writes
        BY <2>3, <2>5
      <3>2. QED
        BY <2>1, <2>4, <3>1 DEF Writes
    <2>7. Len(g) = n + 1 /\ g[n + 1] = w /\ \A i \in 1..n : g[i] = f[i]
      BY <2>3, <2>5, <2>6
    <2>8. DOMAIN g = 1..Len(g)
      BY <2>3, <2>5, <2>6
    <2>9. QED
      BY <2>3, <2>5, <2>7, <2>8
  <1>3. (\E n \in k..Len(f) : g = SubSeq(f, 1, n)) \/
        \E n \in k..(Len(f) - 1), part \in Parts \ {"whole"} :
            g = Append(SubSeq(f, 1, n), [f[n + 1] EXCEPT !.part = part])
    BY DEF Remains
  <1>4. QED
    BY <1>1, <1>2, <1>3

\* A power cut takes from the end: what comes before a write that is left stands.
LEMMA CutStands ==
  ASSUME IInv, AloneInv, PowerCut, Alone'
  PROVE  AloneInv'
  <1>1. /\ UNCHANGED <<today, rec>>
        /\ DOMAIN file' = Days
        /\ \A d \in Days : file'[d] \in Remains(file[d], synced[d]) /\ synced'[d] = Len(file'[d])
        /\ \A q \in Procs : sink'[q] = "none" /\ at'[q] = Idle
    BY DEF PowerCut
  <1>2. /\ today \in Days /\ \A d \in Days : d \in Nat /\ d >= 1
        /\ \A d \in Days : /\ file[d] \in Seq(Writes) /\ synced[d] \in Nat
                           /\ synced[d] <= Len(file[d]) /\ Len(file[d]) \in Nat
                           /\ DOMAIN file[d] = 1..Len(file[d])
    BY LocalAssumption DEF IInv, TypeOK, Days
  <1>3. \A d \in Days :
           /\ Len(file'[d]) \in Nat /\ Len(file'[d]) <= Len(file[d])
           /\ DOMAIN file'[d] = 1..Len(file'[d])
           /\ \A i \in 1..Len(file'[d]) :
                 /\ file'[d][i].call = file[d][i].call
                 /\ i < Len(file'[d]) \/ file'[d][i].part = "whole" => file'[d][i] = file[d][i]
           /\ synced[d] = Len(file[d]) => file'[d] = file[d]
    BY <1>1, <1>2, RemainsWhole, RemainsFrom
  <1>4. today = 1 \/ spent["stops"] = 0
    <2>1. spent' = [spent EXCEPT !["cuts"] = @ + 1] /\ spent \in [Counters -> Nat]
      BY DEF PowerCut, Spend, IInv, TypeOK
    <2>2. spent'["cuts"] > 0 /\ spent'["stops"] = spent["stops"] /\ spent["stops"] \in Nat
      BY <2>1 DEF Counters
    <2>3. QED
      BY <1>1, <1>2, <2>2 DEF Alone, CutAcrossDays
  <1>5. \A q : q \in Places' <=> /\ q = <<q[1], q[2]>> /\ q[1] \in Days
                                /\ q[2] \in 1..Len(file'[q[1]])
    BY <1>3 DEF Places
  <1>6. \A q \in Places' : /\ q \in Places
                           /\ Held(q)' = Held(q) /\ SeqAt(q)' = SeqAt(q)
                           /\ Whole(q)' => file'[q[1]][q[2]] = file[q[1]][q[2]]
    <2>1. SUFFICES ASSUME NEW q \in Places'
                   PROVE  /\ q \in Places
                          /\ Held(q)' = Held(q) /\ SeqAt(q)' = SeqAt(q)
                          /\ Whole(q)' => file'[q[1]][q[2]] = file[q[1]][q[2]]
      OBVIOUS
    <2>2. q = <<q[1], q[2]>> /\ q[1] \in Days /\ q[2] \in 1..Len(file'[q[1]])
      BY <1>5
    <2>3. q[2] \in DOMAIN file[q[1]]
      BY <1>2, <1>3, <2>2
    <2>4. q \in Places
      BY <2>2, <2>3, PlaceIs
    <2>5. Held(q)' = Held(q)
      BY <1>3, <2>2 DEF Held
    <2>6. QED
      BY <1>1, <1>3, <2>2, <2>4, <2>5 DEF SeqAt, Whole
  <1>7. ASSUME NEW q \in Places', NEW o \in Places, Before(o, q)
        PROVE  /\ o \in Places' /\ file'[o[1]][o[2]] = file[o[1]][o[2]]
               /\ Parses(o)' => Parses(o)
    <2>1. /\ o = <<o[1], o[2]>> /\ o[1] \in Days /\ o[2] \in 1..Len(file[o[1]])
          /\ q[1] \in Days /\ q[2] \in 1..Len(file'[q[1]]) /\ q \in Places
      BY <1>2, <1>5, <1>6, PlaceIs
    <2>2. CASE o[1] = q[1]
      <3>1. o[2] < q[2]
        BY <1>2, <1>7, <2>1, <2>2 DEF Before
      <3>2. o[2] \in 1..Len(file'[o[1]]) /\ o[2] < Len(file'[o[1]])
        BY <1>2, <1>3, <2>1, <2>2, <3>1
      <3>3. \A i \in 1..o[2] : file'[o[1]][i] = file[o[1]][i]
        <4>1. Len(file'[o[1]]) \in Nat
          BY <1>3, <2>1
        <4>2. \A i \in 1..o[2] : i \in 1..Len(file'[o[1]]) /\ i < Len(file'[o[1]])
          BY <3>2, <4>1
        <4>3. QED
          BY <1>3, <2>1, <4>2
      <3>4. o \in Places'
        BY <1>5, <2>1, <3>2
      <3>5. Parses(o)' => Parses(o)
        <4>1. SUFFICES ASSUME Parses(o)' PROVE Parses(o)
          OBVIOUS
        <4>2. file[o[1]][o[2]].part = "whole"
          BY <3>2, <3>3, <4>1 DEF Parses
        <4>3. o[2] > 1 => o[2] - 1 \in 1..o[2]
          BY <3>2
        <4>4. QED
          BY <3>3, <4>1, <4>2, <4>3 DEF Parses
      <3>6. QED
        BY <3>2, <3>3, <3>4, <3>5
    <2>3. CASE o[1] # q[1]
      <3>1. o[1] < q[1] /\ q[1] <= today
        BY <1>2, <1>7, <2>1, <2>3 DEF Before, AloneInv, FilesInv
      <3>2. spent["stops"] = 0
        BY <1>2, <1>4, <2>1, <3>1
      <3>3. synced[o[1]] = Len(file[o[1]])
        <4>1. SUFFICES ASSUME synced[o[1]] < Len(file[o[1]]) PROVE FALSE
          BY <1>2, <2>1
        <4>2. PICK l : l = <<o[1], Len(file[o[1]])>>
          OBVIOUS
        <4>3. l[1] = o[1] /\ l[2] = Len(file[o[1]]) /\ l \in Places
          <5>1. Len(file[o[1]]) \in DOMAIN file[o[1]]
            BY <1>2, <2>1
          <5>2. QED
            BY <2>1, <4>2, <5>1, PlaceIs
        <4>4. LastPlace(l)
          BY <3>2, <4>1, <4>3 DEF AloneInv, Flushed
        <4>5. Before(l, q)
          BY <3>1, <4>3 DEF Before
        <4>6. QED
          BY <2>1, <4>4, <4>5 DEF LastPlace
      <3>4. file'[o[1]] = file[o[1]]
        BY <1>3, <2>1, <3>3
      <3>5. o \in Places'
        BY <1>5, <2>1, <3>4
      <3>6. QED
        BY <3>4, <3>5 DEF Parses
    <2>4. QED
      BY <2>2, <2>3
  <1>8. Chained'
    <2>1. SUFFICES ASSUME NEW q \in Places', WholeUpTo(q)'
                   PROVE  \/ /\ \A o \in Places' : ~Before(o, q)
                             /\ SeqAt(q)' = 1 /\ rec[Held(q)'].prev = 0
                          \/ \E o \in Places' : /\ JustBefore(o, q)'
                                                /\ SeqAt(q)' = SeqAt(o)' + 1
                                                /\ rec[Held(q)'].prev = Held(o)'
      BY <1>1 DEF Chained
    <2>2. \A o \in Places' : ~Before(q, o) => Whole(o)'
      BY <2>1 DEF WholeUpTo
    <2>3. WholeUpTo(q)
      <3>1. SUFFICES ASSUME NEW o \in Places, ~Before(q, o) PROVE Whole(o)
        BY DEF WholeUpTo
      <3>2. o = q \/ Before(o, q)
        BY <1>6, <3>1, InLine
      <3>3. o \in Places'
        BY <1>7, <3>1, <3>2
      <3>4. Whole(o)'
        BY <2>2, <3>1, <3>3
      <3>5. file'[o[1]][o[2]] = file[o[1]][o[2]]
        BY <1>6, <3>3, <3>4
      <3>6. QED
        BY <3>4, <3>5 DEF Whole
    <2>4. CASE (\A o \in Places : ~Before(o, q)) /\ SeqAt(q) = 1 /\ rec[Held(q)].prev = 0
      BY <1>6, <2>4
    <2>5. ASSUME NEW o \in Places, JustBefore(o, q),
                 SeqAt(q) = SeqAt(o) + 1, rec[Held(q)].prev = Held(o)
          PROVE  \E l \in Places' : /\ JustBefore(l, q)'
                                    /\ SeqAt(q)' = SeqAt(l)' + 1
                                    /\ rec[Held(q)'].prev = Held(l)'
      <3>1. o \in Places'
        BY <1>7, <2>5 DEF JustBefore
      <3>2. JustBefore(o, q)'
        BY <1>6, <2>5, <3>1 DEF JustBefore
      <3>3. QED
        BY <1>6, <2>5, <3>1, <3>2
    <2>6. QED
      BY <1>6, <2>3, <2>4, <2>5 DEF AloneInv, FilesInv, Chained
  <1>9. Increasing'
    <2>1. SUFFICES ASSUME NEW o \in Places', NEW q \in Places', Before(o, q), Parses(o)'
                   PROVE  SeqAt(o)' < SeqAt(q)'
      BY DEF Increasing
    <2>2. QED
      BY <1>6, <1>7, <2>1 DEF AloneInv, FilesInv, Increasing
  <1>10. \A q \in Places' : q[1] <= today'
    BY <1>1, <1>6 DEF AloneInv, FilesInv
  <1>11. Flushed'
    <2>1. \A q \in Places' : ~(q[2] > synced'[q[1]])
      BY <1>1, <1>2, <1>3, <1>5
    <2>2. QED
      BY <2>1 DEF Flushed
  <1>12. OneFile' /\ \A q \in Procs : Standing(q)'
    BY <1>1 DEF OneFile, Standing, Idle
  <1>13. QED
    BY <1>8, <1>9, <1>10, <1>11, <1>12 DEF AloneInv, FilesInv

LEMMA AloneStep == IInv /\ (Alone => AloneInv) /\ [Next]_vars => (Alone' => AloneInv')
  <1> SUFFICES ASSUME IInv, Alone => AloneInv, [Next]_vars, Alone'
               PROVE  AloneInv'
    OBVIOUS
  <1>1. AloneInv
    BY AloneBefore
  <1>2. CASE UNCHANGED vars
    <2>1. UNCHANGED <<file, rec, today, at, sink, head, synced, spent>>
      BY <1>2 DEF vars
    <2>2. \A q \in Procs : Standing(q)'
      BY <1>1, <2>1, AloneBefore, OthersStand
    <2>3. FilesInv' /\ OneFile' /\ Flushed'
      BY <1>1, <2>1, SameFiles DEF AloneInv, FilesInv, OneFile, Flushed
    <2>4. QED
      BY <2>2, <2>3 DEF AloneInv
  <1>3. ASSUME NEW p \in Procs, FsyncRaises(p)
        PROVE  FALSE
    <2>1. spent' = [spent EXCEPT !["raised"] = @ + 1] /\ spent \in [Counters -> Nat]
      BY <1>3 DEF FsyncRaises, Spend, IInv, TypeOK
    <2>2. QED
      BY <2>1 DEF Alone, Counters
  <1>4. QED
    BY <1>1, <1>2, <1>3, StartStands, AsideStands, BuildStands, OpenFailsStands, WriteStands,
       FsyncStands, ReturnsStands, CutStands, NextDayStands DEF Next

LEMMA AloneHolds == Spec => [](Alone => AloneInv)
  <1>1. Init => AloneInv
    <2>1. SUFFICES ASSUME Init PROVE AloneInv
      OBVIOUS
    <2>2. Places = {}
      BY <2>1 DEF Init, Places
    <2>3. \A q \in Procs : sink[q] = "none" /\ at[q].pc = "idle"
      BY <2>1 DEF Init, Idle
    <2>4. QED
      BY <2>2, <2>3 DEF AloneInv, OneFile, FilesInv, Chained, Increasing, Flushed, Standing
  <1>2. QED
    BY <1>1, AloneStep, Invariant, PTL DEF Spec

\* The chain of a directory verifies (verify.py) as long as every write is there in
\* full, nothing raised after one, and one process at a time used it: kills, power
\* cuts, restarts and midnights leave no break, however many there are.
THEOREM AloneIsIntact == Spec => []IntactWhenAlone
  <1>1. IInv /\ (Alone => AloneInv) => IntactWhenAlone
    <2>1. SUFFICES ASSUME IInv, AloneInv, \A d \in Days : \A i \in DOMAIN file[d] :
                                             file[d][i].part = "whole"
                   PROVE  Linked
      BY DEF IntactWhenAlone, Alone
    <2>2. \A p \in Places : Whole(p) /\ Parses(p)
      <3>1. SUFFICES ASSUME NEW p \in Places PROVE Whole(p) /\ Parses(p)
        OBVIOUS
      <3>2. p[1] \in Days /\ p[2] \in DOMAIN file[p[1]]
        BY <2>1, PlaceIs
      <3>3. file[p[1]] \in Seq(Writes)
        BY <2>1, <3>2 DEF IInv, TypeOK
      <3>4. QED
        BY <2>1, <3>2, <3>3 DEF Whole, Parses
    <2>3. Readable = Places /\ \A q \in Places : WholeUpTo(q)
      BY <2>2 DEF Readable, WholeUpTo
    <2>4. ASSUME NEW q \in Places
          PROVE  \/ (\A p \in Places : ~Before(p, q)) /\ SeqAt(q) = 1 /\ rec[Held(q)].prev = 0
                 \/ \E p \in Places : /\ JustBefore(p, q)
                                      /\ SeqAt(q) = SeqAt(p) + 1 /\ rec[Held(q)].prev = Held(p)
      BY <2>1, <2>3 DEF AloneInv, FilesInv, Chained
    <2>5. ASSUME NEW q \in Places
          PROVE  IF {p \in Places : Before(p, q)} = {}
                 THEN rec[Held(q)].seq = 1 /\ rec[Held(q)].prev = 0
                 ELSE \E p \in {o \in Places : Before(o, q)} :
                         /\ \A o \in {l \in Places : Before(l, q)} : ~Before(p, o)
                         /\ rec[Held(q)].prev = Held(p)
                         /\ rec[Held(q)].seq = rec[Held(p)].seq + 1
      <3>1. CASE (\A p \in Places : ~Before(p, q)) /\ SeqAt(q) = 1 /\ rec[Held(q)].prev = 0
        BY <3>1 DEF SeqAt
      <3>2. ASSUME NEW p \in Places, JustBefore(p, q),
                   SeqAt(q) = SeqAt(p) + 1, rec[Held(q)].prev = Held(p)
            PROVE  /\ p \in {o \in Places : Before(o, q)}
                   /\ \A o \in {l \in Places : Before(l, q)} : ~Before(p, o)
                   /\ rec[Held(q)].seq = rec[Held(p)].seq + 1
        BY <3>2 DEF JustBefore, SeqAt
      <3>3. QED
        BY <2>4, <3>1, <3>2
    <2>6. QED
      BY <2>3, <2>5 DEF Linked
  <1>2. QED
    BY <1>1, AloneHolds, Invariant, PTL

\* Two lines that parse carry one number only where an fsync or a chmod raised after
\* the write, or two processes shared the directory, or a power cut took from an
\* earlier day what a killed process had not synced: short writes, which the head
\* may well point to, never do it.
THEOREM NumbersNotReused == Spec => []SeqReused
  <1>1. IInv /\ (Alone => AloneInv) => SeqReused
    <2>1. SUFFICES ASSUME IInv, AloneInv, NEW p \in Readable, NEW q \in Readable, p # q
                   PROVE  rec[Held(p)].seq # rec[Held(q)].seq
      <3>1. IInv => shared \in BOOLEAN /\ spent["raised"] \in Nat
        BY DEF IInv, TypeOK, Counters
      <3>2. QED
        BY <3>1 DEF SeqReused, Alone
    <2>2. p \in Places /\ q \in Places /\ Parses(p) /\ Parses(q)
      BY DEF Readable
    <2>3. SeqAt(p) \in Nat /\ SeqAt(q) \in Nat
      BY <2>1, <2>2, PlaceIs
    <2>4. SeqAt(p) < SeqAt(q) \/ SeqAt(q) < SeqAt(p)
      BY <2>1, <2>2, InLine DEF AloneInv, FilesInv, Increasing
    <2>5. QED
      BY <2>3, <2>4 DEF SeqAt
  <1>2. QED
    BY <1>1, AloneHolds, Invariant, PTL
===============================================================================
