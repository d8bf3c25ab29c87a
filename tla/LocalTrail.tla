------------------------------- MODULE LocalTrail -------------------------------
(***************************************************************************)
(* The local audit trail: AuditTrail (audit/trail.py) writing through a    *)
(* JsonlFileSink (audit/sink.py), one file per UTC day in one directory.   *)
(* Unlike the hosted trail of AuditTrail.tla the append carries no         *)
(* position condition, so nothing is refused and nothing is rebuilt: what  *)
(* can go wrong is a write that comes back short, an fsync or a chmod that *)
(* raises after the bytes are in the file, a power cut, and a second       *)
(* process on the same directory.                                          *)
(*                                                                         *)
(* Data abstracted: a file is the sequence of the writes it took; a record *)
(* is named by the number of the call that wrote it, and so is its hash    *)
(* (0 is GENESIS_HASH).  The threads of a process queue for the trail's    *)
(* lock, so a process is in at most one call of write() at a time.         *)
(***************************************************************************)
EXTENDS Naturals, Sequences, FiniteSets

CONSTANTS
    Procs,       \* processes that may run on the one audit directory
    MaxDay,      \* bound: midnights seen, plus one
    MaxCalls,    \* bound: calls of AuditTrail.write
    MaxShort,    \* bound: writes that came back short
    MaxRaised,   \* bound: fsync or chmod that raised
    MaxStops,    \* bound: processes ended
    MaxCuts      \* bound: power cuts

ASSUME LocalAssumption ==
    /\ MaxDay \in Nat \ {0}
    /\ {MaxCalls, MaxShort, MaxRaised, MaxStops, MaxCuts} \subseteq Nat

VARIABLES
    file,     \* day -> the writes in its file, in order
    synced,   \* day -> how many of them a power cut cannot take back
    today,    \* the UTC day
    sink,     \* process -> "none" (down), "file" or "stderr" (build_sink)
    head,     \* process -> AuditTrail._seq, and the record of ._prev
    at,       \* process -> where its call of write() stands, if it is in one
    rec,      \* call -> the record it built
    acked,    \* history: calls whose record was returned to the caller
    aside,    \* history: of those, the ones that only stderr took
    shared,   \* history: two processes have been on the directory at once
    spent     \* bounds used up

vars == <<file, synced, today, sink, head, at, rec, acked, aside, shared, spent>>

Days == 1..MaxDay
Calls == 1..MaxCalls
Counters == {"short", "raised", "stops", "cuts"}

\* How much of a record's line a write left behind: all of it, all but the
\* newline (which still parses), less, or a part that ends inside a character
\* (canonical_json writes names as they are, in UTF-8).
Parts == {"whole", "unended", "torn", "split"}

\* short: os.write came back with less than the line (a power cut may also
\* leave less of it).
Writes == [call : Calls, part : Parts, short : BOOLEAN]
Records == [seq : Nat, prev : Nat, day : Days]
Heads == [seq : Nat, last : Nat]
Stands == [pc : {"idle", "append", "fsync", "chmod"}, call : Nat]
Genesis == [seq |-> 0, last |-> 0]
Idle == [pc |-> "idle", call |-> 0]

-------------------------------------------------------------------------------
(* Reading the files back.                                                 *)

Places == UNION {{d} \X DOMAIN file[d] : d \in Days}
Held(p) == file[p[1]][p[2]].call

\* Day files in the order of their names, lines in the order of the file.
Before(p, q) == p[1] < q[1] \/ (p[1] = q[1] /\ p[2] < q[2])

\* A line parses when it holds one write, cut by its newline at most: a write
\* after one without a newline is on the same line as it.
Parses(p) ==
    LET f == file[p[1]]
        i == p[2]
    IN  /\ f[i].part \in {"whole", "unended"}
        /\ i > 1 => f[i - 1].part = "whole"
        /\ i < Len(f) => f[i].part = "whole"

Readable == {p \in Places : Parses(p)}

\* Half a character is not a malformed line but a file that cannot be decoded:
\* _last_record raises on it, and with it the constructor of the trail, unless
\* a later day's file has given it a record before.
Decodes ==
    \A p \in Places : file[p[1]][p[2]].part = "split" =>
        \E q \in Readable : q[1] > p[1]

\* A slip: the days are gone through oldest first.
IsLastOfOldest(p) ==
    /\ p \in Readable
    /\ \A q \in Readable : q[1] > p[1] \/ (q[1] = p[1] /\ q[2] <= p[2])

\* p is the line _last_record settles on: malformed ones are skipped, and a
\* file with none is passed over for the day before.
IsLast(p) == p \in Readable /\ \A q \in Readable : ~Before(p, q)

\* verify_chain over read_all: each record names the one read before it and is
\* numbered one above it.
Linked ==
    \A q \in Readable :
        LET r == rec[Held(q)]
            earlier == {p \in Readable : Before(p, q)}
        IN  IF earlier = {} THEN r.seq = 1 /\ r.prev = 0
            ELSE \E p \in earlier :
                     /\ \A o \in earlier : ~Before(p, o)
                     /\ r.prev = Held(p)
                     /\ r.seq = rec[Held(p)].seq + 1

-------------------------------------------------------------------------------
Init ==
    /\ file = [d \in Days |-> <<>>]
    /\ synced = [d \in Days |-> 0]
    /\ today = 1
    /\ sink = [p \in Procs |-> "none"]
    /\ head = [p \in Procs |-> Genesis]
    /\ at = [p \in Procs |-> Idle]
    /\ rec = <<>>
    /\ acked = {} /\ aside = {}
    /\ shared = FALSE
    /\ spent = [c \in Counters |-> 0]

disk == <<file, synced>>
told == <<acked, aside>>
procs == <<sink, head, at>>

Spend(c, max) == spent[c] < max /\ spent' = [spent EXCEPT ![c] = @ + 1]

\* A process starts: build_sink opens the directory, AuditTrail.__init__
\* resumes from the last record that parses.
Start(p) ==
    /\ sink[p] = "none"
    /\ Decodes
    /\ sink' = [sink EXCEPT ![p] = "file"]
    /\ \/ Readable = {} /\ head' = [head EXCEPT ![p] = Genesis]
       \/ \E l \in Readable :
             /\ IsLast(l)
             /\ head' = [head EXCEPT ![p] =
                           [seq |-> rec[Held(l)].seq, last |-> Held(l)]]
    /\ shared' = (shared \/ \E q \in Procs : sink[q] = "file")
    /\ UNCHANGED <<disk, today, at, rec, told, spent>>

\* The directory is unusable: build_sink settles for stderr, whose head is
\* always the genesis.
Degrade(p) ==
    /\ sink[p] = "none"
    /\ sink' = [sink EXCEPT ![p] = "stderr"]
    /\ head' = [head EXCEPT ![p] = Genesis]
    /\ UNCHANGED <<disk, today, at, rec, told, shared, spent>>

\* write() takes the lock and builds the record on the cached head; its day,
\* and so its file, is that of its timestamp.
Build(p) ==
    /\ sink[p] # "none" /\ at[p].pc = "idle"
    /\ Len(rec) < MaxCalls
    /\ rec' = Append(rec, [seq |-> head[p].seq + 1, prev |-> head[p].last,
                           day |-> today])
    /\ at' = [at EXCEPT ![p] = [pc |-> "append", call |-> Len(rec) + 1]]
    /\ UNCHANGED <<disk, today, sink, head, told, shared, spent>>

\* The call returns its record, which becomes the cached head.
Accepts(p) ==
    /\ head' = [head EXCEPT ![p] = [seq |-> rec[at[p].call].seq,
                                    last |-> at[p].call]]
    /\ at' = [at EXCEPT ![p] = Idle]
    /\ acked' = acked \cup {at[p].call}

\* A slip: the head moves before the sink has accepted.
RaisesAhead(p) ==
    /\ at' = [at EXCEPT ![p] = Idle]
    /\ head' = [head EXCEPT ![p] = [seq |-> rec[at[p].call].seq,
                                    last |-> at[p].call]]

\* The call raises: the cached head stays where it was.
Raises(p) ==
    /\ at' = [at EXCEPT ![p] = Idle]
    /\ head' = head

\* StderrSink logs the record, and that is all.
Logs(p) ==
    /\ sink[p] = "stderr" /\ at[p].pc = "append"
    /\ Accepts(p)
    /\ aside' = aside \cup {at[p].call}
    /\ UNCHANGED <<disk, today, sink, rec, shared, spent>>

\* os.open or os.write raises with nothing written.
OpenFails(p) ==
    /\ sink[p] = "file" /\ at[p].pc = "append"
    /\ Raises(p)
    /\ UNCHANGED <<disk, today, sink, rec, told, shared, spent>>

\* os.write, whose count is not looked at: on a full disk it may be short.
Write(p) ==
    LET n == at[p].call IN
    /\ sink[p] = "file" /\ at[p].pc = "append"
    /\ \E part \in Parts :
          /\ file' = [file EXCEPT ![rec[n].day] =
                        Append(@, [call |-> n, part |-> part,
                                   short |-> part # "whole"])]
          /\ IF part = "whole" THEN spent' = spent ELSE Spend("short", MaxShort)
    /\ at' = [at EXCEPT ![p] = [pc |-> "fsync", call |-> n]]
    /\ UNCHANGED <<synced, today, sink, head, rec, told, shared>>

\* A slip: flushed to the system, not to the disk.
FlushOnly(p) ==
    /\ at[p].pc = "fsync"
    /\ at' = [at EXCEPT ![p] = [pc |-> "chmod", call |-> at[p].call]]
    /\ UNCHANGED <<disk, today, sink, head, rec, told, shared, spent>>

\* os.fsync: what the file holds is on the disk.
Fsync(p) ==
    LET n == at[p].call IN
    /\ at[p].pc = "fsync"
    /\ synced' = [synced EXCEPT ![rec[n].day] = Len(file[rec[n].day])]
    /\ at' = [at EXCEPT ![p] = [pc |-> "chmod", call |-> n]]
    /\ UNCHANGED <<file, today, sink, head, rec, told, shared, spent>>

\* os.fsync or os.chmod raises with the record in the file.
FsyncRaises(p) ==
    /\ at[p].pc \in {"fsync", "chmod"}
    /\ Spend("raised", MaxRaised)
    /\ Raises(p)
    /\ UNCHANGED <<disk, today, sink, rec, told, shared>>

\* TeeSink goes on to stderr, whose failure it swallows, and write() returns.
Returns(p) ==
    /\ at[p].pc = "chmod"
    /\ Accepts(p)
    /\ UNCHANGED <<disk, today, sink, rec, aside, shared, spent>>

\* The process ends, in the middle of a call or not.
Stop(p) ==
    /\ sink[p] # "none"
    /\ Spend("stops", MaxStops)
    /\ sink' = [sink EXCEPT ![p] = "none"]
    /\ head' = [head EXCEPT ![p] = Genesis]
    /\ at' = [at EXCEPT ![p] = Idle]
    /\ UNCHANGED <<disk, today, rec, told, shared>>

\* What a power cut may leave of a file: what was synced, some of the writes
\* after it, and part of the next one.
Remains(f, k) ==
    {SubSeq(f, 1, n) : n \in k..Len(f)} \cup
    UNION {{Append(SubSeq(f, 1, n), [f[n + 1] EXCEPT !.part = part]) :
               part \in Parts \ {"whole"}} :
           n \in {m \in k..(Len(f) - 1) : f[m + 1].part = "whole"}}

PowerCut ==
    /\ Spend("cuts", MaxCuts)
    /\ file' \in {g \in [Days -> UNION {Remains(file[d], synced[d]) : d \in Days}] :
                    \A d \in Days : g[d] \in Remains(file[d], synced[d])}
    /\ synced' = [d \in Days |-> Len(file'[d])]
    /\ sink' = [p \in Procs |-> "none"]
    /\ head' = [p \in Procs |-> Genesis]
    /\ at' = [p \in Procs |-> Idle]
    /\ UNCHANGED <<today, rec, told, shared>>

NextDay ==
    /\ today < MaxDay
    /\ today' = today + 1
    /\ UNCHANGED <<disk, procs, rec, told, shared, spent>>

Next ==
    \/ \E p \in Procs :
          \/ Start(p) \/ Degrade(p) \/ Build(p) \/ Logs(p) \/ OpenFails(p)
          \/ Write(p) \/ Fsync(p) \/ FsyncRaises(p) \/ Returns(p) \/ Stop(p)
    \/ PowerCut
    \/ NextDay

Spec == Init /\ [][Next]_vars

-------------------------------------------------------------------------------
TypeOK ==
    /\ file \in [Days -> Seq(Writes)]
    /\ synced \in [Days -> Nat]
    /\ today \in Days
    /\ sink \in [Procs -> {"none", "file", "stderr"}]
    /\ head \in [Procs -> Heads]
    /\ at \in [Procs -> Stands]
    /\ rec \in Seq(Records)
    /\ acked \subseteq Calls /\ aside \subseteq acked
    /\ shared \in BOOLEAN
    /\ spent \in [Counters -> Nat]

\* p is on one line with the write before it, which left no newline: itself
\* short, or the remains of a call that was never answered.
Spoilt(p) ==
    /\ p[2] > 1
    /\ LET before == file[p[1]][p[2] - 1]
       IN  /\ before.part # "whole"
           /\ before.short \/ before.call \notin acked

\* A record the caller was told of can be read back from its file, whatever
\* stopped since: a process, the machine, an fsync that raised (sink.py:11 "a
\* record survives the power going off").  The code keeps that promise but for
\* os.write, whose count sink.py:139 throws away: a record told of is on no
\* line that parses only where its own write was short, or where it follows
\* what a short write or a power cut left of another, unanswered one.  No power
\* cut takes any of it, nor of an answered record before it.  Only a process
\* that settled for stderr acknowledges what no file holds.
AckedOnDisk ==
    \A n \in acked \ aside :
        \E p \in Places :
            /\ Held(p) = n
            /\ Parses(p) \/ file[p[1]][p[2]].short \/ Spoilt(p)

\* The one thing a power cut can take from under a later record: one that a
\* killed process had written to yesterday's file and not yet synced.
CutAcrossDays == spent["cuts"] > 0 /\ spent["stops"] > 0 /\ today > 1

\* Two records that can be read carry one sequence number only where an fsync
\* or a chmod raised after the write, or two processes shared the directory:
\* short writes, kills and power cuts (but for the case above) never number
\* two records alike, although the head is taken from the last line that parses.
SeqReused ==
    (\E p, q \in Readable : p # q /\ rec[Held(p)].seq = rec[Held(q)].seq)
        => shared \/ spent["raised"] > 0 \/ CutAcrossDays

\* The chain verifies as long as every write is in its file in full, nothing
\* raised after a write, and one process at a time used the directory:
\* stopping it anywhere, power cuts (but for the case above) and spells on
\* stderr leave no break behind.
IntactWhenAlone ==
    (/\ \A d \in Days : \A i \in DOMAIN file[d] : file[d][i].part = "whole"
     /\ ~shared /\ spent["raised"] = 0 /\ ~CutAcrossDays)
        => Linked
===============================================================================
