--------------------------- MODULE AuditTrailProofs ---------------------------
(***************************************************************************)
(* What AuditTrail.tla guarantees: first for every number of replicas,     *)
(* threads, calls, days, lost answers, late requests and stops; then, from *)
(* "One replica at a time", what holds besides when there is one and every *)
(* request is answered: an intact chain, which implements ChainLog.tla.    *)
(***************************************************************************)
EXTENDS AuditTrail, SequenceTheorems, TLAPS

-------------------------------------------------------------------------------
(* Facts about the operators the actions are built from.                   *)

\* Changing one entry of a table of tables keeps its type and the others.
LEMMA Update2 ==
  ASSUME NEW A, NEW B, NEW S, NEW f \in [A -> [B -> S]],
         NEW a \in A, NEW b \in B, NEW v \in S
  PROVE  /\ [f EXCEPT ![a][b] = v] \in [A -> [B -> S]]
         /\ \A x \in A, y \in B :
               [f EXCEPT ![a][b] = v][x][y] = IF x = a /\ y = b THEN v ELSE f[x][y]
  <1>1. [f EXCEPT ![a][b] = v] = [f EXCEPT ![a] = [f[a] EXCEPT ![b] = v]]
    OBVIOUS
  <1>2. [f[a] EXCEPT ![b] = v] \in [B -> S]
    OBVIOUS
  <1>3. \A y \in B : [f[a] EXCEPT ![b] = v][y] = IF y = b THEN v ELSE f[a][y]
    OBVIOUS
  <1>4. QED
    BY <1>1, <1>2, <1>3

\* A thread that moves on has a state of the right type; the others keep theirs.
LEMMA MovesOne ==
  ASSUME TypeOK, NEW p \in Replicas, NEW t \in Threads, NEW c \in Calls,
         Moves(p, t, c)
  PROVE  /\ call' \in [Replicas -> [Threads -> Calls]]
         /\ \A q \in Replicas, u \in Threads :
               call'[q][u] = IF q = p /\ u = t THEN c ELSE call[q][u]
  BY Update2 DEF TypeOK, Moves

\* The state of a thread outside write() has the type of a call's state.
LEMMA IdleType == Idle \in Calls
  BY TrailAssumption DEF Idle, Calls, Days

\* Leaving write() makes the thread idle and the lock free.
LEMMA LeaveOne ==
  ASSUME TypeOK, NEW p \in Replicas, NEW t \in Threads, Leave(p, t)
  PROVE  /\ call' \in [Replicas -> [Threads -> Calls]]
         /\ lock' \in [Replicas -> Threads \cup {Nobody}]
         /\ \A q \in Replicas, u \in Threads :
               call'[q][u] = IF q = p /\ u = t THEN Idle ELSE call[q][u]
         /\ \A q \in Replicas : lock'[q] = IF q = p THEN Nobody ELSE lock[q]
  <1>1. Moves(p, t, Idle)
    BY DEF Leave
  <1>2. /\ call' \in [Replicas -> [Threads -> Calls]]
        /\ \A q \in Replicas, u \in Threads :
               call'[q][u] = IF q = p /\ u = t THEN Idle ELSE call[q][u]
    BY <1>1, MovesOne, IdleType
  <1>3. /\ lock' \in [Replicas -> Threads \cup {Nobody}]
        /\ \A q \in Replicas : lock'[q] = IF q = p THEN Nobody ELSE lock[q]
    BY DEF Leave, TypeOK
  <1>4. QED
    BY <1>2, <1>3

\* A new record has the type of a call's state.
LEMMA BuiltType ==
  ASSUME TypeOK, NEW h \in [seq : Nat, prev : Nat], NEW ev \in Nat,
         NEW attempt \in 0..RebuildAttempts
  PROVE  Built(h, ev, attempt) \in Calls
  BY DEF TypeOK, Built, Calls

\* A block has the type of a block.
LEMMA BlockType ==
  ASSUME NEW c \in Calls, NEW e \in Nat
  PROVE  Block(c, e) \in Blocks
  BY DEF Block, Calls, Blocks

\* Appending a block leaves the blocks before it where they are.
LEMMA AppendBlock ==
  ASSUME TypeOK, NEW b \in Blocks, log' = Append(log, b)
  PROVE  /\ log' \in Seq(Blocks)
         /\ Len(log') = Len(log) + 1
         /\ DOMAIN log = 1..Len(log)
         /\ DOMAIN log' = 1..(Len(log) + 1)
         /\ \A i \in DOMAIN log : log'[i] = log[i]
         /\ log'[Len(log) + 1] = b
  BY DEF TypeOK

\* Spending one unit below its bound stays within the bounds.
LEMMA SpendType ==
  ASSUME TypeOK
  PROVE  /\ spent.lost < MaxLost => [spent EXCEPT !.lost = @ + 1] \in Budget
         /\ spent.late < MaxLate => [spent EXCEPT !.late = @ + 1] \in Budget
         /\ spent.crashes < MaxCrashes => [spent EXCEPT !.crashes = @ + 1] \in Budget
  <1> spent \in Budget
    BY DEF TypeOK
  <1> QED
    BY TrailAssumption DEF Budget

\* The records of the container are blocks.
LEMMA LogType ==
  ASSUME TypeOK
  PROVE  /\ Len(log) \in Nat
         /\ DOMAIN log = 1..Len(log)
         /\ \A i \in 1..Len(log) : log[i] \in Blocks
  BY DEF TypeOK

\* The last record read is a position in the container, or none.
LEMMA ReadHeadType ==
  ASSUME TypeOK, NEW p \in Replicas
  PROVE  ReadHead(p) \in [seq : Nat, prev : 0..Len(log)]
  <1>1. scan[p].last \in 0..Len(log)
    BY DEF TypeOK
  <1>2. SeqAt(scan[p].last) \in Nat
    <2>1. scan[p].last # 0 => log[scan[p].last] \in Blocks
      BY <1>1, LogType
    <2>2. QED
      BY <2>1 DEF SeqAt, Blocks
  <1>3. QED
    BY <1>1, <1>2 DEF ReadHead

-------------------------------------------------------------------------------
(* Type correctness.                                                       *)

LEMMA TypeInit == Init => TypeOK
  <1> SUFFICES ASSUME Init PROVE TypeOK
    OBVIOUS
  <1>1. log \in Seq(Blocks) /\ Len(log) = 0
    BY DEF Init
  <1>2. today \in Days /\ calls \in 0..MaxCalls
    BY TrailAssumption DEF Init, Days
  <1>3. spent \in Budget
    BY TrailAssumption DEF Init, Budget
  <1>4. call \in [Replicas -> [Threads -> Calls]]
    BY IdleType DEF Init
  <1>5. scan \in [Replicas -> [todo : SUBSET Days, last : 0..Len(log)]]
    BY <1>1 DEF Init, NoScan
  <1>6. head \in [Replicas -> [seq : Nat, prev : Nat]]
    BY DEF Init, NoHead
  <1>7. QED
    BY <1>1, <1>2, <1>3, <1>4, <1>5, <1>6 DEF Init, TypeOK

LEMMA TypeCallStep ==
  ASSUME TypeOK, NEW p \in Replicas, NEW t \in Threads, Write(p, t) \/ CallStep(p, t)
  PROVE  TypeOK'
  <1>0. call[p][t] \in Calls /\ head[p] \in [seq : Nat, prev : Nat]
    BY DEF TypeOK
  <1>1. CASE Write(p, t)
    <2>1. Built(head[p], calls + 1, 1) \in Calls
      BY <1>0, BuiltType, TrailAssumption DEF TypeOK
    <2>2. call' \in [Replicas -> [Threads -> Calls]]
      BY <1>1, <2>1, MovesOne DEF Write
    <2>3. calls' \in 0..MaxCalls
      BY <1>1, TrailAssumption DEF Write, TypeOK
    <2>4. lock' \in [Replicas -> Threads \cup {Nobody}]
      BY <1>1 DEF Write, TypeOK
    <2>5. QED
      BY <1>1, <2>2, <2>3, <2>4 DEF Write, TypeOK, storage
  <1>2. CASE EnsureBlob(p, t)
    BY <1>0, <1>2 DEF EnsureBlob, TypeOK, Calls
  <1>3. CASE EnsureBlobFails(p, t)
    <2>1. blobs' \in SUBSET Days
      BY <1>0, <1>3 DEF EnsureBlobFails, TypeOK, Calls
    <2>2. QED
      BY <1>3, <2>1, LeaveOne DEF EnsureBlobFails, TypeOK
  <1>4. CASE AppendLands(p, t)
    <2>1. Expected(p, t) \in Nat
      BY <1>0 DEF Expected, TypeOK, Calls
    <2>2. /\ log' \in Seq(Blocks)
          /\ Len(log') = Len(log) + 1
      BY <1>0, <1>4, <2>1, BlockType, AppendBlock DEF AppendLands
    <2>3. [call[p][t] EXCEPT !.pc = "landed", !.at = Len(log) + 1] \in Calls
      <3>1. Len(log) + 1 \in Nat
        BY LogType
      <3>2. QED
        BY <1>0, <3>1 DEF Calls
    <2>4. call' \in [Replicas -> [Threads -> Calls]]
      BY <1>4, <2>3, MovesOne DEF AppendLands
    <2>5. scan' \in [Replicas -> [todo : SUBSET Days, last : 0..Len(log')]]
      BY <1>4, <2>2 DEF AppendLands, TypeOK
    <2>6. QED
      BY <1>4, <2>2, <2>4, <2>5 DEF AppendLands, TypeOK
  <1>5. CASE AppendStale(p, t)
    <2>1. offset' \in [Replicas -> [Days -> Nat]]
      BY <1>0, <1>5, Update2 DEF AppendStale, TypeOK, Calls
    <2>2. [call[p][t] EXCEPT !.pc = "stale"] \in Calls
      BY <1>0 DEF Calls
    <2>3. call' \in [Replicas -> [Threads -> Calls]]
      BY <1>5, <2>2, MovesOne DEF AppendStale
    <2>4. QED
      BY <1>5, <2>1, <2>3 DEF AppendStale, TypeOK, storage
  <1>6. CASE AppendFails(p, t)
    BY <1>6, LeaveOne DEF AppendFails, TypeOK, storage
  <1>7. CASE AppendTimesOut(p, t)
    <2>1. Expected(p, t) \in Nat
      BY <1>0 DEF Expected, TypeOK, Calls
    <2>2. flight' \in SUBSET [rec : Calls, expected : Nat]
      BY <1>0, <1>7, <2>1 DEF AppendTimesOut, TypeOK
    <2>3. spent' \in Budget
      BY <1>7, SpendType DEF AppendTimesOut
    <2>4. QED
      BY <1>7, <2>2, <2>3, LeaveOne DEF AppendTimesOut, TypeOK
  <1>8. CASE AnswerLost(p, t)
    <2>1. spent' \in Budget
      BY <1>8, SpendType DEF AnswerLost
    <2>2. QED
      BY <1>8, <2>1, LeaveOne DEF AnswerLost, TypeOK, storage
  <1>9. CASE AppendAnswered(p, t)
    <2>1. offset' \in [Replicas -> [Days -> Nat]]
      <3>1. PICK known \in {call[p][t].at, 0} :
               offset' = [offset EXCEPT ![p][call[p][t].day] = known]
        BY <1>9 DEF AppendAnswered
      <3>2. QED
        <4>1. known \in Nat /\ call[p][t].day \in Days
          BY <1>0 DEF Calls
        <4>2. QED
          BY <3>1, <4>1, Update2 DEF TypeOK
    <2>2. head' \in [Replicas -> [seq : Nat, prev : Nat]]
      BY <1>0, <1>9 DEF AppendAnswered, TypeOK, HeadOf, Calls
    <2>3. acked' \in SUBSET Nat
      BY <1>0, <1>9 DEF AppendAnswered, TypeOK, Calls
    <2>4. QED
      BY <1>9, <2>1, <2>2, <2>3, LeaveOne DEF AppendAnswered, TypeOK, storage
  <1>10. CASE Relist(p, t)
    <2>1. [call[p][t] EXCEPT !.pc = "rereading"] \in Calls
      BY <1>0 DEF Calls
    <2>2. call' \in [Replicas -> [Threads -> Calls]]
      BY <1>10, <2>1, MovesOne DEF Relist
    <2>3. scan' \in [Replicas -> [todo : SUBSET Days, last : 0..Len(log)]]
      BY <1>10 DEF Relist, Listing, TypeOK
    <2>4. QED
      BY <1>10, <2>2, <2>3 DEF Relist, TypeOK, storage
  <1>11. CASE Rebuild(p, t)
    <2>1. ReadHead(p) \in [seq : Nat, prev : Nat]
      BY ReadHeadType
    <2>2. head' \in [Replicas -> [seq : Nat, prev : Nat]]
      BY <1>11, <2>1 DEF Rebuild, TypeOK
    <2>3. scan' \in [Replicas -> [todo : SUBSET Days, last : 0..Len(log)]]
      BY <1>11 DEF Rebuild, NoScan, TypeOK
    <2>4. CASE call[p][t].attempt < RebuildAttempts
      <3>1. Built(ReadHead(p), call[p][t].ev, call[p][t].attempt + 1) \in Calls
        <4>1. call[p][t].ev \in Nat /\ call[p][t].attempt + 1 \in 0..RebuildAttempts
          BY <1>0, <2>4, TrailAssumption DEF Calls
        <4>2. QED
          BY <2>1, <4>1, BuiltType
      <3>2. call' \in [Replicas -> [Threads -> Calls]]
        BY <1>11, <2>4, <3>1, MovesOne DEF Rebuild
      <3>3. QED
        BY <1>11, <2>2, <2>3, <2>4, <3>2 DEF Rebuild, TypeOK, storage
    <2>5. CASE ~(call[p][t].attempt < RebuildAttempts)
      BY <1>11, <2>2, <2>3, <2>5, LeaveOne DEF Rebuild, TypeOK, storage
    <2>6. QED
      BY <2>4, <2>5
  <1>12. CASE RereadFails(p, t)
    <2>1. scan' \in [Replicas -> [todo : SUBSET Days, last : 0..Len(log)]]
      BY <1>12 DEF RereadFails, NoScan, TypeOK
    <2>2. QED
      BY <1>12, <2>1, LeaveOne DEF RereadFails, TypeOK, storage
  <1>13. QED
    BY <1>1, <1>2, <1>3, <1>4, <1>5, <1>6, <1>7, <1>8, <1>9, <1>10, <1>11, <1>12
       DEF CallStep

LEMMA TypeReplicaStep ==
  ASSUME TypeOK, NEW p \in Replicas, ReplicaStep(p)
  PROVE  TypeOK'
  <1>1. CASE Start(p)
    <2>1. scan' \in [Replicas -> [todo : SUBSET Days, last : 0..Len(log)]]
      BY <1>1, LogType DEF Start, Listing, TypeOK
    <2>2. QED
      BY <1>1, <2>1 DEF Start, TypeOK, storage
  <1>2. CASE FetchBlob(p)
    <2>1. PICK d \in scan[p].todo, i \in 0..Len(log) :
             /\ scan' = [scan EXCEPT ![p] = [todo |-> @.todo \ {d}, last |-> i]]
             /\ UNCHANGED <<storage, today, up, head, lock, created, offset, call,
                            calls, acked, spent>>
      BY <1>2 DEF FetchBlob
    <2>2. scan' \in [Replicas -> [todo : SUBSET Days, last : 0..Len(log)]]
      BY <2>1 DEF TypeOK
    <2>3. QED
      BY <2>1, <2>2 DEF TypeOK, storage
  <1>3. CASE StartDone(p)
    <2>1. head' \in [Replicas -> [seq : Nat, prev : Nat]]
      BY <1>3, ReadHeadType, LogType DEF StartDone, TypeOK
    <2>2. scan' \in [Replicas -> [todo : SUBSET Days, last : 0..Len(log)]]
      BY <1>3, LogType DEF StartDone, NoScan, TypeOK
    <2>3. QED
      BY <1>3, <2>1, <2>2 DEF StartDone, TypeOK, storage
  <1>4. CASE StartFails(p)
    <2>1. scan' \in [Replicas -> [todo : SUBSET Days, last : 0..Len(log)]]
      BY <1>4, LogType DEF StartFails, NoScan, TypeOK
    <2>2. QED
      BY <1>4, <2>1 DEF StartFails, TypeOK, storage
  <1>5. CASE Stop(p)
    <2>1. scan' \in [Replicas -> [todo : SUBSET Days, last : 0..Len(log)]]
      BY <1>5, LogType DEF Stop, NoScan, TypeOK
    <2>2. call' \in [Replicas -> [Threads -> Calls]]
      BY <1>5, IdleType DEF Stop, TypeOK
    <2>3. head' \in [Replicas -> [seq : Nat, prev : Nat]]
      BY <1>5 DEF Stop, NoHead, TypeOK
    <2>4. spent' \in Budget
      BY <1>5, SpendType DEF Stop
    <2>5. /\ offset' \in [Replicas -> [Days -> Nat]]
          /\ created' \in [Replicas -> SUBSET Days]
          /\ lock' \in [Replicas -> Threads \cup {Nobody}]
          /\ up' \in [Replicas -> {"down", "starting", "up"}]
      BY <1>5 DEF Stop, TypeOK
    <2>6. QED
      BY <1>5, <2>1, <2>2, <2>3, <2>4, <2>5 DEF Stop, TypeOK, storage
  <1>6. QED
    BY <1>1, <1>2, <1>3, <1>4, <1>5 DEF ReplicaStep

LEMMA TypeLateAppend ==
  ASSUME TypeOK, NEW f \in flight, LateAppend(f)
  PROVE  TypeOK'
  <1>1. f.rec \in Calls /\ f.expected \in Nat
    BY DEF TypeOK
  <1>2. flight' \in SUBSET [rec : Calls, expected : Nat]
    BY DEF LateAppend, TypeOK
  <1>3. log' \in Seq(Blocks) /\ Len(log) \in Nat /\ Len(log') \in {Len(log), Len(log) + 1}
    <2>1. CASE Accepts(f.expected, f.rec.day)
      BY <1>1, <2>1, BlockType, AppendBlock, LogType DEF LateAppend
    <2>2. CASE ~Accepts(f.expected, f.rec.day)
      BY <2>2, LogType DEF LateAppend, TypeOK
    <2>3. QED
      BY <2>1, <2>2
  <1>4. scan' \in [Replicas -> [todo : SUBSET Days, last : 0..Len(log')]]
    BY <1>3 DEF LateAppend, TypeOK
  <1>5. QED
    BY <1>2, <1>3, <1>4 DEF LateAppend, TypeOK

\* Every step keeps the types.
LEMMA TypeStep ==
  ASSUME TypeOK, [Next]_vars
  PROVE  TypeOK'
  <1>1. CASE \E p \in Replicas, t \in Threads : Write(p, t) \/ CallStep(p, t)
    BY <1>1, TypeCallStep
  <1>2. CASE \E p \in Replicas : ReplicaStep(p)
    BY <1>2, TypeReplicaStep
  <1>3. CASE \E f \in flight : LateAppend(f)
    BY <1>3, TypeLateAppend
  <1>4. CASE NextDay
    BY <1>4, TrailAssumption DEF NextDay, TypeOK, Days, storage
  <1>5. CASE UNCHANGED vars
    BY <1>5 DEF vars, storage, TypeOK
  <1>6. QED
    BY <1>1, <1>2, <1>3, <1>4, <1>5 DEF Next

\* Every variable has its type in every reachable state.
THEOREM TypeCorrect == Spec => []TypeOK
  <1>1. Init => TypeOK
    BY TypeInit
  <1>2. TypeOK /\ [Next]_vars => TypeOK'
    BY TypeStep
  <1>3. QED
    BY <1>1, <1>2, PTL DEF Spec

-------------------------------------------------------------------------------
(* What one step can do to the container, a head and a thread.             *)

\* Thread t of p commits its block, or the service gets to a late request.
Commits(c, e) ==
    /\ Accepts(e, c.day)
    /\ log' = Append(log, Block(c, e))

\* The container keeps its records, and gains at most one: that of a thread
\* that was sending, or that of a request in flight.
LEMMA LogMoves ==
  ASSUME TypeOK, [Next]_vars
  PROVE  \/ UNCHANGED log
         \/ \E p \in Replicas, t \in Threads :
               /\ call[p][t].pc = "built"
               /\ Commits(call[p][t], Expected(p, t))
               /\ UNCHANGED <<flight, head, scan, offset, today, calls, acked, lock>>
               /\ Moves(p, t, [call[p][t] EXCEPT !.pc = "landed", !.at = Len(log) + 1])
         \/ \E f \in flight :
               /\ Commits(f.rec, f.expected)
               /\ flight' = flight \ {f}
               /\ UNCHANGED <<call, head, scan, offset, today, calls, acked, lock>>
  <1>1. CASE \E p \in Replicas, t \in Threads : Write(p, t) \/ CallStep(p, t)
    <2>1. PICK p \in Replicas, t \in Threads : Write(p, t) \/ CallStep(p, t)
      BY <1>1
    <2>2. CASE AppendLands(p, t)
      BY <2>2 DEF AppendLands, Sending, At, Commits
    <2>3. CASE ~AppendLands(p, t)
      BY <2>1, <2>3 DEF Write, CallStep, EnsureBlob, EnsureBlobFails, AppendStale,
         AppendFails, AppendTimesOut, AnswerLost, AppendAnswered, Relist, Rebuild,
         RereadFails, storage
    <2>4. QED
      BY <2>2, <2>3
  <1>2. CASE \E p \in Replicas : ReplicaStep(p)
    BY <1>2 DEF ReplicaStep, Start, FetchBlob, StartDone, StartFails, Stop, storage
  <1>3. CASE \E f \in flight : LateAppend(f)
    <2>1. PICK f \in flight : LateAppend(f)
      BY <1>3
    <2>2. QED
      BY <2>1 DEF LateAppend, Commits
  <1>4. CASE NextDay \/ UNCHANGED vars
    BY <1>4 DEF NextDay, vars, storage
  <1>5. QED
    BY <1>1, <1>2, <1>3, <1>4 DEF Next

\* A record, once in the container, stays where it is.
LEMMA LogGrows ==
  ASSUME TypeOK, [Next]_vars
  PROVE  /\ Len(log) \in Nat /\ Len(log') \in Nat /\ Len(log) <= Len(log')
         /\ DOMAIN log = 1..Len(log) /\ DOMAIN log' = 1..Len(log')
         /\ \A i \in 1..Len(log) : log'[i] = log[i]
         /\ \A i \in 0..Len(log) : SeqAt(i)' = SeqAt(i)
  <1>1. /\ Len(log) \in Nat /\ Len(log') \in Nat /\ Len(log) <= Len(log')
        /\ DOMAIN log = 1..Len(log) /\ DOMAIN log' = 1..Len(log')
        /\ \A i \in 1..Len(log) : log'[i] = log[i]
    <2>1. CASE UNCHANGED log
      BY <2>1, LogType
    <2>2. CASE \E c \in Calls, e \in Nat : Commits(c, e)
      BY <2>2, BlockType, AppendBlock, LogType DEF Commits
    <2>3. \A p \in Replicas, t \in Threads : call[p][t] \in Calls /\ Expected(p, t) \in Nat
      <3>1. \A p \in Replicas, t \in Threads : call[p][t] \in Calls
        BY DEF TypeOK
      <3>2. \A p \in Replicas, d \in Days : offset[p][d] \in Nat
        BY DEF TypeOK
      <3>3. QED
        BY <3>1, <3>2 DEF Expected, Calls
    <2>4. \A f \in flight : f.rec \in Calls /\ f.expected \in Nat
      BY DEF TypeOK
    <2>5. QED
      BY <2>1, <2>2, <2>3, <2>4, LogMoves
  <1>2. QED
    BY <1>1 DEF SeqAt

\* A replica's cached head is kept, forgotten, read again, or moved to the
\* record a thread of it has just had answered.
LEMMA HeadMoves ==
  ASSUME TypeOK, [Next]_vars, NEW p \in Replicas
  PROVE  \/ head'[p] = head[p]
         \/ head'[p] = NoHead
         \/ head'[p] = ReadHead(p) /\ scan[p].todo = {} /\ UNCHANGED log
         \/ \E t \in Threads :
               /\ call[p][t].pc = "landed"
               /\ head'[p] = HeadOf(call[p][t])
               /\ UNCHANGED log
  <1>1. ASSUME NEW q \in Replicas, NEW t \in Threads, Write(q, t) \/ CallStep(q, t)
        PROVE  \/ head'[p] = head[p]
               \/ head'[p] = ReadHead(p) /\ scan[p].todo = {} /\ UNCHANGED log
               \/ /\ call[p][t].pc = "landed"
                  /\ head'[p] = HeadOf(call[p][t])
                  /\ UNCHANGED log
    <2>1. CASE AppendAnswered(q, t)
      BY <2>1 DEF AppendAnswered, At, TypeOK, storage
    <2>2. CASE Rebuild(q, t)
      BY <2>2 DEF Rebuild, TypeOK, storage
    <2>3. CASE ~AppendAnswered(q, t) /\ ~Rebuild(q, t)
      BY <1>1, <2>3 DEF Write, CallStep, EnsureBlob, EnsureBlobFails, AppendLands,
         AppendStale, AppendFails, AppendTimesOut, AnswerLost, Relist, RereadFails
    <2>4. QED
      BY <2>1, <2>2, <2>3
  <1>2. ASSUME NEW q \in Replicas, ReplicaStep(q)
        PROVE  \/ head'[p] = head[p]
               \/ head'[p] = NoHead
               \/ head'[p] = ReadHead(p) /\ scan[p].todo = {} /\ UNCHANGED log
    BY <1>2 DEF ReplicaStep, Start, FetchBlob, StartDone, StartFails, Stop, TypeOK,
       storage
  <1>3. ASSUME NEW f \in flight, LateAppend(f)
        PROVE  head'[p] = head[p]
    BY <1>3 DEF LateAppend
  <1>4. CASE NextDay \/ UNCHANGED vars
    BY <1>4 DEF NextDay, vars
  <1>5. QED
    BY <1>1, <1>2, <1>3, <1>4 DEF Next

\* What a step can make of thread t of replica p, and what else it then leaves.
Enters(p, t) ==
    /\ call[p][t].pc = "idle"
    /\ lock[p] = Nobody
    /\ calls' = calls + 1
    /\ call'[p][t] = Built(head[p], calls + 1, 1)
    /\ UNCHANGED <<log, flight, offset, head, today>>

Lands(p, t) ==
    /\ call[p][t].pc = "built"
    /\ Commits(call[p][t], Expected(p, t))
    /\ call'[p][t] = [call[p][t] EXCEPT !.pc = "landed", !.at = Len(log) + 1]
    /\ UNCHANGED <<flight, calls, offset>>

IsRefused(p, t) ==
    /\ call[p][t].pc = "built"
    /\ ~Accepts(Expected(p, t), call[p][t].day)
    /\ call'[p][t] = [call[p][t] EXCEPT !.pc = "stale"]
    /\ offset' = [offset EXCEPT ![p][call[p][t].day] = 0]
    /\ UNCHANGED <<log, flight, calls, today>>

Rereads(p, t) ==
    /\ call[p][t].pc = "stale"
    /\ call'[p][t] = [call[p][t] EXCEPT !.pc = "rereading"]
    /\ UNCHANGED <<log, flight, calls, offset, today>>

Rebuilds(p, t) ==
    /\ call[p][t].pc = "rereading"
    /\ scan[p].todo = {}
    /\ call[p][t].attempt < RebuildAttempts
    /\ call'[p][t] = Built(ReadHead(p), call[p][t].ev, call[p][t].attempt + 1)
    /\ head'[p] = ReadHead(p)
    /\ UNCHANGED <<log, flight, calls, offset, today>>

ThreadMoves(p, t) ==
    \/ call'[p][t] = call[p][t]
    \/ call'[p][t] = Idle
    \/ Enters(p, t)
    \/ Lands(p, t)
    \/ IsRefused(p, t)
    \/ Rereads(p, t)
    \/ Rebuilds(p, t)

\* A thread stays where it is, leaves write(), enters it, or goes one step on.
LEMMA CallMoves ==
  ASSUME TypeOK, [Next]_vars, NEW p \in Replicas, NEW t \in Threads
  PROVE  ThreadMoves(p, t)
  <1>0. /\ call \in [Replicas -> [Threads -> Calls]]
        /\ head \in [Replicas -> [seq : Nat, prev : Nat]]
    BY DEF TypeOK
  <1>1. ASSUME NEW q \in Replicas, NEW u \in Threads, NEW c, Moves(q, u, c)
        PROVE  call'[p][t] = IF p = q /\ t = u THEN c ELSE call[p][t]
    BY <1>0, <1>1 DEF Moves
  <1>2. ASSUME NEW q \in Replicas, NEW u \in Threads, Write(q, u) \/ CallStep(q, u)
        PROVE  ThreadMoves(p, t)
    <2>1. CASE Write(q, u)
      BY <1>1, <2>1 DEF Write, At, storage, ThreadMoves, Enters
    <2>2. CASE EnsureBlob(q, u)
      BY <2>2 DEF EnsureBlob, ThreadMoves
    <2>3. CASE EnsureBlobFails(q, u)
      BY <1>1, <2>3 DEF EnsureBlobFails, Leave, ThreadMoves
    <2>4. CASE AppendLands(q, u)
      BY <1>1, <2>4 DEF AppendLands, Sending, At, Commits, ThreadMoves, Lands
    <2>5. CASE AppendStale(q, u)
      BY <1>1, <2>5 DEF AppendStale, Sending, At, storage, ThreadMoves, IsRefused
    <2>6. CASE AppendFails(q, u)
      BY <1>1, <2>6 DEF AppendFails, Leave, ThreadMoves
    <2>7. CASE AppendTimesOut(q, u)
      BY <1>1, <2>7 DEF AppendTimesOut, Leave, ThreadMoves
    <2>8. CASE AnswerLost(q, u)
      BY <1>1, <2>8 DEF AnswerLost, Leave, ThreadMoves
    <2>9. CASE AppendAnswered(q, u)
      BY <1>1, <2>9 DEF AppendAnswered, Leave, ThreadMoves
    <2>10. CASE Relist(q, u)
      BY <1>1, <2>10 DEF Relist, At, storage, ThreadMoves, Rereads
    <2>11. CASE Rebuild(q, u)
      <3>1. CASE call[q][u].attempt < RebuildAttempts
        BY <1>0, <1>1, <2>11, <3>1 DEF Rebuild, At, storage, ThreadMoves, Rebuilds
      <3>2. CASE ~(call[q][u].attempt < RebuildAttempts)
        BY <1>1, <2>11, <3>2 DEF Rebuild, Leave, ThreadMoves
      <3>3. QED
        BY <3>1, <3>2
    <2>12. CASE RereadFails(q, u)
      BY <1>1, <2>12 DEF RereadFails, Leave, ThreadMoves
    <2>13. QED
      BY <1>2, <2>1, <2>2, <2>3, <2>4, <2>5, <2>6, <2>7, <2>8, <2>9, <2>10, <2>11,
         <2>12 DEF CallStep
  <1>3. ASSUME NEW q \in Replicas, ReplicaStep(q)
        PROVE  ThreadMoves(p, t)
    BY <1>0, <1>3 DEF ReplicaStep, Start, FetchBlob, StartDone, StartFails, Stop, ThreadMoves
  <1>4. ASSUME NEW f \in flight, LateAppend(f)
        PROVE  ThreadMoves(p, t)
    BY <1>4 DEF LateAppend, ThreadMoves
  <1>5. CASE NextDay \/ UNCHANGED vars
    BY <1>5 DEF NextDay, vars, ThreadMoves
  <1>6. QED
    BY <1>2, <1>3, <1>4, <1>5 DEF Next

\* A request in flight was there before, or is that of a thread that was
\* sending, gave up in this step, and left nothing in the container.
LEMMA FlightMoves ==
  ASSUME TypeOK, [Next]_vars, NEW f \in flight'
  PROVE  \/ f \in flight
         \/ \E p \in Replicas, t \in Threads :
               /\ call[p][t].pc = "built"
               /\ f = [rec |-> call[p][t], expected |-> Expected(p, t)]
               /\ call'[p][t] = Idle
               /\ UNCHANGED <<log, calls>>
  <1>1. ASSUME NEW q \in Replicas, NEW u \in Threads, Write(q, u) \/ CallStep(q, u)
        PROVE  \/ f \in flight
               \/ /\ call[q][u].pc = "built"
                  /\ f = [rec |-> call[q][u], expected |-> Expected(q, u)]
                  /\ call'[q][u] = Idle
                  /\ UNCHANGED <<log, calls>>
    <2>1. CASE AppendTimesOut(q, u)
      BY <2>1, LeaveOne DEF AppendTimesOut, Sending, At
    <2>2. CASE ~AppendTimesOut(q, u)
      BY <1>1, <2>2 DEF Write, CallStep, EnsureBlob, EnsureBlobFails, AppendLands,
         AppendStale, AppendFails, AnswerLost, AppendAnswered, Relist, Rebuild,
         RereadFails, storage
    <2>3. QED
      BY <2>1, <2>2
  <1>2. ASSUME NEW q \in Replicas, ReplicaStep(q)
        PROVE  f \in flight
    BY <1>2 DEF ReplicaStep, Start, FetchBlob, StartDone, StartFails, Stop, storage
  <1>3. ASSUME NEW g \in flight, LateAppend(g)
        PROVE  f \in flight
    BY <1>3 DEF LateAppend
  <1>4. CASE NextDay \/ UNCHANGED vars
    BY <1>4 DEF NextDay, vars, storage
  <1>5. QED
    BY <1>1, <1>2, <1>3, <1>4 DEF Next

\* A call newly acknowledged is that of a thread whose block was committed.
LEMMA AckedMoves ==
  ASSUME TypeOK, [Next]_vars, NEW e \in acked'
  PROVE  \/ e \in acked
         \/ \E p \in Replicas, t \in Threads :
               call[p][t].pc = "landed" /\ e = call[p][t].ev
  <1>1. ASSUME NEW q \in Replicas, NEW u \in Threads, Write(q, u) \/ CallStep(q, u)
        PROVE  e \in acked \/ (call[q][u].pc = "landed" /\ e = call[q][u].ev)
    <2>1. CASE AppendAnswered(q, u)
      BY <2>1 DEF AppendAnswered, At
    <2>2. CASE ~AppendAnswered(q, u)
      BY <1>1, <2>2 DEF Write, CallStep, EnsureBlob, EnsureBlobFails, AppendLands,
         AppendStale, AppendFails, AppendTimesOut, AnswerLost, Relist, Rebuild,
         RereadFails
    <2>3. QED
      BY <2>1, <2>2
  <1>2. ASSUME NEW q \in Replicas, ReplicaStep(q)
        PROVE  e \in acked
    BY <1>2 DEF ReplicaStep, Start, FetchBlob, StartDone, StartFails, Stop
  <1>3. ASSUME NEW g \in flight, LateAppend(g)
        PROVE  e \in acked
    BY <1>3 DEF LateAppend
  <1>4. CASE NextDay \/ UNCHANGED vars
    BY <1>4 DEF NextDay, vars
  <1>5. QED
    BY <1>1, <1>2, <1>3, <1>4 DEF Next

-------------------------------------------------------------------------------
(* Every record is rooted in the container.                                *)

\* c is to be chained to a record of the container, or to the genesis hash.
OnRecord(c) == c.prev \in 0..Len(log) /\ c.seq = SeqAt(c.prev) + 1

\* The strengthening of Rooted: whatever a record may yet be built on, or is
\* being built on, is in the container.
RootedInv ==
    /\ Rooted
    /\ \A p \in Replicas :
          head[p].prev \in 0..Len(log) /\ head[p].seq = SeqAt(head[p].prev)
    /\ \A p \in Replicas, t \in Threads :
          /\ call[p][t].pc # "idle" => OnRecord(call[p][t])
          /\ call[p][t].pc = "landed" =>
                /\ call[p][t].at \in 1..Len(log)
                /\ log[call[p][t].at].seq = call[p][t].seq
                /\ log[call[p][t].at].ev = call[p][t].ev
    /\ \A f \in flight : OnRecord(f.rec)

LEMMA RootedInit == Init => RootedInv
  BY DEF Init, RootedInv, Rooted, NoHead, Idle, SeqAt

LEMMA RootedStep ==
  ASSUME TypeOK, RootedInv, [Next]_vars
  PROVE  RootedInv'
  <1>0. TypeOK'
    BY TypeStep
  <1>1. ASSUME NEW c, OnRecord(c)
        PROVE  OnRecord(c)'
    BY <1>1, LogGrows DEF OnRecord
  <1>2. Rooted'
    <2>1. ASSUME NEW c \in Calls, NEW e \in Nat, OnRecord(c), Commits(c, e)
          PROVE  Rooted'
      <3>1. /\ Len(log') = Len(log) + 1
            /\ log'[Len(log) + 1] = Block(c, e)
        BY <2>1, BlockType, AppendBlock DEF Commits
      <3>2. c.prev \in 0..Len(log) /\ SeqAt(c.prev)' = SeqAt(c.prev)
        BY <2>1, LogGrows DEF OnRecord
      <3>3. ASSUME NEW i \in DOMAIN log'
            PROVE  /\ log'[i].prev \in 0..(i - 1)
                   /\ log'[i].seq = SeqAt(log[i].prev)' + 1
        <4>1. CASE i = Len(log) + 1
          BY <2>1, <3>1, <3>2, <4>1, LogGrows DEF OnRecord, Block
        <4>2. CASE i # Len(log) + 1
          <5>1. i \in DOMAIN log /\ log'[i] = log[i]
            BY <3>1, <3>3, <4>2, LogGrows
          <5>2. /\ log[i].prev \in 0..(i - 1)
                /\ log[i].seq = SeqAt(log[i].prev) + 1
            BY <5>1 DEF RootedInv, Rooted
          <5>3. ASSUME NEW k \in 0..Len(log)
                PROVE  SeqAt(k)' = SeqAt(k)
            BY LogGrows
          <5>4. log[i].prev \in 0..Len(log)
            BY <5>1, <5>2, LogGrows
          <5>5. QED
            BY <5>1, <5>2, <5>3, <5>4 DEF SeqAt
        <4>3. QED
          BY <4>1, <4>2
      <3>4. QED
        BY <3>3 DEF Rooted
    <2>2. CASE UNCHANGED log
      BY <2>2 DEF RootedInv, Rooted, SeqAt
    <2>3. ASSUME NEW p \in Replicas, NEW t \in Threads, call[p][t].pc = "built",
                 Commits(call[p][t], Expected(p, t))
          PROVE  Rooted'
      <3>1. call[p][t] \in Calls /\ Expected(p, t) \in Nat
        BY DEF TypeOK, Expected, Calls
      <3>2. QED
        BY <2>1, <2>3, <3>1 DEF RootedInv
    <2>4. ASSUME NEW f \in flight, Commits(f.rec, f.expected)
          PROVE  Rooted'
      BY <2>1, <2>4 DEF RootedInv, TypeOK
    <2>5. QED
      BY <2>2, <2>3, <2>4, LogMoves
  <1>3. ASSUME NEW p \in Replicas
        PROVE  head'[p].prev \in 0..Len(log') /\ head'[p].seq = SeqAt(head[p].prev)'
    <2>1. CASE head'[p] = head[p]
      BY <2>1, LogGrows DEF RootedInv
    <2>2. CASE head'[p] = NoHead
      BY <2>2, LogGrows DEF NoHead, SeqAt
    <2>3. CASE head'[p] = ReadHead(p) /\ UNCHANGED log
      BY <2>3, ReadHeadType, LogGrows DEF ReadHead, TypeOK
    <2>4. CASE \E t \in Threads : /\ call[p][t].pc = "landed"
                                  /\ head'[p] = HeadOf(call[p][t])
                                  /\ UNCHANGED log
      BY <2>4, LogGrows DEF RootedInv, HeadOf, SeqAt
    <2>5. QED
      BY <2>1, <2>2, <2>3, <2>4, HeadMoves
  <1>4. ASSUME NEW p \in Replicas, NEW t \in Threads
        PROVE  /\ call'[p][t].pc # "idle" => OnRecord(call[p][t])'
               /\ call'[p][t].pc = "landed" =>
                     /\ call'[p][t].at \in 1..Len(log')
                     /\ log'[call'[p][t].at].seq = call'[p][t].seq
                     /\ log'[call'[p][t].at].ev = call'[p][t].ev
    <2>0. call[p][t] \in Calls
      BY DEF TypeOK
    <2>1. CASE call'[p][t] = call[p][t]
      BY <1>1, <2>1, LogGrows DEF RootedInv, OnRecord
    <2>2. CASE call'[p][t] = Idle
      BY <2>2 DEF Idle
    <2>3. CASE Enters(p, t)
      BY <2>3 DEF Enters, Built, RootedInv, OnRecord, SeqAt
    <2>4. CASE Lands(p, t)
      <3>1. Expected(p, t) \in Nat
        BY <2>0 DEF TypeOK, Expected, Calls
      <3>2. /\ Len(log') = Len(log) + 1
            /\ log'[Len(log) + 1] = Block(call[p][t], Expected(p, t))
        BY <2>0, <2>4, <3>1, BlockType, AppendBlock DEF Lands, Commits
      <3>3. /\ call'[p][t].pc = "landed" /\ call'[p][t].at = Len(log) + 1
            /\ call'[p][t].seq = call[p][t].seq /\ call'[p][t].ev = call[p][t].ev
            /\ call'[p][t].prev = call[p][t].prev
        BY <2>0, <2>4 DEF Lands, Calls
      <3>4. OnRecord(call[p][t])
        BY <2>4 DEF Lands, RootedInv
      <3>5. OnRecord(call[p][t])'
        BY <3>3, <3>4, LogGrows DEF OnRecord
      <3>6. QED
        BY <3>2, <3>3, <3>5, LogGrows DEF Block
    <2>5. CASE IsRefused(p, t) \/ Rereads(p, t)
      <3>1. /\ call[p][t].pc # "idle" /\ UNCHANGED log
            /\ call'[p][t].pc # "landed"
            /\ call'[p][t].prev = call[p][t].prev
            /\ call'[p][t].seq = call[p][t].seq
        BY <2>0, <2>5 DEF IsRefused, Rereads, Calls
      <3>2. QED
        BY <3>1 DEF RootedInv, OnRecord, SeqAt
    <2>6. CASE Rebuilds(p, t)
      BY <2>6, ReadHeadType DEF Rebuilds, Built, OnRecord, ReadHead, SeqAt
    <2>7. QED
      BY <2>1, <2>2, <2>3, <2>4, <2>5, <2>6, CallMoves DEF ThreadMoves
  <1>5. ASSUME NEW f \in flight'
        PROVE  OnRecord(f.rec)'
    <2>1. CASE f \in flight
      BY <1>1, <2>1 DEF RootedInv
    <2>2. CASE \E p \in Replicas, t \in Threads :
                  /\ call[p][t].pc = "built"
                  /\ f = [rec |-> call[p][t], expected |-> Expected(p, t)]
      BY <1>1, <2>2 DEF RootedInv
    <2>3. QED
      BY <2>1, <2>2, FlightMoves
  <1>6. QED
    BY <1>2, <1>3, <1>4, <1>5 DEF RootedInv

\* Every record of the container is built on an earlier one and numbered one
\* above it, whatever replicas, threads, losses and stops there are.
THEOREM RecordsAreRooted == Spec => []Rooted
  <1>1. Init => RootedInv
    BY RootedInit
  <1>2. TypeOK /\ RootedInv /\ [Next]_vars => RootedInv'
    BY RootedStep
  <1>3. RootedInv => Rooted
    BY DEF RootedInv
  <1>4. QED
    BY <1>1, <1>2, <1>3, TypeCorrect, PTL DEF Spec

-------------------------------------------------------------------------------
(* What was acknowledged is in the container.                              *)

\* A record whose write() returned is never lost from the container, whatever
\* other replicas create, append and restart (_ensure_blob, append).
THEOREM AckedAreStored == Spec => []AckedIsStored
  <1>1. Init => AckedIsStored
    BY DEF Init, AckedIsStored
  <1>2. ASSUME TypeOK, RootedInv, AckedIsStored, [Next]_vars
        PROVE  AckedIsStored'
    <2>1. ASSUME NEW e \in acked'
          PROVE  \E i \in 1..Len(log) : log[i].ev = e
      BY <1>2, <2>1, AckedMoves, LogGrows DEF AckedIsStored, RootedInv
    <2>2. QED
      BY <1>2, <2>1, LogGrows DEF AckedIsStored
  <1>3. Init => RootedInv
    BY RootedInit
  <1>4. TypeOK /\ RootedInv /\ [Next]_vars => RootedInv'
    BY RootedStep
  <1>5. QED
    BY <1>1, <1>2, <1>3, <1>4, TypeCorrect, PTL DEF Spec

-------------------------------------------------------------------------------
(* No call is recorded twice.                                              *)

\* The calls that have a record in the container.
Recorded == {log[i].ev : i \in 1..Len(log)}

Busy(p, t) == call[p][t].pc # "idle"

\* The strengthening of OneRecordPerCall: a call is in one place only, in a
\* thread, in flight, or in the container with its thread told or not.
CallsInv ==
    /\ OneRecordPerCall
    /\ Recorded \subseteq 1..calls
    /\ \A p \in Replicas, t \in Threads :
          /\ Busy(p, t) => call[p][t].ev \in 1..calls
          /\ Busy(p, t) /\ call[p][t].pc # "landed" => call[p][t].ev \notin Recorded
    /\ \A p, q \in Replicas, t, u \in Threads :
          Busy(p, t) /\ Busy(q, u) /\ call[p][t].ev = call[q][u].ev => p = q /\ t = u
    /\ \A f \in flight : f.rec.ev \in 1..calls \ Recorded
    /\ \A f \in flight, p \in Replicas, t \in Threads :
          Busy(p, t) => f.rec.ev # call[p][t].ev
    /\ \A f, g \in flight : f.rec.ev = g.rec.ev => f = g

LEMMA CallsInit == Init => CallsInv
  BY DEF Init, CallsInv, OneRecordPerCall, Recorded, Busy, Idle

\* A step gives out at most one number, to a thread that enters write().
LEMMA CallsGrow ==
  ASSUME TypeOK, [Next]_vars
  PROVE  calls \in Nat /\ calls' \in Nat /\ calls <= calls'
  <1>1. calls \in Nat
    BY TrailAssumption DEF TypeOK
  <1>2. ASSUME NEW p \in Replicas, NEW t \in Threads, Write(p, t) \/ CallStep(p, t)
        PROVE  calls' \in {calls, calls + 1}
    BY <1>2 DEF Write, CallStep, EnsureBlob, EnsureBlobFails, AppendLands, AppendStale,
       AppendFails, AppendTimesOut, AnswerLost, AppendAnswered, Relist, Rebuild,
       RereadFails
  <1>3. \/ UNCHANGED calls
        \/ \E p \in Replicas, t \in Threads : Write(p, t) \/ CallStep(p, t)
    BY DEF Next, ReplicaStep, Start, FetchBlob, StartDone, StartFails, Stop, LateAppend,
       NextDay, vars
  <1>4. QED
    BY <1>1, <1>2, <1>3

\* Of two threads, one stays where it is or becomes idle.
LEMMA OneThreadMoves ==
  ASSUME TypeOK, [Next]_vars, NEW p \in Replicas, NEW t \in Threads,
         NEW q \in Replicas, NEW u \in Threads, ~(p = q /\ t = u)
  PROVE  call'[p][t] \in {call[p][t], Idle} \/ call'[q][u] \in {call[q][u], Idle}
  <1>0. call \in [Replicas -> [Threads -> Calls]]
    BY DEF TypeOK
  <1>1. ASSUME NEW r \in Replicas, NEW v \in Threads, NEW c, Moves(r, v, c)
        PROVE  \/ call'[p][t] \in {call[p][t], Idle}
               \/ call'[q][u] \in {call[q][u], Idle}
    BY <1>0, <1>1 DEF Moves
  <1>2. ASSUME NEW r \in Replicas, NEW v \in Threads, Write(r, v) \/ CallStep(r, v)
        PROVE  UNCHANGED call \/ \E c : Moves(r, v, c)
    BY <1>2 DEF Write, CallStep, EnsureBlob, EnsureBlobFails, AppendLands, AppendStale,
       AppendFails, AppendTimesOut, AnswerLost, AppendAnswered, Relist, Rebuild,
       RereadFails, Leave
  <1>3. ASSUME NEW r \in Replicas, ReplicaStep(r)
        PROVE  call'[p][t] \in {call[p][t], Idle}
    BY <1>0, <1>3 DEF ReplicaStep, Start, FetchBlob, StartDone, StartFails, Stop
  <1>4. CASE \E f \in flight : LateAppend(f)
    BY <1>4 DEF LateAppend
  <1>5. CASE NextDay \/ UNCHANGED vars
    BY <1>5 DEF NextDay, vars
  <1>6. QED
    BY <1>1, <1>2, <1>3, <1>4, <1>5 DEF Next

\* A thread that is busy after a step was busy with the same call before it, and
\* is told of a record only when it is committed; or it has just been given the
\* next number.
LEMMA BusyMoves ==
  ASSUME TypeOK, [Next]_vars, NEW p \in Replicas, NEW t \in Threads, Busy(p, t)'
  PROVE  \/ /\ Busy(p, t)
            /\ call'[p][t].ev = call[p][t].ev
            /\ call'[p][t].pc # "landed" => call[p][t].pc # "landed"
         \/ calls' = calls + 1 /\ call'[p][t].ev = calls + 1 /\ UNCHANGED <<log, flight>>
  <1>1. call[p][t] \in Calls
    BY DEF TypeOK
  <1>2. ThreadMoves(p, t)
    BY CallMoves
  <1>3. CASE Enters(p, t)
    BY <1>3 DEF Enters, Built
  <1>4. CASE Rebuilds(p, t)
    BY <1>4 DEF Rebuilds, Built, Busy
  <1>5. CASE Lands(p, t) \/ IsRefused(p, t) \/ Rereads(p, t)
    BY <1>1, <1>5 DEF Lands, IsRefused, Rereads, Busy, Calls
  <1>6. QED
    BY <1>2, <1>3, <1>4, <1>5 DEF ThreadMoves, Busy, Idle

\* A block of a call that had no record leaves one record for each call.
LEMMA CommitKept ==
  ASSUME TypeOK, OneRecordPerCall, NEW c \in Calls, NEW x \in Nat, Commits(c, x),
         c.ev \notin Recorded
  PROVE  OneRecordPerCall' /\ Recorded' = Recorded \cup {c.ev}
  <1>1. /\ Len(log) \in Nat /\ DOMAIN log = 1..Len(log)
        /\ Len(log') = Len(log) + 1 /\ DOMAIN log' = 1..(Len(log) + 1)
        /\ \A i \in 1..Len(log) : log'[i] = log[i]
        /\ log'[Len(log) + 1].ev = c.ev
    BY BlockType, AppendBlock, LogType DEF Commits, Block
  <1>2. \A i \in DOMAIN log' : i \in 1..Len(log) \/ i = Len(log) + 1
    BY <1>1
  <1>3. \A i \in 1..Len(log) : log[i].ev # c.ev
    BY DEF Recorded
  <1>4. OneRecordPerCall'
    BY <1>1, <1>2, <1>3 DEF OneRecordPerCall
  <1>5. Recorded' = Recorded \cup {c.ev}
    BY <1>1, <1>2 DEF Recorded
  <1>6. QED
    BY <1>4, <1>5

\* Where every call is, before a step.
LEMMA CallsTyped ==
  ASSUME TypeOK
  PROVE  /\ \A p \in Replicas, t \in Threads : call[p][t] \in Calls
         /\ \A p \in Replicas, t \in Threads : call[p][t].pc = "built" => Busy(p, t)
         /\ \A p \in Replicas, t \in Threads : Expected(p, t) \in Nat
         /\ \A f \in flight : f.rec \in Calls /\ f.expected \in Nat
  <1>1. \A p \in Replicas, t \in Threads : call[p][t] \in Calls
    BY DEF TypeOK
  <1>2. \A p \in Replicas, t \in Threads : Expected(p, t) \in Nat
    BY <1>1 DEF TypeOK, Expected, Calls
  <1>3. QED
    BY <1>1, <1>2 DEF TypeOK, Busy

\* A thread's block is committed.
LEMMA CallsLand ==
  ASSUME TypeOK, CallsInv, NEW p \in Replicas, NEW t \in Threads,
         call[p][t].pc = "built", Commits(call[p][t], Expected(p, t)),
         UNCHANGED <<flight, calls>>,
         Moves(p, t, [call[p][t] EXCEPT !.pc = "landed", !.at = Len(log) + 1])
  PROVE  CallsInv'
  <1>1. Busy(p, t) /\ call[p][t].ev \in 1..calls /\ call[p][t].ev \notin Recorded
    BY DEF CallsInv, Busy
  <1>2. OneRecordPerCall' /\ Recorded' = Recorded \cup {call[p][t].ev}
    BY <1>1, CallsTyped, CommitKept DEF CallsInv
  <1>3. call'[p][t].pc = "landed" /\ call'[p][t].ev = call[p][t].ev
    BY CallsTyped DEF Moves, TypeOK, Calls
  <1>4. ASSUME NEW q \in Replicas, NEW u \in Threads, ~(q = p /\ u = t)
        PROVE  call'[q][u] = call[q][u]
    BY <1>4 DEF Moves, TypeOK
  <1>5. ASSUME NEW q \in Replicas, NEW u \in Threads, Busy(q, u)'
        PROVE  Busy(q, u) /\ call'[q][u].ev = call[q][u].ev
    BY <1>1, <1>3, <1>4, <1>5 DEF Busy
  <1>6. ASSUME NEW q \in Replicas, NEW u \in Threads, Busy(q, u)',
               call'[q][u].pc # "landed"
        PROVE  call'[q][u].ev \notin Recorded'
    <2>1. ~(q = p /\ u = t)
      BY <1>3, <1>6
    <2>2. call'[q][u] = call[q][u]
      BY <1>4, <2>1
    <2>3. call[q][u].ev # call[p][t].ev
      BY <1>1, <1>5, <1>6, <2>1 DEF CallsInv
    <2>4. call[q][u].ev \notin Recorded
      BY <1>5, <1>6, <2>2 DEF CallsInv
    <2>5. QED
      BY <1>2, <2>2, <2>3, <2>4
  <1>7. \A f \in flight' : f.rec.ev \in 1..calls' \ Recorded'
    BY <1>1, <1>2 DEF CallsInv
  <1>8. QED
    BY <1>1, <1>2, <1>5, <1>6, <1>7 DEF CallsInv

\* The service gets to a request in flight and commits its block.
LEMMA CallsLandLate ==
  ASSUME TypeOK, CallsInv, NEW f \in flight, Commits(f.rec, f.expected),
         flight' = flight \ {f}, UNCHANGED <<call, calls>>
  PROVE  CallsInv'
  <1>1. f.rec.ev \in 1..calls /\ f.rec.ev \notin Recorded
    BY DEF CallsInv
  <1>2. OneRecordPerCall' /\ Recorded' = Recorded \cup {f.rec.ev}
    BY <1>1, CallsTyped, CommitKept DEF CallsInv
  <1>3. \A p \in Replicas, t \in Threads :
           Busy(p, t) /\ call[p][t].pc # "landed" => call[p][t].ev \notin Recorded'
    BY <1>2 DEF CallsInv
  <1>4. \A g \in flight' : g.rec.ev \in 1..calls' \ Recorded'
    BY <1>2 DEF CallsInv
  <1>5. \A p \in Replicas, t \in Threads : Busy(p, t)' <=> Busy(p, t)
    BY DEF Busy
  <1>6. \A p \in Replicas, t \in Threads :
           Busy(p, t)' => /\ call'[p][t].ev \in 1..calls'
                          /\ call'[p][t].pc # "landed" => call'[p][t].ev \notin Recorded'
    BY <1>3, <1>5 DEF CallsInv
  <1>7. /\ \A p, q \in Replicas, t, u \in Threads :
              Busy(p, t)' /\ Busy(q, u)' /\ call'[p][t].ev = call'[q][u].ev => p = q /\ t = u
        /\ \A g \in flight', p \in Replicas, t \in Threads :
              Busy(p, t)' => g.rec.ev # call'[p][t].ev
        /\ \A g, h \in flight' : g.rec.ev = h.rec.ev => g = h
    BY <1>5 DEF CallsInv
  <1>8. QED
    BY <1>1, <1>2, <1>4, <1>6, <1>7 DEF CallsInv

\* A step that commits nothing: numbers are given out, threads go on or give up.
LEMMA CallsQuiet ==
  ASSUME TypeOK, CallsInv, [Next]_vars, UNCHANGED log
  PROVE  CallsInv'
  <1>0. calls \in Nat /\ calls' \in Nat /\ calls <= calls'
    BY CallsGrow
  <1>1. Recorded' = Recorded
    BY DEF Recorded
  <1>2. OneRecordPerCall' /\ Recorded' \subseteq 1..calls' /\ calls + 1 \notin Recorded
    BY <1>0, <1>1 DEF CallsInv, OneRecordPerCall
  <1>3. ASSUME NEW p \in Replicas, NEW t \in Threads, Busy(p, t)'
        PROVE  /\ call'[p][t].ev \in 1..calls'
               /\ call'[p][t].pc # "landed" => call'[p][t].ev \notin Recorded'
    <2>1. CASE /\ Busy(p, t)
               /\ call'[p][t].ev = call[p][t].ev
               /\ call'[p][t].pc # "landed" => call[p][t].pc # "landed"
      <3>1. /\ call[p][t].ev \in 1..calls
            /\ call[p][t].pc # "landed" => call[p][t].ev \notin Recorded
        BY <2>1 DEF CallsInv
      <3>2. QED
        BY <1>0, <1>1, <2>1, <3>1
    <2>2. CASE calls' = calls + 1 /\ call'[p][t].ev = calls + 1
      BY <1>0, <1>1, <1>2, <2>2
    <2>3. QED
      BY <1>3, <2>1, <2>2, BusyMoves
  <1>4. ASSUME NEW p \in Replicas, NEW t \in Threads, NEW q \in Replicas, NEW u \in Threads,
               Busy(p, t)', Busy(q, u)', ~(p = q /\ t = u),
               call'[p][t] \in {call[p][t], Idle}
        PROVE  call'[p][t].ev # call'[q][u].ev
    <2>1. Busy(p, t) /\ call'[p][t] = call[p][t]
      BY <1>4 DEF Busy, Idle
    <2>2. CASE Busy(q, u) /\ call'[q][u].ev = call[q][u].ev
      BY <1>4, <2>1, <2>2 DEF CallsInv
    <2>3. CASE call'[q][u].ev = calls + 1
      BY <1>0, <2>1, <2>3 DEF CallsInv
    <2>4. QED
      BY <1>4, <2>2, <2>3, BusyMoves
  <1>5. \A p, q \in Replicas, t, u \in Threads :
           Busy(p, t)' /\ Busy(q, u)' /\ call'[p][t].ev = call'[q][u].ev => p = q /\ t = u
    BY <1>4, OneThreadMoves
  <1>6. ASSUME NEW f \in flight'
        PROVE  /\ f.rec.ev \in 1..calls' \ Recorded'
               /\ \A q \in Replicas, u \in Threads : Busy(q, u)' => f.rec.ev # call'[q][u].ev
    <2>1. CASE f \in flight
      <3>1. f.rec.ev \in 1..calls \ Recorded
        BY <2>1 DEF CallsInv
      <3>2. ASSUME NEW q \in Replicas, NEW u \in Threads, Busy(q, u)'
            PROVE  f.rec.ev # call'[q][u].ev
        BY <1>0, <2>1, <3>1, <3>2, BusyMoves DEF CallsInv
      <3>3. QED
        BY <1>0, <1>1, <3>1, <3>2
    <2>2. CASE \E p \in Replicas, t \in Threads :
                  /\ call[p][t].pc = "built"
                  /\ f = [rec |-> call[p][t], expected |-> Expected(p, t)]
                  /\ call'[p][t] = Idle
                  /\ UNCHANGED <<log, calls>>
      <3>1. PICK p \in Replicas, t \in Threads :
                  /\ call[p][t].pc = "built"
                  /\ f = [rec |-> call[p][t], expected |-> Expected(p, t)]
                  /\ call'[p][t] = Idle
                  /\ UNCHANGED <<log, calls>>
        BY <2>2
      <3>2. Busy(p, t) /\ ~Busy(p, t)' /\ f.rec.ev = call[p][t].ev
        BY <3>1 DEF Busy, Idle
      <3>3. f.rec.ev \in 1..calls \ Recorded
        BY <3>1, <3>2 DEF CallsInv
      <3>4. ASSUME NEW q \in Replicas, NEW u \in Threads, Busy(q, u)'
            PROVE  f.rec.ev # call'[q][u].ev
        <4>1. Busy(q, u) /\ call'[q][u].ev = call[q][u].ev
          BY <1>0, <3>1, <3>4, BusyMoves
        <4>2. ~(q = p /\ u = t)
          BY <3>2, <3>4
        <4>3. QED
          BY <3>2, <4>1, <4>2 DEF CallsInv
      <3>5. QED
        BY <1>0, <1>1, <3>3, <3>4
    <2>3. QED
      BY <2>1, <2>2, FlightMoves
  <1>7. ASSUME NEW f \in flight', NEW g \in flight', f.rec.ev = g.rec.ev
        PROVE  f = g
    <2> DEFINE GaveUp(h, p, t) == /\ call[p][t].pc = "built"
                                  /\ h = [rec |-> call[p][t], expected |-> Expected(p, t)]
    <2>1. \A h \in flight' :
             h \in flight \/ \E p \in Replicas, t \in Threads : GaveUp(h, p, t)
      BY FlightMoves
    <2>2. \A h \in flight, p \in Replicas, t \in Threads :
             call[p][t].pc = "built" => h.rec.ev # call[p][t].ev
      BY CallsTyped DEF CallsInv
    <2>3. ASSUME NEW p \in Replicas, NEW q \in Replicas, NEW t \in Threads, NEW u \in Threads,
                 call[p][t].pc = "built", call[q][u].pc = "built",
                 call[p][t].ev = call[q][u].ev
          PROVE  p = q /\ t = u
      <3>1. Busy(p, t) /\ Busy(q, u)
        BY <2>3, CallsTyped
      <3>2. QED
        BY <2>3, <3>1 DEF CallsInv
    <2>4. CASE f \in flight /\ g \in flight
      BY <1>7, <2>4 DEF CallsInv
    <2>5. CASE f \in flight <=> g \notin flight
      BY <1>7, <2>1, <2>2, <2>5
    <2>6. CASE f \notin flight /\ g \notin flight
      BY <1>7, <2>1, <2>3, <2>6
    <2>7. QED
      BY <2>4, <2>5, <2>6
  <1>8. QED
    BY <1>2, <1>3, <1>5, <1>6, <1>7 DEF CallsInv

LEMMA CallsStep ==
  ASSUME TypeOK, CallsInv, [Next]_vars
  PROVE  CallsInv'
  BY LogMoves, CallsLand, CallsLandLate, CallsQuiet

\* However often a write is rebuilt, times out or lands late, its call has one
\* record at most (trail.py: the rebuild is safe).
THEOREM RecordedOnce == Spec => []OneRecordPerCall
  <1>1. Init => CallsInv
    BY CallsInit
  <1>2. TypeOK /\ CallsInv /\ [Next]_vars => CallsInv'
    BY CallsStep
  <1>3. CallsInv => OneRecordPerCall
    BY DEF CallsInv
  <1>4. QED
    BY <1>1, <1>2, <1>3, TypeCorrect, PTL DEF Spec

-------------------------------------------------------------------------------
(* The order in which a replica writes.                                    *)

\* A running replica knows positions of days gone by only, and that of today
\* is the record its head is on.
PositionsInOrder(p) ==
    /\ up[p] # "up" => \A d \in Days : offset[p][d] = 0
    /\ \A d \in Days : offset[p][d] # 0 => d <= today
    /\ offset[p][today] # 0 => head[p].prev = offset[p][today]

\* A thread in write() holds the lock; its replica knows no position of a day
\* after that of its record, and none of that day once it was refused; if it
\* knows that one, the record is built on it.
CallInOrder(p, t) ==
    LET c == call[p][t] IN
    /\ up[p] = "up"
    /\ lock[p] = t
    /\ c.day <= today
    /\ c.attempt \in 1..2
    /\ \A d \in Days : offset[p][d] # 0 => d <= c.day
    /\ c.pc \in {"stale", "rereading"} => c.attempt = 1
    /\ c.pc \in {"stale", "rereading"} \/ c.attempt = 2 => offset[p][c.day] = 0
    /\ c.pc = "built" /\ offset[p][c.day] # 0 => c.prev = offset[p][c.day]

ReplicaInOrder(p) ==
    /\ PositionsInOrder(p)
    /\ \A t \in Threads : Busy(p, t) => CallInOrder(p, t)

\* The strengthening of RefusedAtMostOnce and, with PositionsHold below, of
\* ConditionalIsLinked.
WritesInOrder == \A p \in Replicas : ReplicaInOrder(p)

LEMMA OrderInit == Init => WritesInOrder
  <1>1. 1 \in Days
    BY TrailAssumption DEF Days
  <1>2. ASSUME Init, NEW p \in Replicas
        PROVE  ReplicaInOrder(p)
    <2>1. \A d \in Days : offset[p][d] = 0
      BY <1>2 DEF Init
    <2>2. today \in Days
      BY <1>1, <1>2 DEF Init
    <2>3. \A t \in Threads : ~Busy(p, t)
      BY <1>2 DEF Init, Busy, Idle
    <2>4. QED
      BY <2>1, <2>2, <2>3 DEF ReplicaInOrder, PositionsInOrder
  <1>3. QED
    BY <1>2 DEF WritesInOrder

\* Replica p takes v for the position at which the blob of day d ends.
Notes(p, d, v) == offset' = [offset EXCEPT ![p][d] = v]

\* Noting a position changes that position alone.
LEMMA OffsetMoves ==
  ASSUME TypeOK, NEW p \in Replicas, NEW d \in Days, NEW v \in Nat,
         Notes(p, d, v)
  PROVE  \A e \in Days : offset'[p][e] = IF e = d THEN v ELSE offset[p][e]
  BY Update2 DEF TypeOK, Notes

\* A replica that a step leaves alone stays in order.
LEMMA OrderUntouched ==
  ASSUME TypeOK, NEW p \in Replicas, ReplicaInOrder(p), today' = today,
         up'[p] = up[p], head'[p] = head[p], lock'[p] = lock[p],
         offset'[p] = offset[p], call'[p] = call[p]
  PROVE  ReplicaInOrder(p)'
  BY DEF ReplicaInOrder, PositionsInOrder, CallInOrder, Busy

\* Two threads of a replica are never in write() together.
LEMMA OneWriter ==
  ASSUME NEW p \in Replicas, ReplicaInOrder(p), NEW t \in Threads, NEW u \in Threads,
         Busy(p, t) \/ lock[p] = Nobody, Busy(p, u)
  PROVE  u = t
  BY TrailAssumption DEF ReplicaInOrder, CallInOrder

\* A step of one replica's thread leaves the other replicas alone.
LEMMA OthersKeep ==
  ASSUME TypeOK, NEW q \in Replicas, NEW t \in Threads, Write(q, t) \/ CallStep(q, t),
         NEW p \in Replicas, p # q
  PROVE  /\ up'[p] = up[p] /\ head'[p] = head[p] /\ lock'[p] = lock[p]
         /\ offset'[p] = offset[p] /\ call'[p] = call[p]
  <1>1. /\ head \in [Replicas -> [seq : Nat, prev : Nat]]
        /\ lock \in [Replicas -> Threads \cup {Nobody}]
        /\ offset \in [Replicas -> [Days -> Nat]]
        /\ call \in [Replicas -> [Threads -> Calls]]
    BY DEF TypeOK
  <1>2. CASE Write(q, t) \/ EnsureBlob(q, t) \/ EnsureBlobFails(q, t) \/ AppendLands(q, t)
    BY <1>1, <1>2 DEF Write, EnsureBlob, EnsureBlobFails, AppendLands, Leave, Moves
  <1>3. CASE AppendStale(q, t) \/ AppendFails(q, t) \/ AppendTimesOut(q, t)
             \/ AnswerLost(q, t)
    BY <1>1, <1>3 DEF AppendStale, AppendFails, AppendTimesOut, AnswerLost, Leave, Moves
  <1>4. CASE AppendAnswered(q, t) \/ Relist(q, t) \/ Rebuild(q, t) \/ RereadFails(q, t)
    BY <1>1, <1>4 DEF AppendAnswered, Relist, Rebuild, RereadFails, Leave, Moves
  <1>5. QED
    BY <1>2, <1>3, <1>4 DEF CallStep

\* The thread that takes a step is the only one in write() of its replica.
LEMMA WriterAlone ==
  ASSUME TypeOK, NEW p \in Replicas, NEW t \in Threads, Write(p, t) \/ CallStep(p, t),
         ReplicaInOrder(p), NEW u \in Threads, u # t
  PROVE  ~Busy(p, u)'
  <1>1. Busy(p, t) \/ lock[p] = Nobody
    BY DEF Write, CallStep, EnsureBlob, EnsureBlobFails, AppendLands, AppendStale,
       AppendFails, AppendTimesOut, AnswerLost, AppendAnswered, Relist, Rebuild,
       RereadFails, Sending, At, Busy
  <1>2. ~Busy(p, u)
    BY <1>1, OneWriter
  <1>3. UNCHANGED call \/ \E c : Moves(p, t, c)
    BY DEF Write, CallStep, EnsureBlob, EnsureBlobFails, AppendLands, AppendStale,
       AppendFails, AppendTimesOut, AnswerLost, AppendAnswered, Relist, Rebuild,
       RereadFails, Leave
  <1>4. call'[p][u] = call[p][u]
    BY <1>3 DEF Moves, TypeOK
  <1>5. QED
    BY <1>2, <1>4 DEF Busy

\* A thread that leaves write() and notes nothing leaves its replica in order.
LEMMA OrderLeave ==
  ASSUME TypeOK, NEW p \in Replicas, NEW t \in Threads, ReplicaInOrder(p),
         Leave(p, t), Write(p, t) \/ CallStep(p, t),
         offset'[p] = offset[p], up' = up, today' = today,
         head'[p] = head[p] \/ offset[p][today] = 0
  PROVE  ReplicaInOrder(p)'
  <1>1. ~Busy(p, t)'
    BY LeaveOne DEF Busy, Idle
  <1>2. \A u \in Threads : ~Busy(p, u)'
    BY <1>1, WriterAlone
  <1>3. PositionsInOrder(p)'
    BY DEF ReplicaInOrder, PositionsInOrder
  <1>4. QED
    BY <1>2, <1>3 DEF ReplicaInOrder

\* A step of a thread in write() leaves its replica in order.
LEMMA OrderCallStep ==
  ASSUME TypeOK, NEW p \in Replicas, NEW t \in Threads, ReplicaInOrder(p),
         Write(p, t) \/ CallStep(p, t)
  PROVE  ReplicaInOrder(p)'
  <1> DEFINE c == call[p][t]
  <1>0. /\ c \in Calls /\ today \in Days
        /\ head[p] \in [seq : Nat, prev : Nat]
        /\ offset[p] \in [Days -> Nat]
        /\ \A d \in Days : d \in Nat
        /\ lock \in [Replicas -> Threads \cup {Nobody}]
    BY DEF TypeOK, Days
  <1>1. c.pc # "idle" => CallInOrder(p, t)
    BY DEF ReplicaInOrder, Busy
  <1>2. PositionsInOrder(p)
    BY DEF ReplicaInOrder
  <1>3. ASSUME PositionsInOrder(p)', Busy(p, t)' => CallInOrder(p, t)'
        PROVE  ReplicaInOrder(p)'
    <2>1. \A u \in Threads : u # t => ~Busy(p, u)'
      BY WriterAlone
    <2>2. QED
      BY <1>3, <2>1 DEF ReplicaInOrder
  <1>4. CASE Write(p, t)
    <2>1. call'[p][t] = Built(head[p], calls + 1, 1) /\ lock'[p] = t
      BY <1>0, <1>4 DEF Write, Moves, TypeOK
    <2>2. up[p] = "up" /\ UNCHANGED <<up, head, offset, today>>
      BY <1>4 DEF Write, At
    <2>3. CallInOrder(p, t)'
      BY <1>0, <1>2, <2>1, <2>2 DEF CallInOrder, PositionsInOrder, Built
    <2>4. PositionsInOrder(p)'
      BY <1>2, <2>2 DEF PositionsInOrder
    <2>5. QED
      BY <1>3, <2>3, <2>4
  <1>5. CASE EnsureBlob(p, t)
    BY <1>5, OrderUntouched DEF EnsureBlob
  <1>6. CASE EnsureBlobFails(p, t)
    BY <1>6, OrderLeave DEF EnsureBlobFails
  <1>7. CASE AppendLands(p, t)
    <2>1. /\ call'[p][t] = [c EXCEPT !.pc = "landed", !.at = Len(log) + 1]
          /\ UNCHANGED <<up, head, offset, today, lock>>
      BY <1>7 DEF AppendLands, Moves, TypeOK
    <2>2. CallInOrder(p, t)
      BY <1>1, <1>7 DEF AppendLands, Sending, At
    <2>3. CallInOrder(p, t)'
      BY <1>0, <2>1, <2>2 DEF CallInOrder, Calls
    <2>4. PositionsInOrder(p)'
      BY <1>2, <2>1 DEF PositionsInOrder
    <2>5. QED
      BY <1>3, <2>3, <2>4
  <1>8. CASE AppendStale(p, t)
    <2>1. /\ c.pc = "built" /\ CallInOrder(p, t)
          /\ ~Accepts(Expected(p, t), c.day)
          /\ call'[p][t] = [c EXCEPT !.pc = "stale"]
          /\ Notes(p, c.day, 0)
          /\ UNCHANGED <<up, head, today, lock>>
      BY <1>1, <1>8 DEF AppendStale, Sending, At, Moves, Notes, TypeOK
    <2>2. c.day \in Days /\ 0 \in Nat
      BY <1>0 DEF Calls
    <2>3. \A e \in Days : offset'[p][e] = IF e = c.day THEN 0 ELSE offset[p][e]
      BY <2>1, <2>2, OffsetMoves
    <2>4. c.attempt = 1
      BY <1>0, <2>1, <2>2 DEF Accepts, Expected, CallInOrder
    <2>5. call'[p][t].pc = "stale" /\ call'[p][t].day = c.day /\ call'[p][t].attempt = 1
      BY <1>0, <2>1, <2>4 DEF Calls
    <2>6. CallInOrder(p, t)'
      BY <1>0, <2>1, <2>2, <2>3, <2>5 DEF CallInOrder
    <2>7. PositionsInOrder(p)'
      BY <1>0, <1>2, <2>1, <2>3 DEF PositionsInOrder
    <2>8. QED
      BY <1>3, <2>6, <2>7
  <1>9. CASE AppendFails(p, t)
    BY <1>9, OrderLeave DEF AppendFails
  <1>10. CASE AppendTimesOut(p, t)
    BY <1>10, OrderLeave DEF AppendTimesOut
  <1>11. CASE AnswerLost(p, t)
    BY <1>11, OrderLeave DEF AnswerLost
  <1>12. CASE AppendAnswered(p, t)
    <2>1. /\ c.pc = "landed" /\ CallInOrder(p, t)
          /\ Leave(p, t)
          /\ head' = [head EXCEPT ![p] = HeadOf(c)]
          /\ UNCHANGED <<up, today>>
      BY <1>1, <1>12 DEF AppendAnswered, At
    <2>2. PICK known \in {c.at, 0} : Notes(p, c.day, known)
      BY <1>12 DEF AppendAnswered, Notes
    <2>3. c.day \in Days /\ known \in Nat
      BY <1>0, <2>2 DEF Calls
    <2>4. \A e \in Days : offset'[p][e] = IF e = c.day THEN known ELSE offset[p][e]
      BY <2>2, <2>3, OffsetMoves
    <2>5. head'[p].prev = c.at
      BY <2>1 DEF HeadOf, TypeOK
    <2>6. ~Busy(p, t)'
      BY <2>1, LeaveOne DEF Busy, Idle
    <2>7. c.day <= today /\ (offset[p][today] # 0 => today = c.day)
      <3>1. c.day <= today /\ (offset[p][today] # 0 => today <= c.day)
        BY <1>0, <2>1 DEF CallInOrder
      <3>2. c.day \in Nat /\ today \in Nat
        BY <1>0, <2>3
      <3>3. QED
        BY <3>1, <3>2
    <2>8. up'[p] = "up"
      BY <2>1 DEF CallInOrder
    <2>9. PositionsInOrder(p)'
      <3>1. \A d \in Days : offset'[p][d] # 0 => d <= today
        BY <1>2, <2>4, <2>7 DEF PositionsInOrder
      <3>2. offset'[p][today] # 0 => head'[p].prev = offset'[p][today]
        BY <1>0, <2>2, <2>4, <2>5, <2>7
      <3>3. QED
        BY <2>1, <2>8, <3>1, <3>2 DEF PositionsInOrder
    <2>10. QED
      BY <1>3, <2>6, <2>9
  <1>13. CASE Relist(p, t)
    <2>1. /\ call'[p][t] = [c EXCEPT !.pc = "rereading"]
          /\ UNCHANGED <<up, head, offset, today, lock>>
      BY <1>13 DEF Relist, Moves, TypeOK
    <2>2. c.pc = "stale" /\ CallInOrder(p, t)
      BY <1>1, <1>13 DEF Relist, At
    <2>3. CallInOrder(p, t)'
      BY <1>0, <2>1, <2>2 DEF CallInOrder, Calls
    <2>4. PositionsInOrder(p)'
      BY <1>2, <2>1 DEF PositionsInOrder
    <2>5. QED
      BY <1>3, <2>3, <2>4
  <1>14. CASE Rebuild(p, t)
    <2>1. /\ c.pc = "rereading" /\ CallInOrder(p, t)
          /\ UNCHANGED <<up, offset, today>>
      BY <1>1, <1>14 DEF Rebuild, At
    <2>2. c.attempt = 1 /\ c.day \in Days /\ offset[p][today] = 0
          /\ \A d \in Days : offset[p][d] # 0 => d <= today
      <3>1. c.attempt = 1 /\ c.day <= today /\ offset[p][c.day] = 0
            /\ \A d \in Days : offset[p][d] # 0 => d <= c.day
        BY <2>1 DEF CallInOrder
      <3>2. c.day \in Days /\ c.day \in Nat /\ today \in Nat
        BY <1>0 DEF Calls
      <3>3. \A d \in Days : d <= c.day => d <= today
        BY <1>0, <3>1, <3>2
      <3>4. offset[p][today] = 0
        <4>1. ASSUME offset[p][today] # 0
              PROVE  today = c.day
          BY <1>0, <3>1, <3>2, <4>1
        <4>2. QED
          BY <3>1, <4>1
      <3>5. QED
        BY <3>1, <3>2, <3>3, <3>4
    <2>3. CASE c.attempt < RebuildAttempts
      <3>1. /\ call'[p][t] = Built(ReadHead(p), c.ev, 2)
            /\ lock' = lock
        BY <1>14, <2>2, <2>3 DEF Rebuild, Moves, TypeOK
      <3>2. CallInOrder(p, t)'
        BY <1>0, <2>1, <2>2, <3>1 DEF CallInOrder, Built
      <3>3. PositionsInOrder(p)'
        BY <1>2, <2>1, <2>2 DEF PositionsInOrder
      <3>4. QED
        BY <1>3, <3>2, <3>3
    <2>4. CASE ~(c.attempt < RebuildAttempts)
      BY <1>14, <2>1, <2>2, <2>4, OrderLeave DEF Rebuild
    <2>5. QED
      BY <2>3, <2>4
  <1>15. CASE RereadFails(p, t)
    BY <1>15, OrderLeave DEF RereadFails
  <1>16. QED
    BY <1>4, <1>5, <1>6, <1>7, <1>8, <1>9, <1>10, <1>11, <1>12, <1>13, <1>14, <1>15
    DEF CallStep

LEMMA OrderStep ==
  ASSUME TypeOK, WritesInOrder, [Next]_vars
  PROVE  WritesInOrder'
  <1> SUFFICES ASSUME NEW p \in Replicas
               PROVE  ReplicaInOrder(p)'
    BY DEF WritesInOrder
  <1>0. ReplicaInOrder(p) /\ today \in Days /\ today \in Nat /\ \A d \in Days : d \in Nat
    BY DEF WritesInOrder, TypeOK, Days
  <1>1. ASSUME NEW q \in Replicas, NEW t \in Threads, Write(q, t) \/ CallStep(q, t)
        PROVE  ReplicaInOrder(p)'
    <2>1. CASE p = q
      BY <1>0, <1>1, <2>1, OrderCallStep
    <2>2. CASE p # q
      <3>1. today' = today
        BY <1>1 DEF Write, CallStep, EnsureBlob, EnsureBlobFails, AppendLands, AppendStale,
           AppendFails, AppendTimesOut, AnswerLost, AppendAnswered, Relist, Rebuild,
           RereadFails
      <3>2. QED
        BY <1>0, <1>1, <2>2, <3>1, OthersKeep, OrderUntouched
    <2>3. QED
      BY <2>1, <2>2
  <1>2. ASSUME NEW q \in Replicas, ReplicaStep(q)
        PROVE  ReplicaInOrder(p)'
    <2>1. CASE Start(q) \/ StartFails(q) \/ FetchBlob(q)
      <3>1. /\ UNCHANGED <<today, head, lock, offset, call>>
            /\ up'[p] = up[p] \/ (up[p] # "up" /\ up'[p] # "up")
        BY <2>1 DEF Start, StartFails, FetchBlob, TypeOK
      <3>2. CASE up'[p] = up[p]
        BY <1>0, <3>1, <3>2, OrderUntouched
      <3>3. CASE up[p] # "up" /\ up'[p] # "up"
        BY <1>0, <3>1, <3>3 DEF ReplicaInOrder, PositionsInOrder, CallInOrder, Busy
      <3>4. QED
        BY <3>1, <3>2, <3>3
    <2>2. CASE StartDone(q)
      BY <1>0, <2>2 DEF StartDone, ReplicaInOrder, PositionsInOrder, CallInOrder, Busy, TypeOK
    <2>3. CASE Stop(q) /\ p # q
      <3>1. today' = today /\ up'[p] = up[p] /\ head'[p] = head[p] /\ lock'[p] = lock[p]
            /\ offset'[p] = offset[p] /\ call'[p] = call[p]
        BY <2>3 DEF Stop, TypeOK
      <3>2. QED
        BY <1>0, <3>1, OrderUntouched
    <2>4. CASE Stop(q) /\ p = q
      BY <1>0, <2>4 DEF Stop, ReplicaInOrder, PositionsInOrder, Busy, Idle, TypeOK
    <2>5. QED
      BY <1>2, <2>1, <2>2, <2>3, <2>4 DEF ReplicaStep
  <1>3. CASE \E f \in flight : LateAppend(f)
    BY <1>0, <1>3, OrderUntouched DEF LateAppend
  <1>4. CASE NextDay
    <2>1. /\ today' = today + 1 /\ today' \in Days
          /\ UNCHANGED <<up, head, lock, offset, call>>
      BY <1>0, <1>4, TrailAssumption DEF NextDay, Days
    <2>2. PositionsInOrder(p)'
      <3>1. PositionsInOrder(p)
        BY <1>0 DEF ReplicaInOrder
      <3>2. ASSUME NEW d \in Days, offset[p][d] # 0
            PROVE  d <= today'
        <4>1. d \in Nat /\ d <= today
          BY <1>0, <3>1, <3>2 DEF PositionsInOrder
        <4>2. QED
          BY <1>0, <2>1, <4>1
      <3>3. offset[p][today'] = 0
        BY <1>0, <2>1, <3>1 DEF PositionsInOrder
      <3>4. QED
        BY <2>1, <3>1, <3>2, <3>3 DEF PositionsInOrder
    <2>3. ASSUME NEW t \in Threads, Busy(p, t)'
          PROVE  CallInOrder(p, t)'
      <3>1. CallInOrder(p, t) /\ call[p][t].day \in Days
        BY <1>0, <2>1, <2>3 DEF ReplicaInOrder, Busy, TypeOK, Calls
      <3>2. call[p][t].day <= today'
        <4>1. call[p][t].day <= today /\ call[p][t].day \in Nat
          BY <1>0, <3>1 DEF CallInOrder
        <4>2. QED
          BY <1>0, <2>1, <4>1
      <3>3. QED
        BY <2>1, <3>1, <3>2 DEF CallInOrder
    <2>4. QED
      BY <2>2, <2>3 DEF ReplicaInOrder
  <1>5. CASE UNCHANGED vars
    BY <1>0, <1>5, OrderUntouched DEF vars
  <1>6. QED
    BY <1>1, <1>2, <1>3, <1>4, <1>5 DEF Next

\* At most one thread of a replica is inside write(), and it holds the lock
\* (trail.py: `with self._lock` around all of write).
OneWriterAtATime ==
    \A p \in Replicas, t, u \in Threads :
        Busy(p, t) => lock[p] = t /\ (Busy(p, u) => t = u)

THEOREM WriteIsExclusive == Spec => []OneWriterAtATime
  <1>1. TypeOK /\ WritesInOrder /\ [Next]_vars => WritesInOrder'
    BY OrderStep
  <1>2. WritesInOrder => OneWriterAtATime
    BY DEF WritesInOrder, ReplicaInOrder, CallInOrder, OneWriterAtATime
  <1>3. QED
    BY <1>1, <1>2, OrderInit, TypeCorrect, PTL DEF Spec

\* However many replicas race, a write is refused with 412 at most once: the
\* RuntimeError behind _REBUILD_ATTEMPTS is never raised for that reason.
THEOREM NeverRefusedTwice == Spec => []RefusedAtMostOnce
  <1>1. TypeOK /\ WritesInOrder /\ [Next]_vars => WritesInOrder'
    BY OrderStep
  <1>2. Init => RefusedAtMostOnce
    BY DEF Init, RefusedAtMostOnce, Idle
  <1>3. ASSUME TypeOK, WritesInOrder, RefusedAtMostOnce, [Next]_vars
        PROVE  RefusedAtMostOnce'
    <2> SUFFICES ASSUME NEW p \in Replicas, NEW t \in Threads
                 PROVE  call'[p][t].attempt <= 2
      BY DEF RefusedAtMostOnce
    <2>1. call[p][t] \in Calls /\ call[p][t].attempt <= 2
      BY <1>3 DEF TypeOK, RefusedAtMostOnce
    <2>2. ThreadMoves(p, t)
      BY <1>3, CallMoves
    <2>3. CASE call'[p][t] = call[p][t] \/ call'[p][t] = Idle \/ Enters(p, t)
      BY <2>1, <2>3 DEF Idle, Enters, Built
    <2>4. CASE Lands(p, t) \/ IsRefused(p, t) \/ Rereads(p, t)
      BY <2>1, <2>4 DEF Lands, IsRefused, Rereads, Calls
    <2>5. CASE Rebuilds(p, t)
      <3>1. call[p][t].attempt = 1
        BY <1>3, <2>5 DEF Rebuilds, WritesInOrder, ReplicaInOrder, CallInOrder, Busy
      <3>2. QED
        BY <2>5, <3>1 DEF Rebuilds, Built
    <2>6. QED
      BY <2>2, <2>3, <2>4, <2>5 DEF ThreadMoves
  <1>4. QED
    BY <1>1, <1>2, <1>3, OrderInit, TypeCorrect, PTL DEF Spec
-------------------------------------------------------------------------------
(* A fork needs an append without a position.                              *)

\* The record before i in its own blob is the one i is chained to.
FollowsPrev(i) ==
    LET j == log[i].prev IN
    /\ j \in 1..(i - 1)
    /\ log[j].day = log[i].day
    /\ \A k \in 1..Len(log) : j < k /\ k < i => log[k].day # log[i].day

\* A request with a position is chained to the record that ends there, and once
\* it is committed it follows that record.
PositionsHold ==
    /\ \A f \in flight : f.expected # 0 => f.rec.prev = f.expected
    /\ \A i \in 1..Len(log) : log[i].cond => FollowsPrev(i)

LEMMA PositionsInit == Init => PositionsHold
  BY DEF Init, PositionsHold

\* A record keeps following the one before it, whatever is appended later.
LEMMA FollowsKept ==
  ASSUME TypeOK, [Next]_vars, NEW i \in 1..Len(log), FollowsPrev(i)
  PROVE  FollowsPrev(i)'
  <1>1. /\ Len(log) \in Nat /\ Len(log') \in Nat /\ Len(log) <= Len(log')
        /\ \A k \in 1..Len(log) : log'[k] = log[k]
    BY LogGrows
  <1>2. /\ log'[i] = log[i]
        /\ log[i].prev \in 1..(i - 1)
        /\ log'[log[i].prev] = log[log[i].prev]
    BY <1>1 DEF FollowsPrev
  <1>3. \A k \in 1..Len(log') : k < i => k \in 1..Len(log) /\ log'[k] = log[k]
    BY <1>1
  <1>4. QED
    BY <1>1, <1>2, <1>3 DEF FollowsPrev

\* A block that the service took at position x follows record x.
LEMMA CommitFollows ==
  ASSUME TypeOK, PositionsHold, [Next]_vars, NEW c \in Calls, NEW x \in Nat,
         Commits(c, x), x # 0 => c.prev = x
  PROVE  \A i \in 1..Len(log') : log'[i].cond => FollowsPrev(i)'
  <1>1. /\ Len(log) \in Nat /\ DOMAIN log = 1..Len(log)
        /\ Len(log') = Len(log) + 1
        /\ \A i \in 1..Len(log) : log'[i] = log[i]
        /\ log'[Len(log) + 1] = Block(c, x)
    BY BlockType, AppendBlock, LogType DEF Commits
  <1>n. PICK n \in Nat : n = Len(log) + 1
    BY <1>1
  <1>2. \A i \in 1..Len(log) : log'[i].cond => FollowsPrev(i)'
    BY <1>1, FollowsKept DEF PositionsHold
  <1>3. ASSUME x # 0
        PROVE  FollowsPrev(n)'
    <2>1. x \in 1..Len(log) /\ log[x].day = c.day
          /\ \A j \in 1..Len(log) : log[j].day = c.day => j <= x
      BY <1>1, <1>3 DEF Commits, Accepts, StillAt, LastInDay, InDay
    <2>2. log'[n].prev = x /\ log'[n].day = c.day
      BY <1>1, <1>n, <1>3 DEF Block
    <2>3. x \in 1..(n - 1) /\ log'[x].day = c.day
      BY <1>1, <1>n, <2>1
    <2>4. ASSUME NEW k \in 1..Len(log'), x < k, k < n
          PROVE  log'[k].day # c.day
      <3>1. k \in 1..Len(log) /\ ~(k <= x)
        BY <1>1, <1>n, <2>1, <2>4
      <3>2. QED
        BY <1>1, <2>1, <3>1
    <2>5. QED
      BY <2>2, <2>3, <2>4 DEF FollowsPrev
  <1>4. log'[n].cond => x # 0
    <2>1. Block(c, x).cond = (x # 0)
      BY DEF Block
    <2>2. log'[n] = Block(c, x)
      BY <1>1, <1>n
    <2>3. QED
      BY <2>1, <2>2
  <1>5. \A i \in 1..Len(log') : i \in 1..Len(log) \/ i = n
    BY <1>1, <1>n
  <1>6. QED
    BY <1>2, <1>3, <1>4, <1>5

LEMMA PositionsStep ==
  ASSUME TypeOK, WritesInOrder, PositionsHold, [Next]_vars
  PROVE  PositionsHold'
  <1>1. ASSUME NEW p \in Replicas, NEW t \in Threads, call[p][t].pc = "built",
               Expected(p, t) # 0
        PROVE  call[p][t].prev = Expected(p, t)
    BY <1>1 DEF WritesInOrder, ReplicaInOrder, CallInOrder, Busy, Expected
  <1>2. ASSUME NEW f \in flight', f.expected # 0
        PROVE  f.rec.prev = f.expected
    <2>1. CASE f \in flight
      BY <1>2, <2>1 DEF PositionsHold
    <2>2. CASE \E p \in Replicas, t \in Threads :
                  /\ call[p][t].pc = "built"
                  /\ f = [rec |-> call[p][t], expected |-> Expected(p, t)]
      BY <1>1, <1>2, <2>2
    <2>3. QED
      BY <2>1, <2>2, FlightMoves
  <1>3. \A i \in 1..Len(log') : log'[i].cond => FollowsPrev(i)'
    <2>1. CASE UNCHANGED log
      BY <2>1, FollowsKept DEF PositionsHold
    <2>2. CASE \E p \in Replicas, t \in Threads :
                  call[p][t].pc = "built" /\ Commits(call[p][t], Expected(p, t))
      BY <1>1, <2>2, CallsTyped, CommitFollows
    <2>3. CASE \E f \in flight : Commits(f.rec, f.expected)
      <3>1. PICK f \in flight : Commits(f.rec, f.expected)
        BY <2>3
      <3>2. f.expected # 0 => f.rec.prev = f.expected
        BY DEF PositionsHold
      <3>3. QED
        BY <3>1, <3>2, CallsTyped, CommitFollows
    <2>4. QED
      BY <2>1, <2>2, <2>3, LogMoves
  <1>4. QED
    BY <1>2, <1>3 DEF PositionsHold

\* A record appended at a position is one that verify_chain reports no break at,
\* whatever other replicas commit before or after it (blob.py, append).
THEOREM ForkNeedsNoPosition == Spec => []ConditionalIsLinked
  <1>1. TypeOK /\ WritesInOrder /\ [Next]_vars => WritesInOrder'
    BY OrderStep
  <1>2. TypeOK /\ WritesInOrder /\ PositionsHold /\ [Next]_vars => PositionsHold'
    BY PositionsStep
  <1>3. ASSUME TypeOK, Rooted, PositionsHold
        PROVE  ConditionalIsLinked
    <2> SUFFICES ASSUME NEW i \in 1..Len(log), log[i].cond
                 PROVE  Linked(i)
      BY <1>3, LogType DEF ConditionalIsLinked
    <2> DEFINE j == log[i].prev
    <2>1. FollowsPrev(i)
      BY <1>3 DEF PositionsHold
    <2>2. log[i].seq = SeqAt(j) + 1
      BY <1>3, LogType DEF Rooted
    <2>3. Len(log) \in Nat /\ DOMAIN log = 1..Len(log) /\ j \in 1..Len(log) /\ j < i
      BY <1>3, <2>1, LogType DEF FollowsPrev
    <2>4. \A k \in 1..Len(log) : log[k].day \in Nat
      BY <1>3, LogType DEF Blocks, Days
    <2>5. log[j].day = log[i].day
      BY <2>1 DEF FollowsPrev
    <2>6. ReadBefore(j, i)
      BY <2>3, <2>5 DEF ReadBefore
    <2>7. ASSUME NEW k \in 1..Len(log), ReadBefore(k, i)
          PROVE  k = j \/ ReadBefore(k, j)
      <3>1. CASE log[k].day < log[i].day
        BY <2>5, <3>1 DEF ReadBefore
      <3>2. CASE log[k].day = log[i].day /\ k < i
        <4>1. ~(j < k)
          BY <2>1, <3>2 DEF FollowsPrev
        <4>2. k = j \/ k < j
          BY <2>3, <4>1
        <4>3. QED
          BY <2>5, <3>2, <4>2 DEF ReadBefore
      <3>3. QED
        BY <2>7, <3>1, <3>2 DEF ReadBefore
    <2>8. j # 0
      BY <2>3
    <2>9. QED
      BY <2>2, <2>3, <2>6, <2>7, <2>8 DEF Linked
  <1>4. QED
    BY <1>1, <1>2, <1>3, OrderInit, PositionsInit, TypeCorrect, RecordsAreRooted,
       PTL DEF Spec

-------------------------------------------------------------------------------
(* One replica at a time, and every request answered.                     *)

\* One replica, and no request whose outcome its caller is not told.
Alone(r) == Replicas = {r} /\ MaxLost = 0 /\ MaxLate = 0

-------------------------------------------------------------------------------
(* The strengthening of ChainIntact.                                       *)

\* Every record is chained to the one committed before it.
InSequence == \A i \in 1..Len(log) : log[i].prev = i - 1 /\ log[i].seq = i

\* Days go by, and every record is in a blob that a listing names.
DaysInOrder(r) ==
    /\ \A i, j \in 1..Len(log) : i <= j => log[i].day <= log[j].day
    /\ \A i \in 1..Len(log) : log[i].day <= today /\ log[i].day \in blobs
    /\ created[r] \subseteq blobs

\* A replica that starts has read up to the last record of the blobs it fetched.
ScanExact(r) ==
    up[r] = "starting" =>
        \A i \in 1..Len(log) : i <= scan[r].last <=> log[i].day \notin scan[r].todo

BuiltLast(c) ==
    /\ c.prev = Len(log)
    /\ c.seq = Len(log) + 1
    /\ \A i \in 1..Len(log) : log[i].day <= c.day

LandedLast(c) ==
    /\ Len(log) # 0
    /\ c.at = Len(log)
    /\ c.seq = Len(log)
    /\ log[Len(log)].day = c.day

Waits(r, t) == call[r][t].pc = "landed"

\* A running replica's head is the last record, except while its answer is on
\* the way, and the positions it knows are those at which the blobs end.
HeadCurrent(r) ==
    up[r] = "up" =>
        /\ \A t \in Threads :
              /\ call[r][t].pc \in {"idle", "built", "landed"}
              /\ call[r][t].pc = "built" => BuiltLast(call[r][t])
              /\ call[r][t].pc = "landed" => LandedLast(call[r][t])
        /\ (\A t \in Threads : ~Waits(r, t)) =>
              head[r].prev = Len(log) /\ head[r].seq = Len(log)
        /\ \A d \in Days : offset[r][d] # 0 =>
              \/ LastInDay(offset[r][d], d)
              \/ \E t \in Threads : Waits(r, t) /\ call[r][t].day = d

SoloInv(r) ==
    /\ flight = {}
    /\ InSequence
    /\ DaysInOrder(r)
    /\ ScanExact(r)
    /\ HeadCurrent(r)
LEMMA SoloInit == ASSUME NEW r, Alone(r), Init PROVE SoloInv(r)
  BY DEF Alone, Init, SoloInv, InSequence, DaysInOrder, ScanExact, HeadCurrent

\* What a step may find in such a replica.
LEMMA SoloTyped ==
  ASSUME TypeOK, NEW r, Alone(r)
  PROVE  /\ r \in Replicas
         /\ Len(log) \in Nat /\ DOMAIN log = 1..Len(log)
         /\ \A i \in 1..Len(log) : log[i].day \in Nat
         /\ today \in Days /\ today \in Nat /\ \A d \in Days : d \in Nat
         /\ \A t \in Threads : call[r][t] \in Calls
         /\ \A t \in Threads, d \in Days : offset[r][d] \in Nat
         /\ ~(spent.late < MaxLate) /\ ~(spent.lost < MaxLost)
  <1>1. r \in Replicas
    BY DEF Alone
  <1>2. \A i \in 1..Len(log) : log[i].day \in Nat
    BY LogType DEF Blocks, Days
  <1>3. ~(spent.late < MaxLate) /\ ~(spent.lost < MaxLost)
    BY DEF TypeOK, Budget, Alone
  <1>4. today \in Days /\ today \in Nat /\ \A d \in Days : d \in Nat
    BY DEF TypeOK, Days
  <1>5. QED
    BY <1>1, <1>2, <1>3, <1>4, LogType DEF TypeOK

\* While nothing is committed, records stay chained and days in order.
LEMMA LogKept ==
  ASSUME TypeOK, NEW r, Alone(r), SoloInv(r), UNCHANGED log,
         today' \in Nat, today <= today', blobs \subseteq blobs', created'[r] \subseteq blobs'
  PROVE  InSequence' /\ DaysInOrder(r)'
  <1>1. InSequence'
    BY DEF SoloInv, InSequence
  <1>2. \A i \in 1..Len(log) : log[i].day <= today'
    BY SoloTyped DEF SoloInv, DaysInOrder
  <1>3. QED
    BY <1>1, <1>2 DEF SoloInv, DaysInOrder

\* A thread whose block was not committed leaves the head as it is.
LEMMA HeadLeave ==
  ASSUME TypeOK, WritesInOrder, NEW r, Alone(r), HeadCurrent(r), NEW t \in Threads,
         CallStep(r, t), call[r][t].pc = "built", Leave(r, t),
         UNCHANGED <<log, up, head, offset>>
  PROVE  HeadCurrent(r)'
  <1>1. \A u \in Threads : u # t => ~Busy(r, u) /\ ~Busy(r, u)'
    BY SoloTyped, WriterAlone, OneWriter DEF WritesInOrder, Busy
  <1>2. call'[r][t] = Idle
    BY SoloTyped, LeaveOne
  <1>3. \A u \in Threads : ~Waits(r, u) /\ call'[r][u].pc = "idle"
    BY <1>1, <1>2 DEF Busy, Waits, Idle
  <1>4. up[r] = "up" =>
           /\ head[r].prev = Len(log) /\ head[r].seq = Len(log)
           /\ \A d \in Days : offset[r][d] # 0 => LastInDay(offset[r][d], d)
    BY <1>3 DEF HeadCurrent
  <1>5. \A d \in Days : \A i : LastInDay(i, d)' <=> LastInDay(i, d)
    BY DEF LastInDay, InDay
  <1>6. QED
    BY <1>3, <1>4, <1>5 DEF HeadCurrent

\* With one replica, the position a record is sent with is where its blob ends.
LEMMA NeverRefused ==
  ASSUME TypeOK, WritesInOrder, NEW r, Alone(r), HeadCurrent(r), NEW t \in Threads,
         Sending(r, t)
  PROVE  Accepts(Expected(r, t), call[r][t].day)
  <1>1. call[r][t].pc = "built" /\ up[r] = "up" /\ call[r][t].day \in Days
    BY SoloTyped DEF Sending, At, Calls
  <1>2. \A u \in Threads : ~Waits(r, u)
    BY <1>1, SoloTyped, OneWriter DEF WritesInOrder, Busy, Waits
  <1>3. offset[r][call[r][t].day] # 0 => LastInDay(offset[r][call[r][t].day], call[r][t].day)
    BY <1>1, <1>2 DEF HeadCurrent
  <1>4. QED
    BY <1>3 DEF Accepts, Expected, StillAt

\* A thread's block is committed at the end of the chain.
LEMMA SoloLands ==
  ASSUME TypeOK, WritesInOrder, NEW r, Alone(r), SoloInv(r), NEW t \in Threads,
         AppendLands(r, t)
  PROVE  InSequence' /\ DaysInOrder(r)' /\ HeadCurrent(r)'
  <1> DEFINE c == call[r][t]
  <1>0. /\ c \in Calls /\ c.pc = "built" /\ up[r] = "up" /\ c.day \in created[r]
        /\ c.day <= today /\ c.day \in Nat /\ c.day \in Days
        /\ BuiltLast(c)
        /\ Len(log) \in Nat
    BY SoloTyped DEF AppendLands, Sending, At, SoloInv, HeadCurrent, WritesInOrder,
       ReplicaInOrder, CallInOrder, Busy, Calls
  <1>1. PICK n \in Nat : n = Len(log) + 1
    BY <1>0
  <1>2. /\ Len(log') = n /\ n - 1 = Len(log)
        /\ \A i \in 1..Len(log) : log'[i] = log[i]
        /\ log'[n] = Block(c, Expected(r, t))
        /\ \A i \in 1..n : i \in 1..Len(log) \/ i = n
        /\ DOMAIN log = 1..Len(log) /\ DOMAIN log' = 1..n
    BY <1>0, <1>1, SoloTyped, CallsTyped, BlockType, AppendBlock, LogType DEF AppendLands
  <1>3. log'[n].prev = n - 1 /\ log'[n].seq = n /\ log'[n].day = c.day
    BY <1>0, <1>1, <1>2 DEF Block, BuiltLast
  <1>4. InSequence'
    BY <1>2, <1>3 DEF InSequence, SoloInv
  <1>5. UNCHANGED <<blobs, today, created, up, head, offset>>
    BY DEF AppendLands
  <1>6. DaysInOrder(r)'
    <2>1. \A i \in 1..n : log'[i].day <= today /\ log'[i].day \in blobs
      BY <1>0, <1>2, <1>3 DEF SoloInv, DaysInOrder
    <2>2. ASSUME NEW i \in 1..n, NEW j \in 1..n, i <= j
          PROVE  log'[i].day <= log'[j].day
      <3>1. CASE j = n
        BY <1>0, <1>2, <1>3, <3>1 DEF BuiltLast
      <3>2. CASE j # n
        BY <1>1, <1>2, <2>2, <3>2 DEF SoloInv, DaysInOrder
      <3>3. QED
        BY <3>1, <3>2
    <2>3. QED
      BY <1>2, <1>5, <2>1, <2>2 DEF SoloInv, DaysInOrder
  <1>7. call'[r][t] = [c EXCEPT !.pc = "landed", !.at = n]
    BY <1>1, SoloTyped DEF AppendLands, Moves, TypeOK
  <1>8. /\ call'[r][t].pc = "landed" /\ call'[r][t].at = n
        /\ call'[r][t].seq = c.seq /\ call'[r][t].day = c.day
    BY <1>0, <1>7 DEF Calls
  <1>9. \A u \in Threads : u # t => ~Busy(r, u)' /\ ~Busy(r, u)
    BY <1>0, SoloTyped, WriterAlone, OneWriter DEF CallStep, WritesInOrder, Busy
  <1>10. LandedLast(call[r][t])'
    BY <1>0, <1>1, <1>2, <1>3, <1>8 DEF LandedLast, BuiltLast
  <1>11. ASSUME NEW d \in Days, offset'[r][d] # 0, d # c.day
         PROVE  LastInDay(offset[r][d], d)'
    <2>1. LastInDay(offset[r][d], d)
      BY <1>0, <1>5, <1>9, <1>11 DEF SoloInv, HeadCurrent, Waits, Busy
    <2>2. offset[r][d] \in 1..Len(log) /\ log[offset[r][d]].day = d
          /\ \A j \in 1..Len(log) : log[j].day = d => j <= offset[r][d]
      BY <1>2, <2>1 DEF LastInDay, InDay
    <2>3. \A j \in 1..n : log'[j].day = d => j <= offset[r][d]
      BY <1>2, <1>3, <1>11, <2>2
    <2>4. offset[r][d] \in 1..n /\ log'[offset[r][d]].day = d
      BY <1>1, <1>2, <2>2
    <2>5. QED
      BY <1>2, <1>5, <2>3, <2>4 DEF LastInDay, InDay
  <1>12. Waits(r, t)'
    BY <1>8 DEF Waits
  <1>13. HeadCurrent(r)'
    BY <1>8, <1>9, <1>10, <1>11, <1>12 DEF HeadCurrent, Busy
  <1>14. QED
    BY <1>4, <1>6, <1>13

\* The answer arrives: the head is the last record, and so is the position.
LEMMA SoloAnswered ==
  ASSUME TypeOK, WritesInOrder, NEW r, Alone(r), SoloInv(r), NEW t \in Threads,
         AppendAnswered(r, t)
  PROVE  HeadCurrent(r)'
  <1> DEFINE c == call[r][t]
  <1>0. /\ c \in Calls /\ c.pc = "landed" /\ up[r] = "up" /\ c.day \in Days /\ c.at \in Nat
        /\ LandedLast(c)
        /\ Len(log) \in Nat /\ DOMAIN log = 1..Len(log)
        /\ UNCHANGED <<log, up>>
    BY SoloTyped DEF AppendAnswered, At, SoloInv, HeadCurrent, Calls, storage
  <1>1. \A u \in Threads : u # t => ~Busy(r, u)' /\ ~Busy(r, u)
    BY <1>0, SoloTyped, WriterAlone, OneWriter DEF CallStep, WritesInOrder, Busy
  <1>2. call'[r][t] = Idle
    BY SoloTyped, LeaveOne DEF AppendAnswered
  <1>3. head'[r].prev = Len(log) /\ head'[r].seq = Len(log)
    BY <1>0, SoloTyped DEF AppendAnswered, HeadOf, LandedLast, TypeOK
  <1>4. PICK known \in {c.at, 0} : Notes(r, c.day, known)
    BY DEF AppendAnswered, Notes
  <1>5. \A e \in Days : offset'[r][e] = IF e = c.day THEN known ELSE offset[r][e]
    BY <1>0, <1>4, SoloTyped, OffsetMoves
  <1>6. LastInDay(Len(log), c.day)
    BY <1>0 DEF LastInDay, InDay, LandedLast
  <1>7. \A d \in Days : \A i : LastInDay(i, d)' <=> LastInDay(i, d)
    BY <1>0 DEF LastInDay, InDay
  <1>8. ASSUME NEW d \in Days, offset'[r][d] # 0
        PROVE  LastInDay(offset'[r][d], d)
    <2>1. CASE d = c.day
      BY <1>0, <1>4, <1>5, <1>6, <1>8, <2>1 DEF LandedLast
    <2>2. CASE d # c.day
      BY <1>0, <1>1, <1>5, <1>8, <2>2 DEF SoloInv, HeadCurrent, Waits, Busy
    <2>3. QED
      BY <2>1, <2>2
  <1>9. \A u \in Threads : call'[r][u].pc = "idle"
    BY <1>1, <1>2 DEF Busy, Idle
  <1>10. QED
    BY <1>0, <1>3, <1>7, <1>8, <1>9 DEF HeadCurrent

\* A replica that is starting goes on reading in the order of the days.
LEMMA SoloFetches ==
  ASSUME TypeOK, NEW r, Alone(r), SoloInv(r), FetchBlob(r)
  PROVE  ScanExact(r)'
  <1> SUFFICES ASSUME up[r] = "starting"
               PROVE  \A i \in 1..Len(log) :
                         i <= scan'[r].last <=> log[i].day \notin scan'[r].todo
    BY DEF FetchBlob, ScanExact, storage
  <1>0. /\ Len(log) \in Nat /\ DOMAIN log = 1..Len(log)
        /\ \A i \in 1..Len(log) : log[i].day \in Nat
        /\ \A i \in 1..Len(log) : i <= scan[r].last <=> log[i].day \notin scan[r].todo
        /\ \A i, j \in 1..Len(log) : i <= j => log[i].day <= log[j].day
        /\ scan[r].last \in Nat
        /\ scan[r].todo \subseteq Nat
    <2>1. scan[r].last \in Nat /\ scan[r].todo \subseteq Nat
      BY SoloTyped DEF TypeOK, Days
    <2>2. /\ \A i \in 1..Len(log) : i <= scan[r].last <=> log[i].day \notin scan[r].todo
          /\ \A i, j \in 1..Len(log) : i <= j => log[i].day <= log[j].day
      BY DEF SoloInv, ScanExact, DaysInOrder
    <2>3. QED
      BY <2>1, <2>2, SoloTyped
  <1>1. PICK d \in scan[r].todo, n \in 0..Len(log) :
           /\ \A e \in scan[r].todo : d <= e
           /\ IF InDay(d) = {} THEN n = scan[r].last ELSE LastInDay(n, d)
           /\ scan'[r] = [todo |-> scan[r].todo \ {d}, last |-> n]
    BY SoloTyped DEF FetchBlob, TypeOK
  <1>2. CASE InDay(d) = {}
    <2>1. \A i \in 1..Len(log) : log[i].day # d
      BY <1>0, <1>2 DEF InDay
    <2>2. QED
      BY <1>0, <1>1, <1>2, <2>1
  <1>3. CASE InDay(d) # {}
    <2>1. n \in 1..Len(log) /\ log[n].day = d
          /\ \A j \in 1..Len(log) : log[j].day = d => j <= n
      BY <1>0, <1>1, <1>3 DEF LastInDay, InDay
    <2>2. ~(n <= scan[r].last)
      BY <1>0, <1>1, <2>1
    <2>3. ASSUME NEW i \in 1..Len(log), i <= n
          PROVE  log[i].day \notin scan[r].todo \ {d}
      <3>1. log[i].day <= d
        BY <1>0, <2>1, <2>3
      <3>2. log[i].day \in scan[r].todo => log[i].day = d
        BY <1>0, <1>1, <3>1
      <3>3. QED
        BY <3>2
    <2>4. ASSUME NEW i \in 1..Len(log), ~(i <= n)
          PROVE  log[i].day \in scan[r].todo \ {d}
      <3>1. ~(i <= scan[r].last)
        BY <1>0, <2>1, <2>2, <2>4
      <3>2. log[i].day # d
        BY <2>1, <2>4
      <3>3. QED
        BY <1>0, <3>1, <3>2
    <2>5. QED
      BY <1>1, <2>3, <2>4
  <1>4. QED
    BY <1>2, <1>3

LEMMA SoloCallStep ==
  ASSUME TypeOK, WritesInOrder, NEW r, Alone(r), SoloInv(r), NEW t \in Threads,
         Write(r, t) \/ CallStep(r, t)
  PROVE  SoloInv(r)'
  <1>0. /\ up[r] = "up" /\ up' = up /\ today' = today
        /\ today \in Nat /\ created[r] \subseteq blobs
        /\ flight = {} /\ HeadCurrent(r)
        /\ call[r][t].pc \in {"idle", "built", "landed"}
        /\ ~AppendTimesOut(r, t) /\ ~AnswerLost(r, t)
        /\ r \in Replicas
    BY SoloTyped DEF Write, CallStep, EnsureBlob, EnsureBlobFails, AppendLands, AppendStale,
       AppendFails, AppendTimesOut, AnswerLost, AppendAnswered, Relist, Rebuild,
       RereadFails, Sending, At, SoloInv, DaysInOrder, HeadCurrent
  <1>1. ~AppendStale(r, t) /\ ~Relist(r, t) /\ ~Rebuild(r, t) /\ ~RereadFails(r, t)
    BY <1>0, NeverRefused DEF AppendStale, Relist, Rebuild, RereadFails, At
  <1>2. ScanExact(r)'
    BY <1>0 DEF ScanExact
  <1>3. CASE Write(r, t)
    <2>1. InSequence' /\ DaysInOrder(r)' /\ flight' = {}
      BY <1>0, <1>3, LogKept DEF Write, storage
    <2>2. /\ call'[r][t] = Built(head[r], calls + 1, 1)
          /\ UNCHANGED <<log, head, offset>>
      BY <1>0, <1>3 DEF Write, Moves, storage, TypeOK
    <2>3. \A u \in Threads : ~Busy(r, u)
      <3>1. call[r][t].pc = "idle" /\ lock[r] = Nobody
        BY <1>3 DEF Write, At
      <3>2. QED
        BY <1>0, <3>1, OneWriter DEF WritesInOrder, Busy
    <2>4. \A u \in Threads : u # t => ~Busy(r, u)'
      BY <1>0, <1>3, WriterAlone DEF WritesInOrder
    <2>5. /\ head[r].prev = Len(log) /\ head[r].seq = Len(log)
          /\ \A d \in Days : offset[r][d] # 0 => LastInDay(offset[r][d], d)
      BY <1>0, <2>3 DEF HeadCurrent, Waits, Busy
    <2>6. BuiltLast(call[r][t])'
      BY <1>0, <2>2, <2>5 DEF BuiltLast, Built, SoloInv, DaysInOrder
    <2>7. \A d \in Days : \A i : LastInDay(i, d)' <=> LastInDay(i, d)
      BY <2>2 DEF LastInDay, InDay
    <2>8. call'[r][t].pc = "built"
      BY <2>2 DEF Built
    <2>9. HeadCurrent(r)'
      BY <2>2, <2>4, <2>5, <2>6, <2>7, <2>8 DEF HeadCurrent, Busy
    <2>10. QED
      BY <1>2, <2>1, <2>9 DEF SoloInv
  <1>4. CASE EnsureBlob(r, t)
    <2>1. /\ blobs' = blobs \cup {call[r][t].day}
          /\ created'[r] = created[r] \cup {call[r][t].day}
          /\ UNCHANGED <<log, flight, up, head, offset, call>>
      BY <1>0, <1>4 DEF EnsureBlob, TypeOK
    <2>2. InSequence' /\ DaysInOrder(r)'
      BY <1>0, <2>1, LogKept
    <2>3. HeadCurrent(r)'
      BY <1>0, <2>1 DEF HeadCurrent, BuiltLast, LandedLast, Waits, LastInDay, InDay
    <2>4. QED
      BY <1>0, <1>2, <2>1, <2>2, <2>3 DEF SoloInv
  <1>5. CASE EnsureBlobFails(r, t) \/ AppendFails(r, t)
    <2>1. /\ call[r][t].pc = "built" /\ Leave(r, t) /\ CallStep(r, t)
          /\ blobs \subseteq blobs' /\ UNCHANGED <<log, flight, up, head, offset, created>>
      BY <1>5 DEF EnsureBlobFails, AppendFails, Sending, At, CallStep, storage
    <2>2. InSequence' /\ DaysInOrder(r)'
      BY <1>0, <2>1, LogKept
    <2>3. HeadCurrent(r)'
      BY <1>0, <2>1, HeadLeave
    <2>4. QED
      BY <1>0, <1>2, <2>1, <2>2, <2>3 DEF SoloInv
  <1>6. CASE AppendLands(r, t)
    <2>1. flight' = {}
      BY <1>0, <1>6 DEF AppendLands
    <2>2. QED
      BY <1>2, <1>6, <2>1, SoloLands DEF SoloInv
  <1>7. CASE AppendAnswered(r, t)
    <2>1. UNCHANGED <<log, blobs, flight, created>>
      BY <1>7 DEF AppendAnswered, storage
    <2>2. InSequence' /\ DaysInOrder(r)'
      BY <1>0, <2>1, LogKept
    <2>3. QED
      BY <1>0, <1>2, <1>7, <2>1, <2>2, SoloAnswered DEF SoloInv
  <1>8. QED
    BY <1>0, <1>1, <1>3, <1>4, <1>5, <1>6, <1>7 DEF CallStep

LEMMA SoloReplicaStep ==
  ASSUME TypeOK, WritesInOrder, NEW r, Alone(r), SoloInv(r), ReplicaStep(r)
  PROVE  SoloInv(r)'
  <1>0. /\ UNCHANGED <<log, blobs, flight, today>> /\ flight = {}
        /\ today \in Nat /\ created[r] \subseteq blobs /\ created'[r] \subseteq blobs
        /\ r \in Replicas
    BY SoloTyped DEF ReplicaStep, Start, FetchBlob, StartDone, StartFails, Stop, storage,
       SoloInv, DaysInOrder, TypeOK
  <1>1. InSequence' /\ DaysInOrder(r)'
    BY <1>0, LogKept
  <1>2. CASE Start(r)
    <2>1. up'[r] = "starting" /\ scan'[r] = Listing
      BY <1>0, <1>2 DEF Start, TypeOK
    <2>2. ScanExact(r)' /\ HeadCurrent(r)'
      BY <1>0, <2>1 DEF ScanExact, HeadCurrent, Listing, SoloInv, DaysInOrder
    <2>3. QED
      BY <1>0, <1>1, <2>2 DEF SoloInv
  <1>3. CASE FetchBlob(r)
    <2>1. HeadCurrent(r)'
      BY <1>0, <1>3 DEF FetchBlob, SoloInv, HeadCurrent, BuiltLast, LandedLast, Waits,
         LastInDay, InDay
    <2>2. QED
      BY <1>0, <1>1, <1>3, <2>1, SoloFetches DEF SoloInv
  <1>4. CASE StartDone(r)
    <2>1. /\ up[r] = "starting" /\ up'[r] = "up"
          /\ head'[r] = ReadHead(r)
          /\ UNCHANGED <<call, offset>>
          /\ scan[r].todo = {}
      BY <1>0, <1>4 DEF StartDone, TypeOK
    <2>2. scan[r].last = Len(log)
      <3>1. scan[r].last \in 0..Len(log) /\ Len(log) \in Nat
        BY <1>0, SoloTyped DEF TypeOK
      <3>2. \A i \in 1..Len(log) : i <= scan[r].last
        BY <2>1 DEF SoloInv, ScanExact
      <3>3. Len(log) # 0 => Len(log) <= scan[r].last
        BY <3>1, <3>2
      <3>4. QED
        BY <3>1, <3>3
    <2>3. head'[r].prev = Len(log) /\ head'[r].seq = Len(log)
      <3>1. Len(log) \in Nat
        BY SoloTyped
      <3>2. SeqAt(Len(log)) = Len(log)
        BY <3>1 DEF SeqAt, SoloInv, InSequence
      <3>3. QED
        BY <2>1, <2>2, <3>2 DEF ReadHead
    <2>4. /\ \A t \in Threads : call[r][t].pc = "idle"
          /\ \A d \in Days : offset[r][d] = 0
      BY <1>0, <2>1 DEF WritesInOrder, ReplicaInOrder, PositionsInOrder, CallInOrder, Busy
    <2>5. HeadCurrent(r)'
      BY <1>0, <2>1, <2>3, <2>4 DEF HeadCurrent
    <2>6. ScanExact(r)'
      BY <2>1 DEF ScanExact
    <2>7. QED
      BY <1>0, <1>1, <2>5, <2>6 DEF SoloInv
  <1>5. CASE StartFails(r) \/ Stop(r)
    <2>1. up'[r] = "down"
      BY <1>0, <1>5 DEF StartFails, Stop, TypeOK
    <2>2. QED
      BY <1>0, <1>1, <2>1 DEF SoloInv, ScanExact, HeadCurrent
  <1>6. QED
    BY <1>2, <1>3, <1>4, <1>5 DEF ReplicaStep

LEMMA SoloStep ==
  ASSUME TypeOK, WritesInOrder, NEW r, Alone(r), SoloInv(r), [Next]_vars
  PROVE  SoloInv(r)'
  <1>1. CASE \E p \in Replicas, t \in Threads : Write(p, t) \/ CallStep(p, t)
    BY <1>1, SoloCallStep DEF Alone
  <1>2. CASE \E p \in Replicas : ReplicaStep(p)
    BY <1>2, SoloReplicaStep DEF Alone
  <1>3. CASE \E f \in flight : LateAppend(f)
    BY <1>3 DEF SoloInv
  <1>4. CASE NextDay \/ UNCHANGED vars
    <2>1. /\ UNCHANGED <<log, blobs, flight, up, head, created, offset, scan, call>>
          /\ today' \in {today, today + 1}
      BY <1>4 DEF NextDay, vars, storage
    <2>2. today' \in Nat /\ today <= today' /\ created[r] \subseteq blobs
      BY <2>1, SoloTyped DEF SoloInv, DaysInOrder
    <2>3. InSequence' /\ DaysInOrder(r)'
      BY <2>1, <2>2, LogKept
    <2>4. HeadCurrent(r)' /\ ScanExact(r)'
      BY <2>1 DEF SoloInv, HeadCurrent, ScanExact, BuiltLast, LandedLast, Waits, LastInDay,
         InDay
    <2>5. QED
      BY <2>1, <2>3, <2>4 DEF SoloInv
  <1>5. QED
    BY <1>1, <1>2, <1>3, <1>4 DEF Next

-------------------------------------------------------------------------------
(* The theorems.                                                           *)

\* One replica at a time, every request answered: verify_chain finds the
\* container intact, whatever fails, at every midnight and after every restart.
THEOREM OneReplicaKeepsTheChain ==
  ASSUME NEW r, Alone(r)
  PROVE  Spec => []ChainIntact
  <1>1. Init => SoloInv(r)
    BY SoloInit
  <1>2. TypeOK /\ WritesInOrder /\ SoloInv(r) /\ [Next]_vars => SoloInv(r)'
    BY SoloStep
  <1>3. TypeOK /\ WritesInOrder /\ [Next]_vars => WritesInOrder'
    BY OrderStep
  <1>4. ASSUME TypeOK, SoloInv(r)
        PROVE  ChainIntact
    <2> SUFFICES ASSUME NEW i \in 1..Len(log)
                 PROVE  Linked(i)
      BY <1>4, SoloTyped DEF ChainIntact
    <2>0. /\ Len(log) \in Nat /\ DOMAIN log = 1..Len(log)
          /\ \A k \in 1..Len(log) : log[k].day \in Nat
          /\ \A k, j \in 1..Len(log) : k <= j => log[k].day <= log[j].day
      BY <1>4, SoloTyped DEF SoloInv, DaysInOrder
    <2>1. log[i].prev = i - 1 /\ log[i].seq = i
      BY <1>4 DEF SoloInv, InSequence
    <2>2. SeqAt(i - 1) = i - 1
      BY <1>4, <2>0 DEF SeqAt, SoloInv, InSequence
    <2>3. \A k, j \in 1..Len(log) : k < j => ReadBefore(k, j)
      BY <2>0 DEF ReadBefore
    <2>4. \A k, j \in 1..Len(log) : ReadBefore(k, j) => k < j
      BY <2>0 DEF ReadBefore
    <2>5. i - 1 # 0 => i - 1 \in 1..Len(log) /\ ReadBefore(i - 1, i)
      BY <2>0, <2>3
    <2>6. ASSUME NEW k \in 1..Len(log), ReadBefore(k, i)
          PROVE  k = i - 1 \/ (i - 1 # 0 /\ ReadBefore(k, i - 1))
      <3>1. k < i
        BY <2>4, <2>6
      <3>2. k = i - 1 \/ (i - 1 \in 1..Len(log) /\ k < i - 1)
        BY <2>0, <3>1
      <3>3. QED
        BY <2>3, <3>2
    <2>7. QED
      BY <2>0, <2>1, <2>2, <2>5, <2>6 DEF Linked
  <1>5. QED
    BY <1>1, <1>2, <1>3, <1>4, OrderInit, TypeCorrect, PTL DEF Spec

-------------------------------------------------------------------------------
(* The refinement.                                                         *)

Entries == [seq : Nat, prev : Nat, ev : Nat]

EntryOf(b) == [seq |-> b.seq, prev |-> b.prev, ev |-> b.ev]

ChainOf(s) == [i \in DOMAIN s |-> EntryOf(s[i])]

\* The sequence that stands for ChainLog's chain.
Chain == ChainOf(log)

LEMMA ChainTyped ==
  ASSUME NEW s \in Seq(Blocks)
  PROVE  /\ ChainOf(s) \in Seq(Entries)
         /\ Len(ChainOf(s)) = Len(s)
         /\ Len(s) \in Nat
         /\ DOMAIN ChainOf(s) = 1..Len(s)
         /\ \A i \in 1..Len(s) : ChainOf(s)[i] = EntryOf(s[i])
  <1>1. Len(s) \in Nat /\ DOMAIN s = 1..Len(s) /\ \A i \in 1..Len(s) : s[i] \in Blocks
    BY LenProperties, ElementOfSeq
  <1>2. \A i \in 1..Len(s) : EntryOf(s[i]) \in Entries
    BY <1>1 DEF EntryOf, Entries, Blocks
  <1>3. ChainOf(s) \in [1..Len(s) -> Entries]
    BY <1>1, <1>2 DEF ChainOf
  <1>4. ChainOf(s) \in Seq(Entries)
    BY <1>1, <1>3, SeqDef
  <1>5. DOMAIN ChainOf(s) = 1..Len(s)
    BY <1>1 DEF ChainOf
  <1>6. Len(ChainOf(s)) = Len(s)
    BY <1>1, <1>4, <1>5, LenProperties
  <1>7. QED
    BY <1>1, <1>4, <1>5, <1>6 DEF ChainOf

\* A committed block is the entry that its call records in the chain.
LEMMA CommitRecords ==
  ASSUME TypeOK, TypeOK', CallsInv, NEW r, Alone(r), SoloInv(r), NEW t \in Threads,
         AppendLands(r, t)
  PROVE  Promise!Record(call[r][t].ev)
  <1> DEFINE c == call[r][t]
  <1>0. /\ c \in Calls /\ c.pc = "built" /\ up[r] = "up" /\ BuiltLast(c) /\ r \in Replicas
        /\ Len(log) \in Nat
    BY SoloTyped DEF AppendLands, Sending, At, SoloInv, HeadCurrent
  <1>1. /\ Len(log') = Len(log) + 1
        /\ \A i \in 1..Len(log) : log'[i] = log[i]
        /\ log'[Len(log) + 1] = Block(c, Expected(r, t))
    BY <1>0, CallsTyped, BlockType, AppendBlock, LogType DEF AppendLands
  <1>2. /\ Chain \in Seq(Entries)
        /\ Len(Chain) = Len(log)
        /\ DOMAIN Chain = 1..Len(log)
        /\ \A i \in 1..Len(log) : Chain[i] = EntryOf(log[i])
    BY ChainTyped DEF TypeOK, Chain
  <1>3. /\ Chain' \in Seq(Entries)
        /\ Len(Chain') = Len(log')
        /\ \A i \in 1..Len(log') : Chain'[i] = EntryOf(log'[i])
    BY ChainTyped DEF TypeOK, Chain
  <1>4. \A i \in DOMAIN Chain : Chain[i].ev # c.ev
    <2>1. c.ev \notin Recorded
      BY <1>0 DEF CallsInv, Busy
    <2>2. QED
      BY <1>2, <2>1 DEF Recorded, EntryOf
  <1> DEFINE e == Promise!Chained(Chain, c.ev)
  <1>5. e = [seq |-> Len(log) + 1, prev |-> Len(log), ev |-> c.ev]
    BY <1>2 DEF Promise!Chained
  <1>6. e \in Entries
    BY <1>0, <1>5 DEF Entries, Calls
  <1>7. /\ Append(Chain, e) \in Seq(Entries)
        /\ Len(Append(Chain, e)) = Len(log) + 1
        /\ \A i \in 1..Len(log) : Append(Chain, e)[i] = Chain[i]
        /\ Append(Chain, e)[Len(log) + 1] = e
    BY <1>2, <1>6, AppendProperties
  <1>8. \A i \in 1..Len(log) : Chain'[i] = Chain[i]
    BY <1>0, <1>1, <1>2, <1>3
  <1>9. Chain'[Len(log) + 1] = e
    BY <1>0, <1>1, <1>3, <1>5 DEF Block, BuiltLast, EntryOf
  <1>10. Chain' = Append(Chain, e)
    <2>1. \A i \in 1..Len(Chain') : i \in 1..Len(log) \/ i = Len(log) + 1
      BY <1>0, <1>1, <1>3
    <2>2. \A i \in 1..Len(Chain') : Chain'[i] = Append(Chain, e)[i]
      BY <1>7, <1>8, <1>9, <2>1
    <2>3. QED
      BY <1>1, <1>3, <1>7, <2>2, SeqEqual
  <1>11. QED
    BY <1>4, <1>10 DEF Promise!Record, Chain, ChainOf, EntryOf

\* The initial states map to the empty chain.
LEMMA PromiseInit == Init => Promise!Init
  <1> SUFFICES ASSUME Init PROVE Chain = <<>>
    BY DEF Promise!Init, Chain, ChainOf, EntryOf
  <1>1. log = <<>> /\ log \in Seq(Blocks)
    BY DEF Init
  <1>2. Chain \in Seq(Entries) /\ Len(Chain) = 0
    BY <1>1, ChainTyped DEF Chain
  <1>3. QED
    BY <1>2, EmptySeq

\* A step records one more call at the end of the chain, or leaves it alone.
LEMMA PromiseStep ==
  ASSUME TypeOK, TypeOK', WritesInOrder, CallsInv, NEW r, Alone(r), SoloInv(r), [Next]_vars
  PROVE  [Promise!Next]_Chain
  <1>1. CASE UNCHANGED log
    BY <1>1 DEF Chain, ChainOf
  <1>2. CASE \E t \in Threads : AppendLands(r, t)
    <2>1. PICK t \in Threads : AppendLands(r, t)
      BY <1>2
    <2>2. call[r][t].ev \in 1..MaxCalls
      <3>1. call[r][t].ev \in 1..calls
        BY <2>1, SoloTyped DEF AppendLands, Sending, At, CallsInv, Busy
      <3>2. calls \in 0..MaxCalls /\ MaxCalls \in Nat
        BY TrailAssumption DEF TypeOK
      <3>3. QED
        BY <3>1, <3>2
    <2>3. Promise!Record(call[r][t].ev)
      BY <2>1, CommitRecords
    <2>4. Promise!Next
      BY <2>2, <2>3 DEF Promise!Next, Promise!Record
    <2>5. QED
      BY <2>4
  <1>3. [Next]_vars => UNCHANGED log \/ \E t \in Threads : AppendLands(r, t)
    <2>1. ASSUME NEW t \in Threads, Write(r, t) \/ CallStep(r, t)
          PROVE  UNCHANGED log \/ AppendLands(r, t)
      BY <2>1 DEF Write, CallStep, EnsureBlob, EnsureBlobFails, AppendStale, AppendFails,
         AppendTimesOut, AnswerLost, AppendAnswered, Relist, Rebuild, RereadFails, storage
    <2>2. CASE \E p \in Replicas : ReplicaStep(p)
      BY <2>2 DEF ReplicaStep, Start, FetchBlob, StartDone, StartFails, Stop, storage
    <2>3. ~ \E f \in flight : LateAppend(f)
      BY DEF SoloInv
    <2>4. CASE NextDay \/ UNCHANGED vars
      BY <2>4 DEF NextDay, vars, storage
    <2>5. QED
      BY <2>1, <2>2, <2>3, <2>4 DEF Next, Alone
  <1>4. QED
    BY <1>1, <1>2, <1>3

\* One replica at a time, every request answered: the container is what the
\* audit trail promises, one record after the other, each call once.
THEOREM OneReplicaKeepsThePromise ==
  ASSUME NEW r, Alone(r)
  PROVE  Spec => ChainPromise
  <1>1. Init => SoloInv(r)
    BY SoloInit
  <1>2. TypeOK /\ WritesInOrder /\ SoloInv(r) /\ [Next]_vars => SoloInv(r)'
    BY SoloStep
  <1>3. TypeOK /\ WritesInOrder /\ [Next]_vars => WritesInOrder'
    BY OrderStep
  <1>4. TypeOK /\ CallsInv /\ [Next]_vars => CallsInv'
    BY CallsStep
  <1>5. TypeOK /\ TypeOK' /\ WritesInOrder /\ CallsInv /\ SoloInv(r) /\ [Next]_vars
           => [Promise!Next]_Chain
    BY PromiseStep
  <1>6. QED
    BY <1>1, <1>2, <1>3, <1>4, <1>5, PromiseInit, OrderInit, CallsInit, TypeCorrect,
       PTL DEF Spec, ChainPromise, Promise!Spec, Chain, ChainOf, EntryOf
===============================================================================
