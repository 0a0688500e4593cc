----------------------------- MODULE Logs_proofs -----------------------------
(***************************************************************************)
(* Proofs about the logs, for every value of the constants: the log in the *)
(* database (HostedLog), the log in a file and its copies (FileLog, with   *)
(* what the Merkle tree computes), and the witness of either (Witness).    *)
(* The three are read together, which is why the names of the second and   *)
(* the third say whose they are (FileNext, WitnessNext).                   *)
(***************************************************************************)
EXTENDS HostedLog, FileLog, Witness, SequenceTheorems, WellFoundedInduction, TLAPS

-------------------------------------------------------------------------------
(***************************************************************************)
(* What HostedLog.tla guarantees for every set of appends, instances and   *)
(* reads and every number of crashes.  Without conditions: the lock and    *)
(* the count under it.  As long as no instance both appends and is read    *)
(* from: one history behind every head and every acknowledgement, so that  *)
(* the race HostedLog_readers.cfg shows is the only way to lose it.        *)
(***************************************************************************)

(* No instance serves heads and appends both.                              *)
ReadersApart == Appenders \cap Readers = {}

(* At most one instance is inside the advisory lock.                       *)
OneHolder ==
    \A i, j \in Instances : tx[i] \in Holding /\ tx[j] \in Holding => i = j

(* h is a head of the table.                                               *)
HeadOfTable(h) ==
    Len(h) <= Len(table) /\ \A k \in 1..Len(h) : h[k] = table[k]

(* Only an appender has a queue; only a reader is being read.              *)
Roles ==
    /\ \A i \in Instances : queue[i] # <<>> => i \in Appenders
    /\ \A r \in Reads : read[r].phase \in {"asking", "counted", "selecting", "selected"} =>
          read[r].at \in Readers

(* What an instance remembers is a head of the table; while its INSERT     *)
(* stands it is the whole table, and until the answer to its COMMIT the    *)
(* table has its row right after it.  Rows on their way are a head too.    *)
MemoryTruthful ==
    /\ \A i \in Instances :
          /\ HeadOfTable(hashes[i])
          /\ tx[i] = "inserted" => Len(hashes[i]) = Len(table)
          /\ tx[i] = "committed" => /\ Len(hashes[i]) < Len(table)
                                    /\ table[Len(hashes[i]) + 1] = queue[i][1]
    /\ \A r \in Reads : read[r].phase = "selected" => HeadOfTable(read[r].rows)

HeadsTruthful == \A h \in heads : HeadOfTable(h)

LockInv == TypeOK /\ OneHolder /\ NextSeqInserted
LogInv == LockInv /\ Roles /\ MemoryTruthful /\ HeadsTruthful /\ AcksStand

-------------------------------------------------------------------------------
LEMMA AppendKeeps ==
    ASSUME NEW S, NEW q \in Seq(S), NEW x \in S
    PROVE  /\ Append(q, x) \in Seq(S)
           /\ Len(q) \in Nat /\ Len(Append(q, x)) = Len(q) + 1
           /\ \A k \in 1..Len(q) : Append(q, x)[k] = q[k]
           /\ Append(q, x)[Len(q) + 1] = x
  BY AppendProperties, LenProperties

LEMMA QueueMoves ==
    ASSUME NEW S, NEW q \in Seq(S), q # <<>>
    PROVE  Head(q) \in S /\ Head(q) = q[1] /\ Tail(q) \in Seq(S)
  BY SMT

LEMMA ReadUpdates ==
    ASSUME NEW q \in ReadStates
    PROVE  /\ \A i \in Instances : [q EXCEPT !.phase = "asking", !.at = i] \in ReadStates
           /\ \A n \in Nat :
                 /\ [q EXCEPT !.phase = "counted", !.count = n] \in ReadStates
                 /\ [q EXCEPT !.phase = "asking", !.round = 2, !.size = n] \in ReadStates
           /\ \A h \in Seq(Leaves) : [q EXCEPT !.phase = "selected", !.rows = h] \in ReadStates
           /\ [q EXCEPT !.phase = "selecting"] \in ReadStates
           /\ [q EXCEPT !.phase = "done"] \in ReadStates
           /\ q.at \in Instances /\ q.rows \in Seq(Leaves) /\ q.size \in Nat
  BY DEF ReadStates

(* What a sync leads to is well typed.                                     *)
LEMMA SyncedTyped ==
    ASSUME TypeOK, NEW r \in Reads, NEW h \in Seq(Leaves), Synced(r, h)
    PROVE  /\ read' \in [Reads -> ReadStates]
           /\ heads' \subseteq Seq(Leaves)
  <1>1. Len(h) \in Nat
    BY LenProperties
  <1>2. read[r].size <= Len(h) => SubSeq(h, 1, read[r].size) \in Seq(Leaves)
    <2>1. read[r].size \in Nat
      BY DEF TypeOK, ReadStates
    <2> QED BY <1>1, <2>1, SubSeqProperties, LenProperties
  <1>3. CASE read[r].round = 1
    <2>1. [read[r] EXCEPT !.phase = "asking", !.round = 2, !.size = Len(h)] \in ReadStates
      BY <1>1, ReadUpdates DEF TypeOK
    <2> QED BY <1>3, <2>1 DEF Synced, TypeOK
  <1>4. CASE read[r].round # 1
    <2>1. [read[r] EXCEPT !.phase = "done"] \in ReadStates
      BY ReadUpdates DEF TypeOK
    <2> QED BY <1>2, <1>4, <2>1 DEF Synced, TypeOK
  <1> QED BY <1>3, <1>4

-------------------------------------------------------------------------------
(* log-store.ts:150-171, with nothing assumed of who reads where: the      *)
(* advisory lock is held by one instance at a time, and the INSERT made    *)
(* under it takes the seq right after the last row.                        *)
LEMMA LockInvInit == Init => LockInv
  <1> SUFFICES ASSUME Init PROVE LockInv
    OBVIOUS
  <1>1. TypeOK
    <2>1. (CHOOSE i \in Instances : TRUE) \in Instances
      BY HostedLogAssumption
    <2>2. <<>> \in Seq(Leaves)
      OBVIOUS
    <2> QED BY <2>1, <2>2, HostedLogAssumption DEF Init, Idle, TypeOK, ReadStates
  <1> QED BY <1>1 DEF Init, LockInv, OneHolder, NextSeqInserted, Holding

LEMMA LockInvNext == LockInv /\ [Next]_vars => LockInv'
  <1> SUFFICES ASSUME LockInv, [Next]_vars PROVE LockInv'
    OBVIOUS
  <1> USE DEF LockInv
  <1>t. TypeOK'
    <2> USE DEF TypeOK
    <2>1. ASSUME NEW i \in Instances, Boot(i) \/ BootFails(i) PROVE TypeOK'
      <3>1. /\ boot' \in [Instances -> {"cold", "ready", "broken"}]
            /\ \A j \in Instances : boot[j] = "ready" => boot'[j] = "ready"
        BY <2>1 DEF Boot, BootFails
      <3>2. hashes' \in [Instances -> Seq(Leaves)]
        BY <2>1 DEF Boot, BootFails
      <3> QED BY <2>1, <3>1, <3>2 DEF Boot, BootFails, dbVars, outVars
    <2>2. ASSUME NEW l \in Leaves, NEW i \in Instances, Request(l, i) PROVE TypeOK'
      <3>1. /\ \A j \in Instances : queue'[j] # queue[j] => j = i
            /\ queue[i] \in Seq(Leaves)
            /\ queue'[i] = Append(queue[i], l)
            /\ queue' = [queue EXCEPT ![i] = queue'[i]]
        BY <2>2 DEF Request
      <3>2. queue'[i] \in Seq(Leaves) /\ queue'[i] # <<>>
        BY <3>1
      <3> QED BY <2>2, <3>1, <3>2 DEF Request, dbVars, outVars
    <2>d. ASSUME NEW i \in Instances, queue[i] # <<>>
          PROVE  Current(i) \in Leaves /\ Tail(queue[i]) \in Seq(Leaves)
      BY <2>d, QueueMoves DEF Current
    <2>3. ASSUME NEW i \in Instances, Lock(i) PROVE TypeOK'
      BY <2>3 DEF Lock, dbVars, outVars
    <2>4. ASSUME NEW i \in Instances, Insert(i) PROVE TypeOK'
      <3>1. hashes'[i] \in Seq(Leaves) /\ hashes' \in [Instances -> Seq(Leaves)]
        BY <2>4 DEF Insert
      <3>2. Len(hashes'[i]) + 1 \in Nat
        BY <3>1, LenProperties
      <3> QED BY <2>4, <3>1, <3>2 DEF Insert, outVars
    <2>5. ASSUME NEW i \in Instances, Commit(i) PROVE TypeOK'
      <3>1. queue[i] # <<>>
        BY <2>5 DEF Commit
      <3>2. table' \in Seq(Leaves)
        BY <2>5, <3>1, <2>d, AppendKeeps DEF Commit
      <3> QED BY <2>5, <3>2 DEF Commit, outVars
    <2>6. ASSUME NEW i \in Instances, Fail(i) \/ Refuse(i) PROVE TypeOK'
      <3>1. queue[i] # <<>>
        BY <2>6 DEF Fail, Refuse
      <3>2. /\ failed' = failed \cup {Current(i)}
            /\ queue' = [queue EXCEPT ![i] = Tail(queue[i])]
            /\ tx' = [tx EXCEPT ![i] = "none"]
        BY <2>6 DEF Fail, Refuse, Dequeue
      <3>3. failed' \subseteq Leaves /\ queue' \in [Instances -> Seq(Leaves)]
        BY <3>1, <3>2, <2>d
      <3> QED BY <2>6, <3>2, <3>3 DEF Fail, Refuse, dbVars
    <2>7. ASSUME NEW i \in Instances, Push(i) PROVE TypeOK'
      <3>1. queue[i] # <<>>
        BY <2>7 DEF Push
      <3>2. hashes'[i] = Append(hashes[i], Current(i)) /\ hashes' = [hashes EXCEPT ![i] = hashes'[i]]
        BY <2>7 DEF Push
      <3>3. hashes'[i] \in Seq(Leaves) /\ AckIndex(hashes'[i]) \in Nat
        BY <3>1, <3>2, <2>d, AppendKeeps DEF AckIndex
      <3>4. acked' \subseteq [leaf : Leaves, index : Nat]
        BY <2>7, <3>1, <3>3, <2>d DEF Push
      <3>5. queue' \in [Instances -> Seq(Leaves)]
        BY <2>7, <3>1, <2>d DEF Push, Dequeue
      <3> QED BY <2>7, <3>2, <3>3, <3>4, <3>5 DEF Push, Dequeue, dbVars
    <2>8. ASSUME NEW i \in Instances, Crash(i) PROVE TypeOK'
      <3>1. Range(queue[i]) \subseteq Leaves
        BY RangeOfSeq
      <3>2. crashed' \in 0..Crashes
        BY <2>8, HostedLogAssumption DEF Crash
      <3>3. read' \in [Reads -> ReadStates]
        BY <2>8, ReadUpdates DEF Crash
      <3> QED BY <2>8, <3>1, <3>2, <3>3 DEF Crash, dbVars
    <2>9. ASSUME NEW r \in Reads, ReadFresh(r) \/ ReadReload(r) PROVE TypeOK'
      <3>1. PICK h \in Seq(Leaves) :
               /\ Synced(r, h)
               /\ UNCHANGED hashes \/ hashes' = [hashes EXCEPT ![read[r].at] = h]
        <4>1. read[r].at \in Instances /\ read[r].rows \in Seq(Leaves)
          BY ReadUpdates
        <4> QED BY <2>9, <4>1 DEF ReadFresh, ReadReload, instVars
      <3>2. hashes' \in [Instances -> Seq(Leaves)]
        BY <3>1
      <3> QED BY <2>9, <3>1, <3>2, SyncedTyped DEF ReadFresh, ReadReload, dbVars, instVars
    <2>10. ASSUME NEW r \in Reads, ReadCount(r) \/ ReadStale(r) \/ ReadSelect(r)
           PROVE  TypeOK'
      <3>1. Len(table) \in Nat
        BY LenProperties
      <3>2. read' \in [Reads -> ReadStates]
        <4>1. /\ [read[r] EXCEPT !.phase = "counted", !.count = Len(table)] \in ReadStates
              /\ [read[r] EXCEPT !.phase = "selected", !.rows = table] \in ReadStates
              /\ [read[r] EXCEPT !.phase = "selecting"] \in ReadStates
          BY <3>1, ReadUpdates
        <4> QED BY <2>10, <4>1 DEF ReadCount, ReadStale, ReadSelect
      <3> QED BY <2>10, <3>2 DEF ReadCount, ReadStale, ReadSelect, dbVars, instVars, outVars
    <2>11. ASSUME NEW r \in Reads, NEW i \in Instances, ReadStart(r, i) PROVE TypeOK'
      <3>1. read' \in [Reads -> ReadStates]
        BY <2>11, ReadUpdates DEF ReadStart
      <3> QED BY <2>11, <3>1 DEF ReadStart, dbVars, instVars, outVars
    <2>12. CASE UNCHANGED vars
      BY <2>12 DEF vars, dbVars, instVars, outVars
    <2> QED BY <2>1, <2>2, <2>3, <2>4, <2>5, <2>6, <2>7, <2>8, <2>9, <2>10, <2>11, <2>12
            DEF Next, AppendStep, ReadStep
  <1>l. OneHolder' /\ NextSeqInserted'
    <2> USE DEF OneHolder, NextSeqInserted, Holding
    <2>1. ASSUME UNCHANGED <<table, seq>>,
                 \A j \in Instances : tx'[j] \in Holding => tx'[j] = tx[j]
          PROVE  OneHolder' /\ NextSeqInserted'
      BY <2>1
    <2>2. ASSUME NEW i \in Instances, Lock(i) PROVE OneHolder' /\ NextSeqInserted'
      BY <2>2 DEF Lock, LockFree, TypeOK, dbVars
    <2>3. ASSUME NEW i \in Instances, Insert(i) PROVE OneHolder' /\ NextSeqInserted'
      <3>1. hashes[i] \in Seq(Leaves) /\ table \in Seq(Leaves) /\ tx[i] = "locked"
        BY <2>3 DEF Insert, TypeOK
      <3>2. Len(hashes'[i]) = Len(table)
        BY <2>3, <3>1 DEF Insert, TypeOK
      <3>3. \A j \in Instances : tx'[j] \in Holding => tx[j] \in Holding
        BY <2>3 DEF Insert, TypeOK
      <3>4. \A j \in Instances : tx'[j] = "inserted" => j = i
        BY <2>3, <3>1 DEF Insert, TypeOK
      <3>5. seq'[i] = Len(table') + 1
        BY <2>3, <3>2 DEF Insert, TypeOK
      <3> QED BY <3>3, <3>4, <3>5
    <2>4. ASSUME NEW i \in Instances, Commit(i) PROVE OneHolder' /\ NextSeqInserted'
      BY <2>4 DEF Commit, TypeOK
    <2>5. ASSUME NEW i \in Instances, Fail(i) \/ Refuse(i) \/ Push(i) \/ Crash(i)
          PROVE  OneHolder' /\ NextSeqInserted'
      BY <2>1, <2>5 DEF Fail, Refuse, Push, Crash, dbVars, TypeOK
    <2>6. ASSUME UNCHANGED <<table, seq, tx>> PROVE OneHolder' /\ NextSeqInserted'
      BY <2>6
    <2>7. ASSUME NEW i \in Instances, Boot(i) \/ BootFails(i)
          PROVE  OneHolder' /\ NextSeqInserted'
      BY <2>6, <2>7 DEF Boot, BootFails, dbVars
    <2>8. ASSUME NEW l \in Leaves, NEW i \in Instances, Request(l, i)
          PROVE  OneHolder' /\ NextSeqInserted'
      BY <2>6, <2>8 DEF Request, dbVars
    <2>9. ASSUME NEW r \in Reads, ReadStep(r) \/ \E i \in Instances : ReadStart(r, i)
          PROVE  OneHolder' /\ NextSeqInserted'
      BY <2>6, <2>9 DEF ReadStep, ReadStart, ReadCount, ReadFresh, ReadStale, ReadSelect,
         ReadReload, dbVars, instVars
    <2>10. CASE UNCHANGED vars
      BY <2>6, <2>10 DEF vars, dbVars, instVars
    <2> QED BY <2>2, <2>3, <2>4, <2>5, <2>7, <2>8, <2>9, <2>10 DEF Next, AppendStep
  <1> QED BY <1>t, <1>l

(* Appends go through the advisory lock one at a time, so that the seq an  *)
(* INSERT takes is the table's next (log-store.ts:166-171), whoever reads  *)
(* beside it.                                                              *)
THEOREM LockSound == Spec => [](TypeOK /\ NextSeqInserted)
  <1>1. LockInv => TypeOK /\ NextSeqInserted
    BY DEF LockInv
  <1> QED BY LockInvInit, LockInvNext, <1>1, PTL DEF Spec

-------------------------------------------------------------------------------
(* A step of a read moves that read only, and only ReadSelect brings rows. *)
LEMMA ReadMoves ==
    ASSUME TypeOK, NEW r \in Reads, ReadStep(r)
    PROVE  /\ read[r].phase \in {"asking", "counted", "selecting", "selected"}
           /\ read'[r].at = read[r].at
           /\ read'[r].phase = "selected" => ReadSelect(r)
           /\ \A q \in Reads : q # r => read'[q] = read[q]
  <1>0. read \in [Reads -> ReadStates] /\ read[r] \in ReadStates
    BY DEF TypeOK
  <1>1. CASE ReadCount(r) \/ ReadStale(r) \/ ReadSelect(r)
    <2>1. CASE ReadCount(r)
      BY <1>0, <2>1 DEF ReadCount, ReadStates
    <2>2. CASE ReadStale(r)
      BY <1>0, <2>2 DEF ReadStale, ReadStates
    <2>3. CASE ReadSelect(r)
      BY <1>0, <2>3 DEF ReadSelect, ReadStates
    <2> QED BY <1>1, <2>1, <2>2, <2>3
  <1>2. CASE ReadFresh(r) \/ ReadReload(r)
    <2>1. PICK h : Synced(r, h)
      BY <1>2 DEF ReadFresh, ReadReload
    <2>2. read[r].phase \in {"counted", "selected"}
      BY <1>2 DEF ReadFresh, ReadReload
    <2>3. /\ read'[r].at = read[r].at /\ read'[r].phase \in {"asking", "done"}
          /\ \A q \in Reads : q # r => read'[q] = read[q]
      <3>1. CASE read[r].round = 1
        <4> DEFINE moved == [read[r] EXCEPT !.phase = "asking", !.round = 2, !.size = Len(h)]
        <4>1. moved.phase = "asking" /\ moved.at = read[r].at
          BY <1>0 DEF ReadStates
        <4>2. read' = [read EXCEPT ![r] = moved]
          BY <2>1, <3>1 DEF Synced
        <4> HIDE DEF moved
        <4> QED BY <1>0, <4>1, <4>2
      <3>2. CASE read[r].round # 1
        BY <1>0, <2>1, <3>2 DEF Synced, ReadStates
      <3> QED BY <3>1, <3>2
    <2> QED BY <2>2, <2>3
  <1> QED BY <1>1, <1>2 DEF ReadStep

(* What was a head of the table stays one, and heads of heads are heads.   *)
LEMMA HeadsStay ==
    ASSUME TypeOK, NEW x \in Leaves, UNCHANGED table \/ table' = Append(table, x),
           NEW h, Len(h) \in Nat, HeadOfTable(h)
    PROVE  HeadOfTable(h)'
  <1>1. table \in Seq(Leaves)
    BY DEF TypeOK
  <1> QED BY <1>1, AppendKeeps DEF HeadOfTable

LEMMA HeadsOfHeads ==
    ASSUME TypeOK, NEW h \in Seq(Leaves), HeadOfTable(h), NEW n \in 0..Len(h)
    PROVE  HeadOfTable(SubSeq(h, 1, n))
  <1>1. Len(h) \in Nat /\ Len(table) \in Nat
    BY LenProperties DEF TypeOK
  <1>2. /\ Len(SubSeq(h, 1, n)) = n
        /\ \A k \in 1..n : SubSeq(h, 1, n)[k] = h[k]
    BY <1>1, SubSeqProperties, LenProperties
  <1> QED BY <1>1, <1>2 DEF HeadOfTable

LEMMA HeadOfTableIsSubSeq ==
    ASSUME TypeOK, NEW h \in Seq(Leaves), HeadOfTable(h)
    PROVE  Len(h) \in 0..Len(table) /\ h = SubSeq(table, 1, Len(h))
  <1>1. table \in Seq(Leaves) /\ Len(h) \in Nat /\ Len(table) \in Nat /\ Len(h) <= Len(table)
    BY LenProperties DEF TypeOK, HeadOfTable
  <1>2. /\ SubSeq(table, 1, Len(h)) \in Seq(Leaves)
        /\ Len(SubSeq(table, 1, Len(h))) = Len(h)
        /\ \A k \in 1..Len(h) : SubSeq(table, 1, Len(h))[k] = table[k]
    BY <1>1, SubSeqProperties, LenProperties
  <1>3. \A k \in 1..Len(h) : h[k] = SubSeq(table, 1, Len(h))[k]
    BY <1>2 DEF HeadOfTable
  <1>4. h = SubSeq(table, 1, Len(h))
    BY <1>2, <1>3, SeqEqual
  <1> QED BY <1>1, <1>4

(* A read signs at most a head of the memory it synced to.                 *)
LEMMA SyncedHeads ==
    ASSUME TypeOK, HeadsTruthful, UNCHANGED table, NEW r \in Reads,
           NEW h \in Seq(Leaves), HeadOfTable(h), Synced(r, h)
    PROVE  HeadsTruthful'
  <1>1. heads' \subseteq heads \cup {SubSeq(h, 1, n) : n \in 0..Len(h)}
    <2>1. read[r].size \in Nat /\ Len(h) \in Nat
      BY ReadUpdates, LenProperties DEF TypeOK
    <2> QED BY <2>1 DEF Synced
  <1>2. \A g \in heads' : HeadOfTable(g)
    BY <1>1, HeadsOfHeads DEF HeadsTruthful
  <1> QED BY <1>2 DEF HeadsTruthful, HeadOfTable

-------------------------------------------------------------------------------
(* log-store.ts:1-5, 164-174, where no instance both appends and is read:  *)
(* a memory the database answered from is never replaced by an older one.  *)
LEMMA LogInvInit == Init => LogInv
  <1> SUFFICES ASSUME Init PROVE LogInv
    OBVIOUS
  <1>1. LockInv
    BY LockInvInit
  <1> QED BY <1>1 DEF Init, Idle, LogInv, Roles, MemoryTruthful, HeadsTruthful, AcksStand,
       HeadOfTable

LEMMA LogInvNext == ReadersApart /\ LogInv /\ [Next]_vars => LogInv'
  <1> SUFFICES ASSUME ReadersApart, LogInv, [Next]_vars PROVE LogInv'
    OBVIOUS
  <1>0. LockInv'
    BY LockInvNext DEF LogInv
  <1> USE DEF LogInv, LockInv
  <1>t. /\ table \in Seq(Leaves) /\ Len(table) \in Nat
        /\ \A i \in Instances : /\ hashes[i] \in Seq(Leaves) /\ Len(hashes[i]) \in Nat
                                /\ queue[i] \in Seq(Leaves)
        /\ \A r \in Reads : /\ read[r] \in ReadStates
                            /\ read[r].rows \in Seq(Leaves) /\ Len(read[r].rows) \in Nat
                            /\ read[r].at \in Instances
        /\ \A h \in heads : h \in Seq(Leaves) /\ Len(h) \in Nat
    BY ReadUpdates, LenProperties DEF TypeOK
  <1>r. Roles'
    <2> USE DEF Roles
    <2>1. ASSUME NEW i \in Instances, Fail(i) \/ Refuse(i) \/ Push(i) PROVE Roles'
      <3>1. queue[i] # <<>>
        BY <2>1 DEF Fail, Refuse, Push, TypeOK
      <3>2. UNCHANGED read \/ read' = read
        BY <2>1 DEF Fail, Refuse, Push
      <3>3. \A j \in Instances : queue'[j] # <<>> => queue[j] # <<>>
        BY <2>1, <3>1 DEF Fail, Refuse, Push, Dequeue, TypeOK
      <3> QED BY <3>2, <3>3
    <2>2. ASSUME NEW i \in Instances, Boot(i) \/ BootFails(i) \/ Lock(i) \/ Insert(i) \/ Commit(i)
          PROVE  Roles'
      BY <2>2 DEF Boot, BootFails, Lock, Insert, Commit
    <2>3. ASSUME NEW i \in Instances, Crash(i) PROVE Roles'
      <3>1. \A r \in Reads : read'[r] = read[r] \/ read'[r].phase = "done"
        BY <2>3, <1>t DEF Crash, ReadStates
      <3> QED BY <2>3, <3>1, <1>t DEF Crash, TypeOK
    <2>4. ASSUME NEW l \in Leaves, NEW i \in Instances, Request(l, i) PROVE Roles'
      BY <2>4 DEF Request, TypeOK
    <2>5. ASSUME NEW r \in Reads, ReadStep(r) PROVE Roles'
      <3>1. UNCHANGED queue
        BY <2>5 DEF ReadStep, ReadCount, ReadFresh, ReadStale, ReadSelect, ReadReload, instVars
      <3> QED BY <2>5, <3>1, ReadMoves
    <2>6. ASSUME NEW r \in Reads, NEW i \in Instances, ReadStart(r, i) PROVE Roles'
      BY <2>6, <1>t DEF ReadStart, instVars, TypeOK, ReadStates
    <2>7. CASE UNCHANGED vars
      BY <2>7 DEF vars, instVars
    <2> QED BY <2>1, <2>2, <2>3, <2>4, <2>5, <2>6, <2>7 DEF Next, AppendStep
  <1>m. MemoryTruthful' /\ HeadsTruthful' /\ AcksStand'
    <2> USE DEF MemoryTruthful, HeadsTruthful, AcksStand
    (* The steps that touch no memory and no head.                         *)
    <2>1. ASSUME UNCHANGED <<table, hashes, acked, heads>>,
                 \A i \in Instances :
                    /\ tx'[i] \in {"inserted", "committed"} => tx'[i] = tx[i]
                    /\ tx[i] = "committed" => tx'[i] # "committed" \/ queue'[i][1] = queue[i][1],
                 \A r \in Reads : read'[r].phase = "selected" => read'[r] = read[r]
          PROVE  MemoryTruthful' /\ HeadsTruthful' /\ AcksStand'
      BY <2>1 DEF HeadOfTable
    <2>2. ASSUME NEW i \in Instances, Boot(i) \/ Crash(i)
          PROVE  MemoryTruthful' /\ HeadsTruthful' /\ AcksStand'
      <3>1. /\ UNCHANGED <<table, acked, heads>>
            /\ hashes'[i] = table \/ hashes'[i] = <<>>
            /\ \A j \in Instances : j # i => hashes'[j] = hashes[j] /\ queue'[j] = queue[j]
            /\ tx'[i] = "none"
            /\ \A j \in Instances : j # i => tx'[j] = tx[j]
        BY <2>2, <1>t DEF Boot, Crash, TypeOK, dbVars, outVars
      <3>2. \A r \in Reads : read'[r].phase = "selected" => read'[r] = read[r]
        BY <2>2, <1>t DEF Boot, Crash, ReadStates
      <3>3. HeadOfTable(hashes'[i])
        BY <3>1, <1>t DEF HeadOfTable
      <3>4. MemoryTruthful'
        <4>1. ASSUME NEW j \in Instances
              PROVE  /\ HeadOfTable(hashes[j])'
                     /\ tx'[j] = "inserted" => Len(hashes'[j]) = Len(table')
                     /\ tx'[j] = "committed" => /\ Len(hashes'[j]) < Len(table')
                                                /\ table'[Len(hashes'[j]) + 1] = queue'[j][1]
          <5>1. CASE j = i
            BY <3>1, <3>3, <5>1 DEF HeadOfTable
          <5>2. CASE j # i
            BY <3>1, <5>2 DEF HeadOfTable
          <5> QED BY <5>1, <5>2
        <4>2. \A r \in Reads : read'[r].phase = "selected" => HeadOfTable(read[r].rows)'
          BY <3>1, <3>2 DEF HeadOfTable
        <4> QED BY <4>1, <4>2
      <3> QED BY <3>1, <3>4 DEF HeadOfTable
    <2>3. ASSUME NEW i \in Instances, BootFails(i) \/ Lock(i) \/ Fail(i) \/ Refuse(i)
          PROVE  MemoryTruthful' /\ HeadsTruthful' /\ AcksStand'
      <3>1. UNCHANGED <<table, hashes, acked, heads, read>>
        BY <2>3 DEF BootFails, Lock, Fail, Refuse, dbVars, outVars
      <3>2. \A j \in Instances :
               /\ tx'[j] \in {"inserted", "committed"} => tx'[j] = tx[j]
               /\ tx[j] = "committed" => tx'[j] # "committed" \/ queue'[j][1] = queue[j][1]
        BY <2>3 DEF BootFails, Lock, Fail, Refuse, Dequeue, TypeOK
      <3> QED BY <2>1, <3>1, <3>2
    <2>4. ASSUME NEW l \in Leaves, NEW i \in Instances, Request(l, i)
          PROVE  MemoryTruthful' /\ HeadsTruthful' /\ AcksStand'
      <3>1. UNCHANGED <<table, hashes, acked, heads, read, tx>>
        BY <2>4 DEF Request, dbVars, outVars
      <3>2. \A j \in Instances : queue[j] # <<>> => queue'[j][1] = queue[j][1]
        BY <2>4, <1>t, AppendKeeps DEF Request, TypeOK
      <3> QED BY <2>1, <3>1, <3>2 DEF TypeOK
    <2>5. ASSUME NEW i \in Instances, Insert(i)
          PROVE  MemoryTruthful' /\ HeadsTruthful' /\ AcksStand'
      <3>1. /\ UNCHANGED <<table, acked, heads, read, queue>>
            /\ HeadOfTable(hashes'[i]) /\ Len(hashes'[i]) = Len(table)
            /\ \A j \in Instances : j # i => hashes'[j] = hashes[j] /\ tx'[j] = tx[j]
            /\ tx'[i] = "inserted"
        BY <2>5, <1>t DEF Insert, TypeOK, outVars, HeadOfTable
      <3> QED BY <3>1 DEF HeadOfTable
    <2>6. ASSUME NEW i \in Instances, Commit(i)
          PROVE  MemoryTruthful' /\ HeadsTruthful' /\ AcksStand'
      <3>1. /\ UNCHANGED <<acked, heads, read, queue, hashes>>
            /\ tx[i] = "inserted" /\ tx'[i] = "committed"
            /\ \A j \in Instances : j # i => tx'[j] = tx[j] /\ tx[j] # "inserted"
        BY <2>6 DEF Commit, TypeOK, outVars, OneHolder, Holding
      <3>2. queue[i] # <<>> /\ Current(i) \in Leaves /\ Current(i) = queue[i][1]
        BY <3>1, <1>t, QueueMoves DEF TypeOK, Current
      <3>3. /\ table' = Append(table, Current(i)) /\ Len(table') = Len(table) + 1
            /\ table'[Len(table) + 1] = queue[i][1]
            /\ \A k \in 1..Len(table) : table'[k] = table[k]
        BY <2>6, <3>2, <1>t, AppendKeeps DEF Commit
      <3>4. \A h : Len(h) \in Nat /\ HeadOfTable(h) => HeadOfTable(h)'
        BY <3>2, <3>3, HeadsStay
      <3>5. \A a \in acked : a.index \in DOMAIN table' /\ table'[a.index] = a.leaf
        <4>1. DOMAIN table = 1..Len(table) /\ DOMAIN table' = 1..Len(table')
          BY <1>t, <1>0, LenProperties DEF TypeOK
        <4> QED BY <3>3, <4>1, <1>t
      <3>6. MemoryTruthful'
        <4>1. ASSUME NEW j \in Instances
              PROVE  /\ HeadOfTable(hashes[j])'
                     /\ tx'[j] # "inserted"
                     /\ tx'[j] = "committed" => /\ Len(hashes'[j]) < Len(table')
                                                /\ table'[Len(hashes'[j]) + 1] = queue'[j][1]
          <5>1. HeadOfTable(hashes[j])'
            BY <3>1, <3>4, <1>t DEF HeadOfTable
          <5>2. CASE j = i
            BY <3>1, <3>3, <5>1, <5>2, <1>t
          <5>3. CASE j # i
            <6>1. tx[j] = "committed" => Len(hashes[j]) + 1 \in 1..Len(table)
              BY <1>t
            <6> QED BY <3>1, <3>3, <5>1, <5>3, <6>1, <1>t
          <5> QED BY <5>2, <5>3
        <4>2. \A r \in Reads : read'[r].phase = "selected" => HeadOfTable(read[r].rows)'
          BY <3>1, <3>4, <1>t
        <4> QED BY <4>1, <4>2
      <3>7. HeadsTruthful'
        BY <3>1, <3>4, <1>t
      <3> QED BY <3>1, <3>5, <3>6, <3>7
    <2>7. ASSUME NEW i \in Instances, Push(i)
          PROVE  MemoryTruthful' /\ HeadsTruthful' /\ AcksStand'
      <3>1. /\ UNCHANGED <<table, read>>
            /\ tx[i] = "committed" /\ tx'[i] = "none"
            /\ hashes'[i] = Append(hashes[i], Current(i))
            /\ heads' = heads \cup {hashes'[i]}
            /\ acked' = acked \cup {[leaf |-> Current(i), index |-> Len(hashes'[i])]}
            /\ \A j \in Instances : j # i => /\ tx'[j] = tx[j] /\ hashes'[j] = hashes[j]
                                             /\ queue'[j] = queue[j]
        BY <2>7 DEF Push, TypeOK, dbVars, AckIndex, Dequeue
      <3>2. queue[i] # <<>> /\ Current(i) \in Leaves /\ Current(i) = queue[i][1]
        BY <3>1, <1>t, QueueMoves DEF TypeOK, Current
      <3>3. /\ Len(hashes'[i]) = Len(hashes[i]) + 1
            /\ \A k \in 1..Len(hashes[i]) : hashes'[i][k] = hashes[i][k]
            /\ hashes'[i][Len(hashes[i]) + 1] = Current(i)
        BY <3>1, <3>2, <1>t, AppendKeeps
      <3>4. /\ Len(hashes[i]) < Len(table) /\ table[Len(hashes[i]) + 1] = Current(i)
            /\ HeadOfTable(hashes[i])
        BY <3>1, <3>2
      <3>5. HeadOfTable(hashes'[i])
        <4>1. Len(hashes'[i]) <= Len(table)
          BY <3>3, <3>4, <1>t
        <4>2. ASSUME NEW k \in 1..Len(hashes'[i]) PROVE hashes'[i][k] = table[k]
          <5>1. k \in 1..Len(hashes[i]) \/ k = Len(hashes[i]) + 1
            BY <3>3, <1>t
          <5> QED BY <3>3, <3>4, <5>1 DEF HeadOfTable
        <4> QED BY <4>1, <4>2 DEF HeadOfTable
      <3>6. Len(hashes'[i]) \in DOMAIN table /\ table[Len(hashes'[i])] = Current(i)
        BY <3>3, <3>4, <1>t, LenProperties
      <3>7. AcksStand'
        BY <3>1, <3>6
      <3>8. MemoryTruthful' /\ HeadsTruthful'
        <4>1. \A h : HeadOfTable(h) => HeadOfTable(h)'
          BY <3>1 DEF HeadOfTable
        <4>2. \A h \in heads' : HeadOfTable(h)'
          BY <3>1, <3>5, <4>1
        <4>3. \A j \in Instances : HeadOfTable(hashes'[j])
          BY <3>1, <3>5
        <4>4. \A j \in Instances : HeadOfTable(hashes[j])'
          BY <3>1, <4>3 DEF HeadOfTable
        <4>5. \A r \in Reads : read'[r].phase = "selected" => HeadOfTable(read[r].rows)'
          BY <3>1 DEF HeadOfTable
        <4>6. \A j \in Instances :
                 /\ tx'[j] = "inserted" => Len(hashes'[j]) = Len(table')
                 /\ tx'[j] = "committed" => /\ Len(hashes'[j]) < Len(table')
                                            /\ table'[Len(hashes'[j]) + 1] = queue'[j][1]
          BY <3>1
        <4> QED BY <4>2, <4>4, <4>5, <4>6
      <3> QED BY <3>7, <3>8
    <2>8. ASSUME NEW r \in Reads, ReadFresh(r) \/ ReadReload(r)
          PROVE  MemoryTruthful' /\ HeadsTruthful' /\ AcksStand'
      <3>1. PICK h \in Seq(Leaves) :
               /\ Synced(r, h) /\ HeadOfTable(h)
               /\ \/ UNCHANGED hashes
                  \/ hashes' = [hashes EXCEPT ![read[r].at] = h] /\ read[r].phase = "selected"
        BY <2>8, <1>t DEF ReadFresh, ReadReload, instVars
      <3>2. UNCHANGED <<table, acked, tx, queue>>
        BY <2>8 DEF ReadFresh, ReadReload, dbVars, instVars
      <3>3. HeadsTruthful'
        BY <3>1, <3>2, SyncedHeads
      <3>4. \A q \in Reads : read'[q].phase = "selected" => read'[q] = read[q]
        <4>1. read'[r].phase # "selected"
          BY <2>8, <1>t, ReadMoves DEF ReadStep, ReadFresh, ReadReload, ReadSelect
        <4> QED BY <2>8, <4>1, ReadMoves DEF ReadStep
      (* The reader's instance has no append under way.                     *)
      <3>5. read[r].phase = "selected" => tx[read[r].at] = "none"
        BY <1>t DEF Roles, ReadersApart, TypeOK
      <3>6. \A i \in Instances :
               \/ hashes'[i] = hashes[i]
               \/ hashes'[i] = h /\ tx[i] = "none"
        BY <3>1, <3>5, <1>t DEF TypeOK
      <3>7. MemoryTruthful'
        BY <3>1, <3>2, <3>4, <3>6 DEF HeadOfTable
      <3> QED BY <3>2, <3>3, <3>7
    <2>9. ASSUME NEW r \in Reads, ReadSelect(r)
          PROVE  MemoryTruthful' /\ HeadsTruthful' /\ AcksStand'
      <3>1. /\ UNCHANGED <<table, hashes, tx, queue, acked, heads>>
            /\ read'[r].rows = table
            /\ \A q \in Reads : q # r => read'[q] = read[q]
        BY <2>9, <1>t DEF ReadSelect, dbVars, instVars, outVars, TypeOK, ReadStates
      <3>2. HeadOfTable(table)
        BY <1>t DEF HeadOfTable
      <3> QED BY <3>1, <3>2 DEF HeadOfTable
    <2>10. ASSUME NEW r \in Reads, ReadCount(r) \/ ReadStale(r) \/ \E i \in Instances : ReadStart(r, i)
           PROVE  MemoryTruthful' /\ HeadsTruthful' /\ AcksStand'
      <3>1. UNCHANGED <<table, hashes, tx, queue, acked, heads>>
        BY <2>10 DEF ReadCount, ReadStale, ReadStart, dbVars, instVars, outVars
      <3>2. \A q \in Reads : read'[q].phase = "selected" => read'[q] = read[q]
        <4>1. CASE ReadCount(r) \/ ReadStale(r)
          <5>1. ~ReadSelect(r)
            BY <4>1 DEF ReadCount, ReadStale, ReadSelect
          <5> QED BY <4>1, <5>1, ReadMoves DEF ReadStep
        <4>2. CASE \E i \in Instances : ReadStart(r, i)
          BY <4>2, <1>t DEF ReadStart, TypeOK, ReadStates
        <4> QED BY <2>10, <4>1, <4>2
      <3> QED BY <2>1, <3>1, <3>2
    <2>11. CASE UNCHANGED vars
      BY <2>1, <2>11 DEF vars, dbVars, instVars, outVars
    <2> QED BY <2>2, <2>3, <2>4, <2>5, <2>6, <2>7, <2>8, <2>9, <2>10, <2>11
            DEF Next, AppendStep, ReadStep
  <1> QED BY <1>0, <1>r, <1>m


(* log-store.ts:1-5, 164-174: the INSERT takes the next seq, every head    *)
(* signed is a head of the table and every acknowledged index is its       *)
(* leaf's for good, through any number of instances, appends and crashes,  *)
(* as long as no instance is asked for appends and for heads.              *)
THEOREM KeepsOneLog == ASSUME ReadersApart PROVE Spec => []OneLog
  <1>1. LogInv /\ [Next]_vars => LogInv'
    BY LogInvNext
  <1>2. LogInv => OneLog
    <2> SUFFICES ASSUME LogInv PROVE OneLog
      OBVIOUS
    <2>1. \A h \in heads : Len(h) <= Len(table) /\ h = SubSeq(table, 1, Len(h))
      BY HeadOfTableIsSubSeq, LenProperties DEF LogInv, LockInv, HeadsTruthful, TypeOK
    <2> QED BY <2>1 DEF LogInv, LockInv, OneLog, HeadsAgree
  <1> QED BY LogInvInit, <1>1, <1>2, PTL DEF Spec

(* The hosted log implements the append-only log: a COMMIT extends it, an  *)
(* answer or a head only tells of what is in it.                           *)
LEMMA Tells ==
    ASSUME TypeOK, UNCHANGED table, acked \subseteq acked', heads \subseteq heads',
           \A a \in acked' \ acked : a.index \in DOMAIN table /\ table[a.index] = a.leaf,
           \A h \in heads' \ heads : h \in Seq(Leaves) /\ HeadOfTable(h)
    PROVE  Log!Tell
  <1>1. \A h \in heads' \ heads : \E n \in 0..Len(table) : h = SubSeq(table, 1, n)
    BY HeadOfTableIsSubSeq
  <1> QED BY <1>1 DEF Log!Tell

LEMMA LogStep == ReadersApart /\ LogInv /\ LogInv' /\ [Next]_vars => [Log!Next]_(Log!vars)
  <1> SUFFICES ASSUME ReadersApart, LogInv, LogInv', [Next]_vars
               PROVE  Log!Next \/ UNCHANGED <<table, acked, heads>>
    BY DEF Log!vars
  <1>t. TypeOK /\ TypeOK' /\ HeadsTruthful' /\ AcksStand'
    BY DEF LogInv, LockInv
  <1>1. ASSUME NEW i \in Instances, Commit(i) PROVE Log!Next
    <2>1. Current(i) \in Leaves
      BY <1>1, <1>t, QueueMoves DEF Commit, Current, TypeOK
    <2> QED BY <1>1, <2>1 DEF Commit, outVars, Log!Next, Log!Extend
  <1>2. ASSUME UNCHANGED table, acked \subseteq acked', heads \subseteq heads'
        PROVE  Log!Next
    <2>1. \A h \in heads' : h \in Seq(Leaves) /\ HeadOfTable(h)
      BY <1>2, <1>t DEF HeadsTruthful, HeadOfTable, TypeOK
    <2>2. \A a \in acked' : a.index \in DOMAIN table /\ table[a.index] = a.leaf
      BY <1>2, <1>t DEF AcksStand
    <2> QED BY <1>2, <1>t, <2>1, <2>2, Tells DEF Log!Next
  <1>3. ASSUME NEW i \in Instances, Push(i) PROVE Log!Next
    BY <1>2, <1>3 DEF Push, dbVars
  <1>4. ASSUME NEW r \in Reads, ReadStep(r) PROVE Log!Next \/ UNCHANGED <<table, acked, heads>>
    BY <1>2, <1>4 DEF ReadStep, ReadCount, ReadFresh, ReadStale, ReadSelect, ReadReload,
       Synced, dbVars, outVars
  <1>5. ASSUME NEW i \in Instances,
               \/ Boot(i) \/ BootFails(i) \/ Refuse(i) \/ Lock(i) \/ Insert(i) \/ Fail(i) \/ Crash(i)
               \/ \E l \in Leaves : Request(l, i)
               \/ \E r \in Reads : ReadStart(r, i)
        PROVE  UNCHANGED <<table, acked, heads>>
    BY <1>5 DEF Boot, BootFails, Refuse, Lock, Insert, Fail, Crash, Request, ReadStart,
       dbVars, outVars
  <1>6. CASE UNCHANGED vars
    BY <1>6 DEF vars, dbVars, outVars
  <1> QED BY <1>1, <1>3, <1>4, <1>5, <1>6 DEF Next, AppendStep

(* What the project promises the holders of its answers (AppendOnlyLog) is *)
(* what a hosted log with its readers apart does.                          *)
THEOREM KeepsLog == ASSUME ReadersApart PROVE Spec => LogKept
  <1>1. Init => Log!Init
    BY DEF Init, Log!Init
  <1>2. LogInv /\ [Next]_vars => LogInv'
    BY LogInvNext
  <1>3. LogInv /\ LogInv' /\ [Next]_vars => [Log!Next]_(Log!vars)
    BY LogStep
  <1> QED BY LogInvInit, <1>1, <1>2, <1>3, PTL DEF Spec, LogKept, Log!Spec

-------------------------------------------------------------------------------
(***************************************************************************)
(* The file log (FileLog), which serves the same interface from a file,    *)
(* for any number of processes, leaves, runs of prune and imports.         *)
(***************************************************************************)
Issued == 1..issued
Lines  == [leaf : Issued, form : {"text", "hash", "pruned"}]
Callings == [at : {"idle", "written", "answered"}, leaf : 0..issued]

(* Nothing is under way for a leaf that is gone, and it has no bundle.     *)
Settled(l) == \A p \in Procs : call[p].at # "idle" => call[p].leaf # l
Gone(l)    == Settled(l) /\ l \notin bundles

FileTypes ==
    /\ file \in Seq(Lines) /\ torn \in BOOLEAN /\ apart \in BOOLEAN /\ issued \in 0..MaxLeaves
    /\ mem \in [Procs -> Seq(Issued) \cup {Closed}]
    /\ call \in [Procs -> Callings]
    /\ \A p \in Procs : call[p].at # "idle" => mem[p] \in Seq(Issued) /\ call[p].leaf \in Issued
    /\ \A a \in answers : a.tree # <<>> /\ Last(a.tree) = a.leaf
    /\ bundles \subseteq Issued

(* A run of prune goes by the file as it was when it was read: what was    *)
(* pruned then is gone, and nothing is under way for what it will prune.   *)
PruneTruthful ==
    /\ \A i \in DOMAIN file : file[i].form = "pruned" => Gone(file[i].leaf)
    /\ prune.at # "none" =>
          /\ prune.read \in Seq(Lines)
          /\ \A i \in DOMAIN prune.read :
                /\ prune.read[i].form = "pruned" => Gone(prune.read[i].leaf)
                /\ Old(prune.read[i], prune.cutoff) => Settled(prune.read[i].leaf)

(* What an import has appended and has still to append are the first       *)
(* leaves of the file, as long as the file has only grown or been pruned.  *)
ImportTruthful ==
    /\ backend \in Seq(Issued) /\ import \in Seq(Issued)
    /\ apart => /\ Len(backend) + Len(import) <= Len(file)
                /\ \A i \in 1..Len(backend) : backend[i] = file[i].leaf
                /\ \A i \in 1..Len(import) : import[i] = file[Len(backend) + i].leaf

FileInv == FileTypes /\ PruneTruthful /\ ImportTruthful

-------------------------------------------------------------------------------
(* Sequences of lines and of leaves.                                       *)
LEMMA Wider ==
    ASSUME NEW A, NEW B, A \subseteq B
    PROVE  Seq(A) \subseteq Seq(B)
  BY SeqMonotonic

LEMMA LineIs ==
    ASSUME NEW s \in Seq(Lines), NEW i \in DOMAIN s
    PROVE  s[i] \in Lines /\ s[i].leaf \in Issued
  <1>1. i \in 1..Len(s)
    BY LenProperties
  <1>2. s[i] \in Lines
    BY <1>1, ElementOfSeq
  <1> QED BY <1>2 DEF Lines

LEMMA LeavesAre ==
    ASSUME NEW s \in Seq(Lines)
    PROVE  /\ LeavesOf(s) \in Seq(Issued) /\ Len(LeavesOf(s)) = Len(s)
           /\ \A i \in 1..Len(s) : LeavesOf(s)[i] = s[i].leaf
  <1>1. DOMAIN s = 1..Len(s) /\ Len(s) \in Nat /\ \A i \in 1..Len(s) : s[i] \in Lines
    BY LenProperties, ElementOfSeq
  <1>2. LeavesOf(s) = [i \in 1..Len(s) |-> s[i].leaf]
    BY <1>1 DEF LeavesOf
  <1>3. \A i \in 1..Len(s) : s[i].leaf \in Issued
    BY <1>1 DEF Lines
  <1>4. LeavesOf(s) \in [1..Len(s) -> Issued]
    BY ONLY <1>2, <1>3
  <1>5. LeavesOf(s) \in Seq(Issued)
    BY <1>1, <1>4, SeqDef
  <1>6. DOMAIN LeavesOf(s) = 1..Len(s)
    BY <1>2
  <1> QED BY <1>1, <1>2, <1>5, <1>6, LenProperties

(* What a prune makes of the lines it has read: the same leaves, and what  *)
(* is pruned among them was pruned before or is old.                       *)
LEMMA RewrittenIs ==
    ASSUME NEW run, run.read \in Seq(Lines)
    PROVE  /\ Rewritten(run) \in Seq(Lines) /\ Len(Rewritten(run)) = Len(run.read)
           /\ \A i \in 1..Len(run.read) :
                 /\ Rewritten(run)[i].leaf = run.read[i].leaf
                 /\ Rewritten(run)[i].form = "pruned" =>
                       run.read[i].form = "pruned" \/ Old(run.read[i], run.cutoff)
  <1> DEFINE s == run.read
             new(i) == IF Old(s[i], run.cutoff) THEN [s[i] EXCEPT !.form = "pruned"] ELSE s[i]
  <1>1. DOMAIN s = 1..Len(s) /\ Len(s) \in Nat /\ \A i \in 1..Len(s) : s[i] \in Lines
    BY LenProperties, ElementOfSeq
  <1>2. \A i \in 1..Len(s) : /\ new(i) \in Lines /\ new(i).leaf = s[i].leaf
                             /\ new(i).form = "pruned" => s[i].form = "pruned" \/ Old(s[i], run.cutoff)
    BY <1>1 DEF Lines
  <1>3. Rewritten(run) = [i \in 1..Len(s) |-> new(i)]
    BY <1>1 DEF Rewritten
  <1> HIDE DEF new
  <1>4. Rewritten(run) \in [1..Len(s) -> Lines]
    BY ONLY <1>2, <1>3
  <1>5. Rewritten(run) \in Seq(Lines)
    BY <1>1, <1>4, SeqDef
  <1>6. DOMAIN Rewritten(run) = 1..Len(s)
    BY <1>3
  <1>7. Len(Rewritten(run)) = Len(s)
    BY <1>1, <1>5, <1>6, LenProperties
  <1> QED BY <1>2, <1>3, <1>5, <1>7

(* A step that is none of these leaves the log alone.                      *)
LEMMA FileSteps ==
    ASSUME FileTypes, [FileNext]_fileVars
    PROVE  \/ \E p \in Procs : \/ Start(p) \/ Stop(p) \/ Tear(p) \/ PushHash(p) \/ Unsigned(p)
                               \/ WriteBundle(p) \/ \E form \in {"text", "hash"} : Write(p, form)
           \/ (\E l \in bundles : PruneBundle(l)) \/ PruneRename
           \/ UNCHANGED <<fileLogVars, apart>>
  <1>1. CASE \E p \in Procs : ExportKeys(p) \/ ExportHead(p) \/ ExportPage(p)
    BY <1>1 DEF ExportKeys, ExportHead, ExportPage, exportVars
  <1>2. CASE ExportStops \/ Rotate
    BY <1>2 DEF ExportStops, Rotate, exportVars
  <1>3. CASE (\E cutoff \in 2..MaxLeaves + 1 : PruneRead(cutoff)) \/ PruneStops
    BY <1>3 DEF PruneRead, PruneStops
  <1>4. CASE ImportStart \/ ImportNext \/ ImportStops
    BY <1>4 DEF ImportStart, ImportNext, ImportStops
  <1>5. CASE UNCHANGED fileVars
    BY <1>5 DEF fileVars
  <1> QED BY <1>1, <1>2, <1>3, <1>4, <1>5 DEF FileNext

LEMMA NoCallIs == ASSUME issued \in Nat PROVE NoCall \in Callings /\ NoCall.at = "idle"
  BY DEF NoCall, Callings

LEMMA FileTypesInit == FileInit => FileTypes
  <1> SUFFICES ASSUME FileInit PROVE FileTypes
    OBVIOUS
  <1>1. <<>> \in Seq(Lines) /\ issued = 0
    BY EmptySeq DEF FileInit
  <1>2. call \in [Procs -> Callings] /\ \A p \in Procs : call[p].at = "idle"
    BY <1>1, NoCallIs DEF FileInit
  <1>3. mem \in [Procs -> Seq(Issued) \cup {Closed}] /\ file \in Seq(Lines) /\ bundles \subseteq Issued
    BY <1>1 DEF FileInit
  <1>4. torn = FALSE /\ apart = TRUE /\ answers = {} /\ issued \in 0..MaxLeaves
    BY <1>1, FileLogAssumption DEF FileInit
  <1> QED BY <1>2, <1>3, <1>4 DEF FileTypes

(* The types.  Leaves only get numbers, so that what is typed stays so.    *)
LEMMA FileTypesNext ==
    ASSUME FileTypes, [FileNext]_fileVars,
           prune.at # "none" => prune.read \in Seq(Lines)
    PROVE  FileTypes'
  <1>a. /\ file \in Seq(Lines) /\ torn \in BOOLEAN /\ apart \in BOOLEAN /\ issued \in 0..MaxLeaves
        /\ mem \in [Procs -> Seq(Issued) \cup {Closed}]
        /\ call \in [Procs -> Callings]
        /\ \A p \in Procs : call[p].at # "idle" => mem[p] \in Seq(Issued) /\ call[p].leaf \in Issued
        /\ bundles \subseteq Issued
    BY DEF FileTypes, Callings
  <1>n. NoCall \in Callings /\ NoCall.at = "idle"
    BY <1>a, NoCallIs
  <1>1. ASSUME NEW p \in Procs, Start(p) PROVE FileTypes'
    <2>1. LeavesOf(file) \in Seq(Issued)
      BY <1>a, LeavesAre
    <2> QED BY <1>1, <2>1 DEF Start, FileTypes, Lines, Issued, Callings
  <1>2. ASSUME NEW p \in Procs, Stop(p) PROVE FileTypes'
    BY <1>2, <1>n DEF Stop, FileTypes, Lines, Issued, Callings
  <1>3. ASSUME NEW p \in Procs, PushHash(p) \/ Unsigned(p) PROVE FileTypes'
    <2>1. mem[p] \in Seq(Issued) /\ call[p].leaf \in Issued
      BY <1>a, <1>3 DEF PushHash, Unsigned
    <2>2. PICK m : /\ m \in Seq(Issued) /\ m = Append(mem[p], call[p].leaf)
                  /\ m # <<>> /\ m[Len(m)] = call[p].leaf
      <3>1. /\ Append(mem[p], call[p].leaf) \in Seq(Issued) /\ Append(mem[p], call[p].leaf) # <<>>
            /\ Len(Append(mem[p], call[p].leaf)) = Len(mem[p]) + 1
            /\ Append(mem[p], call[p].leaf)[Len(mem[p]) + 1] = call[p].leaf
        BY <2>1, AppendProperties
      <3> QED BY <3>1
    <2>3. /\ mem' = [mem EXCEPT ![p] = m] /\ UNCHANGED <<file, torn, issued, bundles, apart>>
          /\ answers' = answers \/ answers' = answers \cup {[leaf |-> call[p].leaf, tree |-> m]}
      BY <1>3, <2>2 DEF PushHash, Unsigned, Answer
    <2>4. /\ call' \in [Procs -> Callings]
          /\ call'[p].at # "idle" => call'[p].leaf = call[p].leaf
          /\ \A q \in Procs \ {p} : call'[q] = call[q]
      <3>1. /\ [call[p] EXCEPT !.at = "answered"] \in Callings
            /\ [call[p] EXCEPT !.at = "answered"].leaf = call[p].leaf
        BY <1>a DEF Callings
      <3>2. PICK o \in Callings : /\ call' = [call EXCEPT ![p] = o]
                                  /\ o.at # "idle" => o.leaf = call[p].leaf
        BY <1>a, <1>3, <1>n, <3>1 DEF PushHash, Unsigned
      <3> QED BY <1>a, <3>2
    <2>5. \A a \in answers' : a.tree # <<>> /\ Last(a.tree) = a.leaf
      BY <2>2, <2>3 DEF FileTypes, Last
    <2>6. mem' \in [Procs -> Seq(Issued) \cup {Closed}] /\ mem'[p] = m /\ \A q \in Procs \ {p} : mem'[q] = mem[q]
      BY <1>a, <2>2, <2>3
    <2>7. Issued' = Issued /\ Lines' = Lines /\ Callings' = Callings
      BY <2>3 DEF Issued, Lines, Callings
    <2>8. ASSUME NEW q \in Procs, call'[q].at # "idle"
          PROVE  mem'[q] \in Seq(Issued) /\ call'[q].leaf \in Issued
      <3>1. CASE q = p
        BY <2>1, <2>2, <2>4, <2>6, <2>8, <3>1
      <3>2. CASE q # p
        BY <1>a, <2>4, <2>6, <2>8, <3>2
      <3> QED BY <3>1, <3>2
    <2>9. \A q \in Procs : call'[q].at # "idle" => mem'[q] \in Seq(Issued) /\ call'[q].leaf \in Issued
      BY <2>8
    <2> QED BY <1>a, <2>3, <2>4, <2>5, <2>6, <2>7, <2>9 DEF FileTypes
  <1>4. ASSUME NEW p \in Procs, WriteBundle(p) PROVE FileTypes'
    <2>1. call[p].leaf \in Issued
      BY <1>a, <1>4 DEF WriteBundle
    <2> QED BY <1>4, <1>n, <2>1 DEF WriteBundle, FileTypes, Lines, Issued, Callings
  <1>5. ASSUME NEW p \in Procs, Tear(p) \/ \E form \in {"text", "hash"} : Write(p, form) PROVE FileTypes'
    <2>1. /\ issued' = issued + 1 /\ issued' \in 0..MaxLeaves /\ Issued \subseteq Issued' /\ issued' \in Issued'
          /\ 0..issued \subseteq 0..issued'
      BY <1>a, <1>5, FileLogAssumption DEF Tear, Write, Issued
    <2>2. Lines \subseteq Lines'
      BY <2>1 DEF Lines
    <2>3. Seq(Issued) \subseteq Seq(Issued') /\ Seq(Lines) \subseteq Seq(Lines')
      BY <2>1, <2>2, Wider
    <2>4. file' \in Seq(Lines')
      <3>1. \A form \in {"text", "hash"} : [leaf |-> issued', form |-> form] \in Lines'
        BY <2>1 DEF Lines
      <3>2. \/ file' = file
            \/ \E form \in {"text", "hash"} : file' = Append(file, [leaf |-> issued', form |-> form])
        BY <1>5 DEF Tear, Write
      <3>3. file \in Seq(Lines')
        BY <1>a, <2>3
      <3>4. \A line \in Lines' : Append(file, line) \in Seq(Lines')
        BY <3>3, AppendProperties
      <3> QED BY <3>1, <3>2, <3>3, <3>4
    <2>5. /\ mem' \in [Procs -> Seq(Issued) \cup {Closed}]
          /\ \A q \in Procs : mem'[q] = mem[q] \/ (call[q].at = "idle" /\ call' = call)
      BY <1>a, <1>5 DEF Tear, Write
    <2>6. CASE Tear(p)
      BY <1>a, <2>1, <2>3, <2>4, <2>5, <2>6 DEF Tear, FileTypes, Callings
    <2>7. CASE \E form \in {"text", "hash"} : Write(p, form)
      <3>1. /\ mem' = mem /\ mem[p] \in Seq(Issued) /\ UNCHANGED <<torn, answers, bundles, apart>>
        BY <1>a, <2>7 DEF Write, Open
      <3>2. /\ call' \in [Procs -> Callings']
            /\ call'[p].leaf = issued' /\ \A q \in Procs \ {p} : call'[q] = call[q]
        BY <1>a, <2>1, <2>7 DEF Write, Callings
      <3> QED BY <1>a, <2>1, <2>3, <2>4, <3>1, <3>2 DEF FileTypes, Callings
    <2> QED BY <1>5, <2>6, <2>7
  <1>6. ASSUME NEW l \in bundles, PruneBundle(l) PROVE FileTypes'
    BY <1>6 DEF PruneBundle, FileTypes, Lines, Issued, Callings
  <1>7. CASE PruneRename
    <2>1. Rewritten(prune) \in Seq(Lines)
      BY <1>7, RewrittenIs DEF PruneRename
    <2> QED BY <1>7, <2>1 DEF PruneRename, FileTypes, Lines, Issued, Callings
  <1>8. CASE UNCHANGED <<fileLogVars, apart>>
    BY <1>8 DEF fileLogVars, FileTypes, Lines, Issued, Callings
  <1> QED BY <1>1, <1>2, <1>3, <1>4, <1>5, <1>6, <1>7, <1>8, FileSteps

-------------------------------------------------------------------------------
(* A leaf that is settled or gone stays so: only a new leaf is written,    *)
(* and only an answered one gets a bundle.                                 *)
LEMMA StaysGone ==
    ASSUME FileTypes, [FileNext]_fileVars, NEW l \in Issued
    PROVE  (Settled(l) => Settled(l)') /\ (Gone(l) => Gone(l)')
  <1>a. /\ call \in [Procs -> Callings] /\ issued \in Nat /\ l <= issued
    BY DEF FileTypes, Issued
  <1>n. NoCall \in Callings /\ NoCall.at = "idle"
    BY <1>a, NoCallIs
  <1>1. ASSUME NEW p \in Procs, Start(p) \/ Tear(p)
        PROVE  call' = call /\ bundles' = bundles
    BY <1>1 DEF Start, Tear
  <1>2. ASSUME NEW p \in Procs, Stop(p) \/ Unsigned(p) \/ WriteBundle(p)
        PROVE  /\ call' = [call EXCEPT ![p] = NoCall]
               /\ bundles' = bundles \/ (call[p].at # "idle" /\ bundles' = bundles \cup {call[p].leaf})
    BY <1>2 DEF Stop, Unsigned, WriteBundle
  <1>3. ASSUME NEW p \in Procs, PushHash(p)
        PROVE  /\ \A q \in Procs : call'[q].leaf = call[q].leaf /\ (call'[q].at # "idle" => call[q].at # "idle")
               /\ bundles' = bundles
    BY <1>a, <1>3 DEF PushHash, Callings
  <1>4. ASSUME NEW p \in Procs, NEW form \in {"text", "hash"}, Write(p, form)
        PROVE  /\ \A q \in Procs : call'[q] = call[q] \/ call'[q].leaf = issued + 1
               /\ bundles' = bundles
    BY <1>a, <1>4 DEF Write
  <1>5. CASE call' = call /\ bundles' \subseteq bundles
    BY <1>5 DEF Settled, Gone
  <1>6. CASE \E p \in Procs : Stop(p) \/ Unsigned(p) \/ WriteBundle(p)
    <2>1. PICK p \in Procs : /\ call' = [call EXCEPT ![p] = NoCall]
                             /\ bundles' = bundles \/ (call[p].at # "idle" /\ bundles' = bundles \cup {call[p].leaf})
      BY <1>2, <1>6
    <2>2. \A q \in Procs : call'[q].at # "idle" => call'[q] = call[q]
      <3> SUFFICES ASSUME NEW q \in Procs, call'[q].at # "idle" PROVE call'[q] = call[q]
        OBVIOUS
      <3>1. call'[p] = NoCall /\ (q # p => call'[q] = call[q])
        BY <1>a, <1>n, <2>1
      <3> QED BY <1>n, <3>1
    <2> QED BY <2>1, <2>2 DEF Settled, Gone
  <1>7. CASE \E p \in Procs : PushHash(p)
    BY <1>3, <1>7 DEF Settled, Gone
  <1>8. CASE \E p \in Procs, form \in {"text", "hash"} : Write(p, form)
    <2>1. l # issued + 1
      BY <1>a
    <2> QED BY <1>4, <1>8, <2>1 DEF Settled, Gone
  <1>9. CASE \E b \in bundles : PruneBundle(b)
    BY <1>5, <1>9 DEF PruneBundle
  <1>10. CASE PruneRename \/ UNCHANGED fileLogVars
    BY <1>5, <1>10 DEF PruneRename, fileLogVars
  <1> QED BY <1>1, <1>5, <1>6, <1>7, <1>8, <1>9, <1>10, FileSteps

(* What is in the file: a new line is not a pruned one, and a rewrite      *)
(* prunes only what was pruned when the file was read, or is old, has no   *)
(* bundle any more and nothing under way.                                  *)
LEMMA PrunedInFile ==
    ASSUME FileTypes, PruneTruthful, [FileNext]_fileVars, NEW i \in DOMAIN file', file'[i].form = "pruned"
    PROVE  Gone(file'[i].leaf) /\ file'[i].leaf \in Issued
  <1>a. file \in Seq(Lines) /\ DOMAIN file = 1..Len(file) /\ Len(file) \in Nat
        /\ \A j \in DOMAIN file : file[j] \in Lines /\ file[j].leaf \in Issued
    <2>1. file \in Seq(Lines)
      BY DEF FileTypes
    <2> QED BY <2>1, LenProperties, LineIs
  <1>1. CASE file' = file
    BY <1>1, <1>a DEF PruneTruthful
  <1>2. CASE \E p \in Procs, form \in {"text", "hash"} : Write(p, form)
    <2>1. PICK line : file' = file \/ (file' = Append(file, line) /\ line.form # "pruned")
      BY <1>2 DEF Write
    <2>2. CASE file' = Append(file, line) /\ line.form # "pruned"
      <3>1. i \in DOMAIN file /\ file'[i] = file[i]
        BY <1>a, <2>2
      <3> QED BY <1>a, <3>1 DEF PruneTruthful
    <2> QED BY <1>1, <2>1, <2>2
  <1>3. CASE PruneRename
    <2>1. /\ prune.at # "none" /\ prune.read \in Seq(Lines) /\ file' = Rewritten(prune)
          /\ OldLeaves(prune) \cap bundles = {}
      BY <1>3 DEF PruneRename, PruneTruthful
    <2>2. /\ DOMAIN prune.read = 1..Len(prune.read) /\ DOMAIN file' = 1..Len(file')
          /\ Len(file') = Len(prune.read)
      BY <2>1, RewrittenIs, LenProperties
    <2>3. /\ i \in DOMAIN prune.read /\ file'[i].leaf = prune.read[i].leaf
          /\ prune.read[i].form = "pruned" \/ Old(prune.read[i], prune.cutoff)
      BY <2>1, <2>2, RewrittenIs
    <2>4. prune.read[i].leaf \in Issued
      BY <2>1, <2>3, LineIs
    <2>5. CASE Old(prune.read[i], prune.cutoff)
      <3>1. Settled(prune.read[i].leaf)
        BY <2>1, <2>3, <2>5 DEF PruneTruthful
      <3>2. prune.read[i].leaf \in OldLeaves(prune)
        BY <2>3, <2>5 DEF OldLeaves
      <3> QED BY <2>1, <2>3, <2>4, <3>1, <3>2 DEF Gone
    <2>6. CASE prune.read[i].form = "pruned"
      BY <2>1, <2>3, <2>4, <2>6 DEF PruneTruthful
    <2> QED BY <2>3, <2>5, <2>6
  <1>4. CASE \E p \in Procs : \/ Start(p) \/ Stop(p) \/ Tear(p) \/ PushHash(p) \/ Unsigned(p)
                              \/ WriteBundle(p)
    BY <1>1, <1>4 DEF Start, Stop, Tear, PushHash, Unsigned, WriteBundle
  <1>5. CASE (\E l \in bundles : PruneBundle(l)) \/ UNCHANGED fileLogVars
    BY <1>1, <1>5 DEF PruneBundle, fileLogVars
  <1> QED BY <1>2, <1>3, <1>4, <1>5, FileSteps

LEMMA PruneMoves ==
    ASSUME [FileNext]_fileVars
    PROVE  \/ prune' = prune \/ prune' = NoRun
           \/ \E cutoff \in 2..MaxLeaves + 1 : PruneRead(cutoff)
  BY DEF FileNext, fileVars, copies, Start, Stop, Tear, PushHash, Unsigned, WriteBundle, Write,
     ExportKeys, ExportHead, ExportPage, ExportStops, Rotate, exportVars, PruneBundle,
     PruneRename, PruneStops, ImportStart, ImportNext, ImportStops

LEMMA IssuedGrows ==
    ASSUME FileTypes, FileTypes', [FileNext]_fileVars
    PROVE  Issued \subseteq Issued'
  <1>1. issued \in Nat /\ issued' \in Nat
    BY DEF FileTypes
  <1>2. issued' = issued \/ issued' = issued + 1
    BY FileSteps DEF Start, Stop, Tear, PushHash, Unsigned, WriteBundle, Write,
       PruneBundle, PruneRename, fileLogVars
  <1> QED BY <1>1, <1>2 DEF Issued

LEMMA PruneTruthfulNext ==
    ASSUME FileTypes, FileTypes', PruneTruthful, [FileNext]_fileVars
    PROVE  PruneTruthful'
  <1>1. (\A i \in DOMAIN file : file[i].form = "pruned" => Gone(file[i].leaf))'
    <2> SUFFICES ASSUME NEW i \in DOMAIN file', file'[i].form = "pruned"
                 PROVE  Gone(file[i].leaf)'
      OBVIOUS
    <2>1. PICK l \in Issued : l = file'[i].leaf /\ Gone(l)
      BY PrunedInFile
    <2>2. Gone(l)'
      BY <2>1, StaysGone
    <2> QED BY <2>1, <2>2 DEF Gone, Settled
  <1>2. Issued \subseteq Issued'
    BY IssuedGrows
  <1>3. Seq(Lines) \subseteq Seq(Lines')
    <2>1. Lines \subseteq Lines'
      BY <1>2 DEF Lines
    <2> QED BY <2>1, Wider
  <1>4. CASE prune' = prune
    <2> SUFFICES ASSUME prune.at # "none"
                 PROVE  /\ prune.read \in Seq(Lines')
                        /\ (\A i \in DOMAIN prune.read :
                              /\ prune.read[i].form = "pruned" => Gone(prune.read[i].leaf)
                              /\ Old(prune.read[i], prune.cutoff) => Settled(prune.read[i].leaf))'
      BY <1>1, <1>4 DEF PruneTruthful
    <2>1. prune.read \in Seq(Lines)
      BY DEF PruneTruthful
    <2>2. ASSUME NEW i \in DOMAIN prune.read
          PROVE  /\ prune.read[i].form = "pruned" => Gone(prune.read[i].leaf)'
                 /\ Old(prune.read[i], prune.cutoff) => Settled(prune.read[i].leaf)'
      <3>1. PICK l \in Issued : l = prune.read[i].leaf
        BY <2>1, LineIs
      <3>2. /\ prune.read[i].form = "pruned" => Gone(l)'
            /\ Old(prune.read[i], prune.cutoff) => Settled(l)'
        BY <3>1, StaysGone DEF PruneTruthful
      <3> QED BY <1>4, <3>1, <3>2 DEF Gone, Settled
    <2> QED BY <1>3, <1>4, <2>1, <2>2 DEF Old, Gone, Settled
  <1>5. CASE prune' = NoRun
    <2>1. prune'.at = "none"
      BY <1>5 DEF NoRun
    <2> QED BY <1>1, <2>1 DEF PruneTruthful
  <1>6. ASSUME NEW cutoff \in 2..MaxLeaves + 1, PruneRead(cutoff) PROVE PruneTruthful'
    <2>1. /\ prune'.read = file' /\ prune'.cutoff = cutoff /\ file' \in Seq(Lines') /\ call' = call
          /\ \A p \in Procs : call[p].at = "idle" \/ cutoff <= call[p].leaf
      BY <1>6 DEF PruneRead, fileLogVars, FileTypes
    <2>2. ASSUME NEW i \in DOMAIN file', Old(file'[i], cutoff) PROVE Settled(file[i].leaf)'
      <3>1. file'[i].leaf \in Nat /\ ~(cutoff <= file'[i].leaf)
        <4>1. i \in 1..Len(file')
          BY <2>1, LenProperties
        <4>2. file'[i] \in Lines'
          BY <2>1, <4>1, ElementOfSeq
        <4> QED BY <2>2, <4>2 DEF Lines, Issued, Old
      <3>2. \A p \in Procs : call'[p].at # "idle" => cutoff <= call'[p].leaf
        BY <2>1
      <3> QED BY <3>1, <3>2 DEF Settled
    <2>3. \A i \in DOMAIN prune'.read : Old(prune'.read[i], prune'.cutoff) => Settled(prune.read[i].leaf)'
      BY <2>1, <2>2 DEF Old, Settled
    <2>4. \A i \in DOMAIN prune'.read : prune'.read[i].form = "pruned" => Gone(prune.read[i].leaf)'
      BY <1>1, <2>1 DEF Gone, Settled
    <2> QED BY <1>1, <2>1, <2>3, <2>4 DEF PruneTruthful, Old
  <1> QED BY <1>4, <1>5, <1>6, PruneMoves

-------------------------------------------------------------------------------
(* An import.                                                              *)
Copied ==
    /\ Len(backend) + Len(import) <= Len(file)
    /\ \A i \in 1..Len(backend) : backend[i] = file[i].leaf
    /\ \A i \in 1..Len(import) : import[i] = file[Len(backend) + i].leaf

(* The leaves of the file stay in their places: while it grows, and while  *)
(* it is pruned as it was read.                                            *)
LEMMA LeavesStay ==
    ASSUME FileTypes, PruneTruthful, [FileNext]_fileVars, apart'
    PROVE  /\ apart /\ Len(file) <= Len(file') /\ Len(file) \in Nat /\ Len(file') \in Nat
           /\ \A i \in 1..Len(file) : file'[i].leaf = file[i].leaf
  <1>a. file \in Seq(Lines) /\ Len(file) \in Nat
    BY LenProperties DEF FileTypes
  <1>1. CASE file' = file /\ apart
    BY <1>a, <1>1
  <1>2. CASE \E p \in Procs : \/ Start(p) \/ Stop(p) \/ Tear(p) \/ PushHash(p) \/ Unsigned(p)
                              \/ WriteBundle(p)
    <2>1. file' = file /\ apart
      BY <1>2 DEF Start, Stop, Tear, PushHash, Unsigned, WriteBundle
    <2> QED BY <1>1, <2>1
  <1>3. CASE \E p \in Procs, form \in {"text", "hash"} : Write(p, form)
    <2>1. apart /\ \E line : file' = file \/ file' = Append(file, line)
      BY <1>3 DEF Write
    <2>2. PICK line : file' = file \/ file' = Append(file, line)
      BY <2>1
    <2> QED BY <1>1, <1>a, <2>1, <2>2
  <1>4. CASE PruneRename
    <2>1. /\ prune.at # "none" /\ prune.read = file /\ apart /\ file' = Rewritten(prune)
      BY <1>4 DEF PruneRename
    <2> QED BY <1>a, <2>1, RewrittenIs
  <1>5. CASE (\E l \in bundles : PruneBundle(l)) \/ UNCHANGED <<fileLogVars, apart>>
    BY <1>1, <1>5 DEF PruneBundle, fileLogVars
  <1> QED BY <1>2, <1>3, <1>4, <1>5, FileSteps

LEMMA ImportMoves ==
    ASSUME [FileNext]_fileVars
    PROVE  UNCHANGED <<backend, import>> \/ ImportStart \/ ImportNext \/ ImportStops
  BY DEF FileNext, fileVars, copies, Start, Stop, Tear, PushHash, Unsigned, WriteBundle, Write,
     ExportKeys, ExportHead, ExportPage, ExportStops, Rotate, exportVars, PruneBundle,
     PruneRename, PruneStops, PruneRead

LEMMA ImportTruthfulNext ==
    ASSUME FileTypes, FileTypes', PruneTruthful, ImportTruthful, [FileNext]_fileVars
    PROVE  ImportTruthful'
  <1>a. /\ backend \in Seq(Issued) /\ import \in Seq(Issued) /\ file \in Seq(Lines)
        /\ Len(backend) \in Nat /\ Len(import) \in Nat /\ Len(file) \in Nat
        /\ apart => Copied
    BY LenProperties DEF FileTypes, ImportTruthful, Copied
  <1>b. Seq(Issued) \subseteq Seq(Issued')
    <2>1. Issued \subseteq Issued'
      BY IssuedGrows
    <2> QED BY <2>1, Wider
  <1>1. CASE UNCHANGED <<backend, import>>
    <2>1. ASSUME apart' PROVE Copied'
      <3>1. /\ apart /\ Len(file) <= Len(file') /\ Len(file') \in Nat
            /\ \A i \in 1..Len(file) : file'[i].leaf = file[i].leaf
        BY <2>1, LeavesStay
      <3>2. /\ \A i \in 1..Len(backend) : i \in 1..Len(file)
            /\ \A i \in 1..Len(import) : Len(backend) + i \in 1..Len(file)
        BY <1>a, <3>1 DEF Copied
      <3>3. Copied
        BY <1>a, <3>1
      <3>4. \A i \in 1..Len(backend) : backend[i] = file'[i].leaf
        BY <3>1, <3>2, <3>3 DEF Copied
      <3>5. \A i \in 1..Len(import) : import[i] = file'[Len(backend) + i].leaf
        BY <3>1, <3>2, <3>3 DEF Copied
      <3>6. Len(backend) + Len(import) <= Len(file')
        BY <1>a, <3>1, <3>3 DEF Copied
      <3> QED BY <1>1, <3>4, <3>5, <3>6 DEF Copied
    <2> QED BY <1>1, <1>a, <1>b, <2>1 DEF ImportTruthful, Copied
  <1>2. CASE ImportStart
    <2> DEFINE s == LeavesOf(file)
    <2>1. /\ s \in Seq(Issued) /\ Len(s) = Len(file) /\ \A i \in 1..Len(file) : s[i] = file[i].leaf
      BY <1>a, LeavesAre
    <2>2. \A i \in Len(backend) + 1..Len(s) : s[i] \in Issued
      BY <1>a, <2>1, ElementOfSeq
    <2> HIDE DEF s
    <2>3. PICK r : r = SubSeq(s, Len(backend) + 1, Len(s))
      OBVIOUS
    <2>4. /\ r \in Seq(Issued)
          /\ Len(r) = IF Len(backend) + 1 <= Len(s) THEN Len(s) - (Len(backend) + 1) + 1 ELSE 0
          /\ \A i \in 1..Len(s) - (Len(backend) + 1) + 1 : r[i] = s[(Len(backend) + 1) + i - 1]
      BY <1>a, <2>1, <2>2, <2>3, SubSeqProperties
    <2>5. /\ import' = r /\ backend' = backend /\ file' = file /\ apart' = apart /\ issued' = issued
      BY <1>2, <2>3 DEF ImportStart, LeftToImport, fileLogVars, s
    <2>6. ASSUME apart PROVE Copied'
      <3>1. Len(backend) <= Len(file) /\ Copied
        BY <1>a, <2>6 DEF Copied
      <3>2. Len(r) = Len(file) - Len(backend)
        BY <1>a, <2>1, <2>4, <3>1
      <3>3. \A i \in 1..Len(r) : r[i] = file[Len(backend) + i].leaf
        <4> SUFFICES ASSUME NEW i \in 1..Len(r) PROVE r[i] = file[Len(backend) + i].leaf
          OBVIOUS
        <4>1. /\ i \in 1..Len(s) - (Len(backend) + 1) + 1 /\ (Len(backend) + 1) + i - 1 = Len(backend) + i
              /\ Len(backend) + i \in 1..Len(file)
          BY <1>a, <2>1, <3>1, <3>2
        <4> QED BY <2>1, <2>4, <4>1
      <3>4. Len(backend) + Len(r) <= Len(file)
        BY <1>a, <3>1, <3>2
      <3> QED BY <2>5, <3>1, <3>3, <3>4 DEF Copied
    <2> QED BY <1>a, <2>4, <2>5, <2>6 DEF ImportTruthful, Copied, Issued
  <1>3. CASE ImportNext
    <2>1. /\ backend' = Append(backend, Head(import)) /\ import' = Tail(import) /\ import # <<>>
          /\ file' = file /\ apart' = apart /\ issued' = issued
      BY <1>3 DEF ImportNext, fileLogVars
    <2>2. /\ Head(import) \in Issued /\ Head(import) = import[1] /\ Tail(import) \in Seq(Issued)
          /\ Len(import) >= 1 /\ Len(Tail(import)) = Len(import) - 1
          /\ \A i \in 1..Len(Tail(import)) : Tail(import)[i] = import[i + 1]
      BY <1>a, <2>1, HeadTailProperties, EmptySeq
    <2>3. /\ backend' \in Seq(Issued) /\ Len(backend') = Len(backend) + 1
          /\ \A i \in 1..Len(backend) : backend'[i] = backend[i]
          /\ backend'[Len(backend) + 1] = import[1]
      BY <1>a, <2>1, <2>2, AppendProperties
    <2>4. ASSUME apart PROVE Copied'
      <3>1. \A i \in 1..Len(backend') : backend'[i] = file[i].leaf
        <4>1. Copied /\ 1 \in 1..Len(import)
          BY <1>a, <2>2, <2>4
        <4>2. \A i \in 1..Len(backend) : backend'[i] = file[i].leaf
          BY <2>3, <4>1 DEF Copied
        <4>3. backend'[Len(backend) + 1] = file[Len(backend) + 1].leaf
          BY <2>3, <4>1 DEF Copied
        <4>4. \A i \in 1..Len(backend') : i \in 1..Len(backend) \/ i = Len(backend) + 1
          BY <1>a, <2>3
        <4> QED BY <4>2, <4>3, <4>4
      <3>2. \A i \in 1..Len(import') : import'[i] = file[Len(backend') + i].leaf
        <4> SUFFICES ASSUME NEW i \in 1..Len(import') PROVE import'[i] = file[Len(backend') + i].leaf
          OBVIOUS
        <4>1. /\ i + 1 \in 1..Len(import) /\ Len(backend) + (i + 1) = Len(backend') + i
              /\ import'[i] = import[i + 1]
          BY <1>a, <2>1, <2>2, <2>3
        <4> QED BY <1>a, <2>4, <4>1 DEF Copied
      <3>3. Len(backend') + Len(import') <= Len(file')
        BY <1>a, <2>1, <2>2, <2>3, <2>4 DEF Copied
      <3> QED BY <2>1, <3>1, <3>2, <3>3 DEF Copied
    <2> QED BY <2>1, <2>2, <2>3, <2>4 DEF ImportTruthful, Copied, Issued
  <1>4. CASE ImportStops
    <2>1. import' = <<>> /\ UNCHANGED <<backend, file, apart, issued>> /\ Len(<<>>) = 0 /\ <<>> \in Seq(Issued)
      BY <1>4, EmptySeq DEF ImportStops, fileLogVars
    <2>2. apart => Copied'
      BY <1>a, <2>1 DEF Copied
    <2> QED BY <1>a, <2>1, <2>2 DEF ImportTruthful, Copied, Issued
  <1> QED BY <1>1, <1>2, <1>3, <1>4, ImportMoves

-------------------------------------------------------------------------------
LEMMA FileInvariant == FileSpec => []FileInv
  <1>1. FileInit => FileInv
    <2> SUFFICES ASSUME FileInit PROVE FileInv
      OBVIOUS
    <2>1. FileTypes
      BY FileTypesInit
    <2>2. PruneTruthful
      BY DEF FileInit, NoRun, PruneTruthful
    <2>3. ImportTruthful
      <3>1. backend = <<>> /\ import = <<>> /\ file = <<>> /\ Len(<<>>) = 0 /\ <<>> \in Seq(Issued)
        BY EmptySeq DEF FileInit
      <3> QED BY <3>1 DEF ImportTruthful
    <2> QED BY <2>1, <2>2, <2>3 DEF FileInv
  <1>2. FileInv /\ [FileNext]_fileVars => FileInv'
    <2> SUFFICES ASSUME FileInv, [FileNext]_fileVars PROVE FileInv'
      OBVIOUS
    <2>1. FileTypes'
      BY FileTypesNext DEF FileInv, PruneTruthful
    <2>2. PruneTruthful'
      BY <2>1, PruneTruthfulNext DEF FileInv
    <2>3. ImportTruthful'
      BY <2>1, ImportTruthfulNext DEF FileInv
    <2> QED BY <2>1, <2>2, <2>3 DEF FileInv
  <1> QED BY <1>1, <1>2, PTL DEF FileSpec

(* A receipt whose content was pruned has no bundle, wherever a run of     *)
(* prune stopped, whatever was written, answered or bundled meanwhile and  *)
(* whoever else had the file open (pruneLog, issue).                       *)
THEOREM PrunedIsGoneForGood == FileSpec => []FileConsistent
  <1>1. FileInv => FileConsistent
    <2> SUFFICES ASSUME FileInv PROVE FileConsistent
      OBVIOUS
    <2>a. file \in Seq(Lines) /\ FileTypes /\ PruneTruthful
      BY DEF FileInv, FileTypes
    <2>1. PrunedIsGone
      BY <2>a DEF PruneTruthful, Gone, PrunedIsGone
    <2>2. \A i \in DOMAIN file : file[i] \in [leaf : 1..MaxLeaves, form : {"text", "hash", "pruned"}]
      <3>1. \A i \in DOMAIN file : file[i] \in Lines
        BY <2>a, LineIs
      <3>2. Issued \subseteq 1..MaxLeaves
        BY <2>a, FileLogAssumption DEF FileTypes, Issued
      <3> QED BY <3>1, <3>2 DEF Lines
    <2>3. \A p \in Procs : Open(p) => Range(mem[p]) \subseteq 1..issued
      <3> SUFFICES ASSUME NEW p \in Procs, Open(p) PROVE Range(mem[p]) \subseteq 1..issued
        OBVIOUS
      <3>1. mem[p] \in Seq(Issued)
        BY <2>a DEF FileTypes, Open
      <3>2. \A i \in DOMAIN mem[p] : mem[p][i] \in Issued
        BY <3>1, LenProperties, ElementOfSeq
      <3> QED BY <3>2 DEF Range, Issued
    <2>4. FileTypeOK
      BY <2>a, <2>2, <2>3 DEF FileTypes, FileTypeOK, Issued
    <2> QED BY <2>1, <2>4 DEF FileConsistent
  <1> QED BY <1>1, FileInvariant, PTL

(* An import, stopped and run again at any point while the file grows and  *)
(* is pruned, has added each leaf once and in its place (importLogFile).   *)
THEOREM ImportsCopy == FileSpec => []ImportIsACopy
  <1>1. FileInv => ImportIsACopy
    <2> SUFFICES ASSUME FileInv, apart PROVE IsPrefix(backend, LeavesOf(file))
      BY DEF ImportIsACopy
    <2> DEFINE s == LeavesOf(file)
    <2>a. /\ backend \in Seq(Issued) /\ import \in Seq(Issued) /\ file \in Seq(Lines)
          /\ Len(backend) \in Nat /\ Len(import) \in Nat /\ Len(file) \in Nat
          /\ Len(backend) + Len(import) <= Len(file)
          /\ \A i \in 1..Len(backend) : backend[i] = file[i].leaf
      BY LenProperties DEF FileInv, FileTypes, ImportTruthful
    <2>1. s \in Seq(Issued) /\ Len(s) = Len(file) /\ \A i \in 1..Len(file) : s[i] = file[i].leaf
      BY <2>a, LeavesAre
    <2>2. \A i \in 1..Len(backend) : s[i] \in Issued /\ s[i] = backend[i]
      BY <2>a, <2>1, ElementOfSeq
    <2>3. SubSeq(backend, 1, Len(backend)) = backend
      BY <2>a, SubSeqFull
    <2> HIDE DEF s
    <2>4. /\ SubSeq(s, 1, Len(backend)) \in Seq(Issued) /\ Len(SubSeq(s, 1, Len(backend))) = Len(backend)
          /\ \A i \in 1..Len(backend) : SubSeq(s, 1, Len(backend))[i] = s[i]
      BY <2>a, <2>2, SubSeqProperties
    <2>5. SubSeq(s, 1, Len(backend)) = backend
      BY <2>a, <2>2, <2>4, SeqEqual
    <2> QED BY <2>a, <2>1, <2>3, <2>5 DEF IsPrefix, s
  <1> QED BY <1>1, FileInvariant, PTL

-------------------------------------------------------------------------------
(* The Merkle tree (Merkle): what mth computes, by induction.              *)

(* Every nonempty set of naturals has a least element: the order of the    *)
(* naturals is well founded. With it, what a recursive function computes   *)
(* is shown by induction.                                                  *)
LEMMA LeastNatural ==
    ASSUME NEW T \in SUBSET Nat, T # {}
    PROVE  \E n \in T : \A m \in T : n <= m
  <1> DEFINE R == {ss \in Nat \X Nat : ss[1] < ss[2]}
  <1>1. OpToRel(<, Nat) = R
    BY Zenon DEF OpToRel
  <1>2. IsWellFoundedOn(R, Nat)
    <2> HIDE DEF R
    <2> QED BY <1>1, NatLessThanWellFounded, Zenon
  <1>3. PICK n \in T : \A m \in T : <<m, n>> \notin R
    <2> HIDE DEF R
    <2> QED BY <1>2, WFMin
  <1>4. ASSUME NEW m \in T PROVE n <= m
    <2>1. <<m, n>> \in Nat \X Nat /\ <<m, n>>[1] = m /\ <<m, n>>[2] = n
      OBVIOUS
    <2>2. ~(m < n)
      BY <1>3, <2>1
    <2> QED BY <2>2
  <1> QED BY <1>4

(* Induction, over a set: a set that holds 0 and the successor of what it  *)
(* holds, holds every natural.                                             *)
LEMMA UpFromZero ==
    ASSUME NEW S, 0 \in S, \A n \in Nat : n \in S => n + 1 \in S
    PROVE  \A n \in Nat : n \in S
  <1> SUFFICES ASSUME Nat \ S # {} PROVE FALSE
    OBVIOUS
  <1>1. PICK n \in Nat \ S : \A m \in Nat \ S : n <= m
    BY LeastNatural
  <1>2. n - 1 \in Nat /\ n - 1 \notin S
    BY <1>1
  <1> QED BY <1>1, <1>2


(* Induction upwards from all that is smaller, and downwards from n.       *)
LEMMA FromSmaller ==
    ASSUME NEW S, \A n \in Nat : (\A m \in 0..n - 1 : m \in S) => n \in S
    PROVE  \A n \in Nat : n \in S
  <1> SUFFICES ASSUME Nat \ S # {} PROVE FALSE
    OBVIOUS
  <1>1. PICK n \in Nat \ S : \A m \in Nat \ S : n <= m
    BY LeastNatural
  <1>2. \A m \in 0..n - 1 : m \in S
    BY <1>1
  <1> QED BY <1>1, <1>2

(* A set that holds a number of 1..n when it holds all that are larger,    *)
(* holds all of 1..n.                                                      *)
LEMMA Downwards ==
    ASSUME NEW n \in Nat, NEW S, \A j \in 1..n : (\A i \in j + 1..n : i \in S) => j \in S
    PROVE  \A j \in 1..n : j \in S
  <1> DEFINE T == {i \in Nat : i < n => n - i \in S}
  <1>1. ASSUME NEW i \in Nat, \A h \in 0..i - 1 : h \in T PROVE i \in T
    <2> SUFFICES ASSUME i < n PROVE n - i \in S
      OBVIOUS
    <2>1. ASSUME NEW j \in n - i + 1..n PROVE j \in S
      <3>1. n - j \in 0..i - 1 /\ n - j < n /\ n - (n - j) = j
        OBVIOUS
      <3> QED BY <1>1, <3>1
    <2>2. n - i \in 1..n
      OBVIOUS
    <2> QED BY <2>1, <2>2
  <1>2. \A i \in Nat : i \in T
    <2> HIDE DEF T
    <2> QED BY <1>1, FromSmaller
  <1>3. ASSUME NEW j \in 1..n PROVE j \in S
    <2>1. n - j \in Nat /\ n - j < n /\ n - (n - j) = j
      OBVIOUS
    <2> QED BY <1>2, <2>1
  <1> QED BY <1>3

(* split's loop, from j on.                                                *)
Doubling(n, k) == k = [j \in 1..n |-> IF 2 * j < n THEN k[2 * j] ELSE j]

(* The loop ends: there is such a function, and Split is its value at one. *)
LEMMA DoublingIs ==
    ASSUME NEW n \in Nat
    PROVE  \E k : Doubling(n, k) /\ Split(n) = k[1]
  <1> DEFINE Dom(i) == {j \in 1..n : n < j + i}
             Upto(i) == \E k : k = [j \in Dom(i) |-> IF 2 * j < n THEN k[2 * j] ELSE j]
             S == {i \in Nat : Upto(i)}
  <1>1. 0 \in S
    <2> DEFINE k == [j \in Dom(0) |-> 0]
    <2>1. Dom(0) = {}
      OBVIOUS
    <2>2. k = [j \in Dom(0) |-> IF 2 * j < n THEN k[2 * j] ELSE j]
      BY <2>1
    <2> QED BY <2>2
  <1>2. ASSUME NEW i \in Nat, i \in S PROVE i + 1 \in S
    <2>1. PICK g : g = [j \in Dom(i) |-> IF 2 * j < n THEN g[2 * j] ELSE j]
      BY <1>2
    <2> DEFINE k == [j \in Dom(i + 1) |-> IF j \in Dom(i) THEN g[j] ELSE IF 2 * j < n THEN g[2 * j] ELSE j]
    <2>2. \A j \in Dom(i) : j \in Dom(i + 1) /\ k[j] = g[j]
      OBVIOUS
    <2>3. \A j \in Dom(i + 1) : 2 * j < n => 2 * j \in Dom(i)
      OBVIOUS
    <2>4. \A j \in Dom(i + 1) : k[j] = IF 2 * j < n THEN g[2 * j] ELSE j
      BY <2>1
    <2>5. k = [j \in Dom(i + 1) |-> k[j]]
      OBVIOUS
    <2> HIDE DEF k, Dom
    <2>6. \A j \in Dom(i + 1) : k[j] = IF 2 * j < n THEN k[2 * j] ELSE j
      BY <2>2, <2>3, <2>4
    <2>7. k = [j \in Dom(i + 1) |-> IF 2 * j < n THEN k[2 * j] ELSE j]
      BY <2>5, <2>6
    <2> QED BY <2>7
  <1>3. n \in S
    <2> HIDE DEF S
    <2> QED BY <1>1, <1>2, UpFromZero
  <1>4. Dom(n) = 1..n
    OBVIOUS
  <1>5. \E k : Doubling(n, k)
    <2>1. Upto(n)
      BY <1>3
    <2> HIDE DEF Dom
    <2> QED BY <1>4, <2>1 DEF Doubling
  <1>6. Split(n) = (CHOOSE k : Doubling(n, k))[1]
    BY Zenon DEF Split, Doubling
  <1> QED BY <1>5, <1>6

(* split: both halves are smaller than the range that is halved.           *)
LEMMA SplitIs ==
    ASSUME NEW n \in Nat, n > 1
    PROVE  Split(n) \in 1..n - 1
  <1>1. PICK k : Doubling(n, k) /\ Split(n) = k[1]
    BY DoublingIs
  <1> DEFINE S == {j \in 1..n : j < n => k[j] \in 1..n - 1}
  <1>2. ASSUME NEW j \in 1..n, \A i \in j + 1..n : i \in S PROVE j \in S
    <2>1. k[j] = IF 2 * j < n THEN k[2 * j] ELSE j
      BY <1>1 DEF Doubling
    <2>2. 2 * j < n => 2 * j \in j + 1..n
      OBVIOUS
    <2> QED BY <1>2, <2>1, <2>2
  <1>3. \A j \in 1..n : j \in S
    <2> HIDE DEF S
    <2> QED BY <1>2, Downwards
  <1> QED BY <1>1, <1>3

(* One row up, half as many leaves are split at half the place.            *)
LEMMA SplitHalf ==
    ASSUME NEW n \in Nat, n > 2
    PROVE  Split(n) = 2 * Split((n + 1) \div 2)
  <1> DEFINE h == (n + 1) \div 2
  <1>a. h \in Nat /\ (n = 2 * h \/ n + 1 = 2 * h)
    OBVIOUS
  <1> HIDE DEF h
  <1>1. PICK k : Doubling(n, k) /\ Split(n) = k[1]
    BY DoublingIs
  <1>2. PICK g : Doubling(h, g) /\ Split(h) = g[1]
    BY <1>a, DoublingIs
  <1> DEFINE S == {j \in 1..h : 2 * j < n => k[2 * j] = 2 * g[j]}
  <1>3. ASSUME NEW j \in 1..h, \A i \in j + 1..h : i \in S PROVE j \in S
    <2> SUFFICES ASSUME 2 * j < n PROVE k[2 * j] = 2 * g[j]
      OBVIOUS
    <2>1. 2 * j \in 1..n /\ (2 * (2 * j) < n <=> 2 * j < h)
      BY <1>a
    <2>2. k[2 * j] = IF 2 * (2 * j) < n THEN k[2 * (2 * j)] ELSE 2 * j
      BY <1>1, <2>1 DEF Doubling
    <2>3. g[j] = IF 2 * j < h THEN g[2 * j] ELSE j
      BY <1>2 DEF Doubling
    <2>4. 2 * j < h => 2 * j \in j + 1..h
      BY <1>a
    <2> QED BY <1>3, <2>1, <2>2, <2>3, <2>4
  <1>4. \A j \in 1..h : j \in S
    <2> HIDE DEF S
    <2> QED BY <1>a, <1>3, Downwards
  <1>5. 1 \in 1..h /\ 1 \in 1..n /\ 2 * 1 = 2
    BY <1>a
  <1>6. k[1] = k[2] /\ k[2] = 2 * g[1]
    BY <1>1, <1>4, <1>5 DEF Doubling
  <1> QED BY <1>1, <1>2, <1>6 DEF h

(* The body of mth, over the hashes h of the smaller subtrees; HashedTo    *)
(* says that h holds every subtree of at most m leaves.                    *)
Entry(s, n, h, lo) ==
    CASE n = 0 -> Empty
      [] n = 1 -> s[lo + 1]
      [] OTHER -> LET k == Split(n) IN NodeHash(h[k][lo], h[n - k][lo + k])
HashedTo(s, m, h) == h = [n \in 0..m |-> [lo \in 0..Len(s) - n |-> Entry(s, n, h, lo)]]

(* mth: the recursion ends, so that there is such a function and Hashed is *)
(* it.                                                                     *)
LEMMA HashedIs ==
    ASSUME NEW s, Len(s) \in Nat
    PROVE  HashedTo(s, Len(s), Hashed(s))
  <1> DEFINE S == {m \in Nat : \E h : HashedTo(s, m, h)}
  <1>1. 0 \in S
    <2> DEFINE h == [n \in 0..0 |-> [lo \in 0..Len(s) - n |-> Empty]]
    <2>1. \A n \in 0..0 : n = 0
      OBVIOUS
    <2>2. \A lo : Entry(s, 0, h, lo) = Empty
      BY DEF Entry
    <2>3. HashedTo(s, 0, h)
      BY <2>1, <2>2 DEF HashedTo
    <2> QED BY <2>3
  <1>2. ASSUME NEW m \in Nat, m \in S PROVE m + 1 \in S
    <2>1. PICK g : HashedTo(s, m, g)
      BY <1>2
    <2> DEFINE h == [n \in 0..m + 1 |-> IF n <= m THEN g[n] ELSE [lo \in 0..Len(s) - n |-> Entry(s, n, g, lo)]]
    <2>2. \A n \in 0..m : h[n] = g[n]
      OBVIOUS
    <2>3. h[m + 1] = [lo \in 0..Len(s) - (m + 1) |-> Entry(s, m + 1, g, lo)]
      OBVIOUS
    <2>4. h = [n \in 0..m + 1 |-> h[n]]
      OBVIOUS
    <2> HIDE DEF h
    <2>5. ASSUME NEW n \in 0..m + 1, NEW lo PROVE Entry(s, n, g, lo) = Entry(s, n, h, lo)
      <3>1. CASE n > 1
        <4>1. Split(n) \in 0..m /\ n - Split(n) \in 0..m
          BY <3>1, SplitIs
        <4>2. h[Split(n)] = g[Split(n)] /\ h[n - Split(n)] = g[n - Split(n)]
          BY <2>2, <4>1
        <4> QED BY <3>1, <4>2 DEF Entry
      <3>2. CASE ~(n > 1)
        BY <3>2 DEF Entry
      <3> QED BY <3>1, <3>2
    <2>6. ASSUME NEW n \in 0..m + 1 PROVE h[n] = [lo \in 0..Len(s) - n |-> Entry(s, n, h, lo)]
      <3>1. h[n] = [lo \in 0..Len(s) - n |-> Entry(s, n, g, lo)]
        <4>1. CASE n \in 0..m
          BY <2>1, <2>2, <4>1 DEF HashedTo
        <4>2. CASE n = m + 1
          BY <2>3, <4>2
        <4> QED BY <4>1, <4>2
      <3> QED BY <2>5, <3>1
    <2>7. HashedTo(s, m + 1, h)
      BY <2>4, <2>6 DEF HashedTo
    <2> QED BY <2>7
  <1>3. Len(s) \in S
    <2> HIDE DEF S
    <2> QED BY <1>1, <1>2, UpFromZero
  <1>4. \E h : HashedTo(s, Len(s), h)
    BY <1>3
  <1>5. Hashed(s) = CHOOSE h : HashedTo(s, Len(s), h)
    BY Zenon DEF Hashed, HashedTo, Entry
  <1> QED BY <1>4, <1>5

(* mth, one step down.                                                     *)
LEMMA SubtreeIs ==
    ASSUME NEW s, Len(s) \in Nat, NEW n \in 0..Len(s), NEW lo \in 0..Len(s) - n
    PROVE  Hashed(s)[n][lo] = Entry(s, n, Hashed(s), lo)
  <1>1. PICK h : h = Hashed(s)
    OBVIOUS
  <1>2. HashedTo(s, Len(s), h)
    BY <1>1, HashedIs
  <1>3. h[n] = [l \in 0..Len(s) - n |-> Entry(s, n, h, l)]
    BY <1>2 DEF HashedTo
  <1> QED BY <1>1, <1>3

(* mth: a root is of the leaves it covers and of no others, so that logs   *)
(* which begin alike have the same root at every size they share.          *)
LEMMA SameRoot ==
    ASSUME NEW s, NEW t, Len(s) \in Nat, Len(t) \in Nat,
           NEW m \in Nat, m <= Len(s), m <= Len(t), \A i \in 1..m : s[i] = t[i]
    PROVE  Mth(s, 0, m) = Mth(t, 0, m)
  <1> DEFINE g == Hashed(s)
             h == Hashed(t)
             Same(n) == \A k \in 0..n : \A lo \in 0..m - k : g[k][lo] = h[k][lo]
             S == {n \in Nat : n <= m => Same(n)}
  <1>1. ASSUME NEW n \in 0..m, \A k \in 1..n - 1 : \A lo \in 0..m - k : g[k][lo] = h[k][lo],
               NEW lo \in 0..m - n
        PROVE  g[n][lo] = h[n][lo]
    <2>1. n \in 0..Len(s) /\ n \in 0..Len(t) /\ lo \in 0..Len(s) - n /\ lo \in 0..Len(t) - n
      OBVIOUS
    <2>2. g[n][lo] = Entry(s, n, g, lo) /\ h[n][lo] = Entry(t, n, h, lo)
      BY <2>1, SubtreeIs
    <2> HIDE DEF g, h
    <2>3. CASE n = 0
      BY <2>2, <2>3 DEF Entry
    <2>4. CASE n = 1
      <3>1. lo + 1 \in 1..m
        BY <2>4
      <3>2. Entry(s, n, g, lo) = s[lo + 1] /\ Entry(t, n, h, lo) = t[lo + 1]
        BY <2>4 DEF Entry
      <3> QED BY <2>2, <3>1, <3>2
    <2>5. CASE n > 1
      <3>1. PICK k \in 1..n - 1 : k = Split(n)
        BY <2>5, SplitIs
      <3>2. n - k \in 1..n - 1 /\ lo \in 0..m - k /\ lo + k \in 0..m - (n - k)
        OBVIOUS
      <3>3. g[k][lo] = h[k][lo] /\ g[n - k][lo + k] = h[n - k][lo + k]
        BY <1>1, <3>2
      <3>4. /\ Entry(s, n, g, lo) = NodeHash(g[k][lo], g[n - k][lo + k])
            /\ Entry(t, n, h, lo) = NodeHash(h[k][lo], h[n - k][lo + k])
        BY <2>5, <3>1 DEF Entry
      <3> QED BY <2>2, <3>3, <3>4
    <2> QED BY <2>3, <2>4, <2>5
  <1> HIDE DEF g, h
  <1>2. 0 \in S
    BY <1>1
  <1>3. ASSUME NEW n \in Nat, n \in S PROVE n + 1 \in S
    <2> SUFFICES ASSUME n + 1 <= m PROVE Same(n + 1)
      OBVIOUS
    <2>1. Same(n)
      BY <1>3
    <2>2. \A lo \in 0..m - (n + 1) : g[n + 1][lo] = h[n + 1][lo]
      <3>1. PICK j \in 0..m : j = n + 1
        OBVIOUS
      <3>2. \A k \in 1..j - 1 : k \in 0..n
        BY <3>1
      <3>3. \A lo \in 0..m - j : g[j][lo] = h[j][lo]
        BY <1>1, <2>1, <3>2
      <3> QED BY <3>1, <3>3
    <2>3. \A k \in 0..n + 1 : k \in 0..n \/ k = n + 1
      OBVIOUS
    <2> QED BY <2>1, <2>2, <2>3
  <1>4. m \in S
    <2> HIDE DEF S
    <2> QED BY <1>2, <1>3, UpFromZero
  <1>5. g[m][0] = h[m][0]
    BY <1>4
  <1> QED BY <1>5 DEF Mth, g, h

(* A sequence, of whatever values.                                         *)
IsList(q) == \E X : q \in Seq(X)

(* What is so of every sequence.                                           *)
LEMMA ListIs ==
    ASSUME NEW q, IsList(q)
    PROVE  Len(q) \in Nat /\ DOMAIN q = 1..Len(q)
  BY LenProperties DEF IsList

(* A function over 1..n is a list, of n.                                   *)
LEMMA ListOf ==
    ASSUME NEW n \in Nat, NEW f, f = [i \in 1..n |-> f[i]]
    PROVE  IsList(f) /\ Len(f) = n
  <1> DEFINE A == {f[i] : i \in 1..n}
  <1>1. \A i \in 1..n : f[i] \in A
    OBVIOUS
  <1> HIDE DEF A
  <1>2. f \in [1..n -> A] /\ DOMAIN f = 1..n
    BY <1>1
  <1>3. f \in Seq(A)
    BY <1>2, SeqDef
  <1>4. Len(f) = n
    BY <1>2, <1>3, LenProperties
  <1> QED BY <1>3, <1>4 DEF IsList

(* Append, of any value to any sequence.                                   *)
LEMMA AppendToList ==
    ASSUME NEW q, IsList(q), NEW x
    PROVE  /\ IsList(Append(q, x)) /\ Len(Append(q, x)) = Len(q) + 1
           /\ \A i \in 1..Len(q) : Append(q, x)[i] = q[i]
           /\ Append(q, x)[Len(q) + 1] = x
  <1>1. PICK X : q \in Seq(X)
    BY DEF IsList
  <1> DEFINE Y == X \cup {x}
  <1>2. q \in Seq(Y) /\ x \in Y
    <2>1. Len(q) \in Nat /\ \A i \in 1..Len(q) : q[i] \in X
      BY <1>1, LenProperties, ElementOfSeq
    <2>2. q = [i \in 1..Len(q) |-> q[i]]
      BY <1>1
    <2>3. \A i \in 1..Len(q) : q[i] \in Y
      BY <2>1
    <2> HIDE DEF Y
    <2>4. q \in [1..Len(q) -> Y]
      BY <2>2, <2>3
    <2>5. q \in Seq(Y)
      BY <2>1, <2>4, SeqDef
    <2> QED BY <2>5 DEF Y
  <1> HIDE DEF Y
  <1>3. Append(q, x) \in Seq(Y)
    BY <1>2, AppendProperties
  <1> QED BY <1>2, <1>3, AppendProperties DEF IsList

(* x before q.                                                             *)
Before(x, q) == <<x>> \o q

(* Before, entry by entry.                                                 *)
LEMMA BeforeIs ==
    ASSUME NEW q, IsList(q), NEW x
    PROVE  /\ IsList(Before(x, q)) /\ Len(Before(x, q)) = Len(q) + 1 /\ Before(x, q)[1] = x
           /\ \A i \in 1..Len(q) : Before(x, q)[i + 1] = q[i]
  <1>1. PICK X : q \in Seq(X)
    BY DEF IsList
  <1> DEFINE Y == X \cup {x}
  <1>2. q \in Seq(Y) /\ x \in Y
    <2>1. Len(q) \in Nat /\ \A i \in 1..Len(q) : q[i] \in X
      BY <1>1, LenProperties, ElementOfSeq
    <2>2. q = [i \in 1..Len(q) |-> q[i]]
      BY <1>1
    <2>3. \A i \in 1..Len(q) : q[i] \in Y
      BY <2>1
    <2> HIDE DEF Y
    <2>4. q \in [1..Len(q) -> Y]
      BY <2>2, <2>3
    <2>5. q \in Seq(Y)
      BY <2>1, <2>4, SeqDef
    <2> QED BY <2>5 DEF Y
  <1> HIDE DEF Y
  <1>3. <<x>> \in Seq(Y) /\ Len(<<x>>) = 1 /\ <<x>>[1] = x /\ Len(q) \in Nat
    BY <1>2, LenProperties
  <1>4. <<x>> \o q \in Seq(Y) /\ Len(<<x>> \o q) = 1 + Len(q)
        /\ \A i \in 1..1 + Len(q) : (<<x>> \o q)[i] = IF i <= 1 THEN <<x>>[i] ELSE q[i - 1]
    BY <1>2, <1>3, ConcatProperties
  <1> DEFINE b == <<x>> \o q
  <1> HIDE DEF b
  <1>5. b \in Seq(Y) /\ Len(b) = 1 + Len(q)
        /\ \A i \in 1..1 + Len(q) : b[i] = IF i <= 1 THEN <<x>>[i] ELSE q[i - 1]
    BY <1>4 DEF b
  <1>6. b[1] = x /\ \A i \in 1..Len(q) : b[i + 1] = q[i]
    <2>1. \A i \in 1..Len(q) : i + 1 \in 1..1 + Len(q) /\ ~(i + 1 <= 1) /\ (i + 1) - 1 = i
      BY <1>3
    <2> QED BY <1>3, <1>5, <2>1
  <1> QED BY <1>3, <1>5, <1>6 DEF Before, IsList, b

(* Two sequences with the same entries are one.                            *)
LEMMA SameList ==
    ASSUME NEW q, NEW r, IsList(q), IsList(r), Len(q) = Len(r), \A i \in 1..Len(q) : q[i] = r[i]
    PROVE  q = r
  <1>1. q = [i \in 1..Len(q) |-> q[i]] /\ r = [i \in 1..Len(r) |-> r[i]]
    BY DEF IsList
  <1> QED BY <1>1

(* What goes before and what goes behind do not meet.                      *)
LEMMA BeforeAppend ==
    ASSUME NEW q, IsList(q), NEW x, NEW c
    PROVE  Append(Before(c, q), x) = Before(c, Append(q, x))
  <1> DEFINE b == Before(c, q)
             a == Append(q, x)
             d == Append(b, x)
             e == Before(c, a)
  <1>1. IsList(b) /\ Len(b) = Len(q) + 1 /\ b[1] = c /\ \A i \in 1..Len(q) : b[i + 1] = q[i]
    BY BeforeIs
  <1>2. IsList(a) /\ Len(a) = Len(q) + 1 /\ (\A i \in 1..Len(q) : a[i] = q[i]) /\ a[Len(q) + 1] = x
    BY AppendToList
  <1> HIDE DEF a, b
  <1>3. IsList(d) /\ Len(d) = Len(b) + 1 /\ (\A i \in 1..Len(b) : d[i] = b[i]) /\ d[Len(b) + 1] = x
    BY <1>1, AppendToList
  <1>4. IsList(e) /\ Len(e) = Len(a) + 1 /\ e[1] = c /\ \A i \in 1..Len(a) : e[i + 1] = a[i]
    BY <1>2, BeforeIs
  <1> HIDE DEF d, e
  <1>5. Len(q) \in Nat
    BY ListIs
  <1>6. ASSUME NEW i \in 1..Len(d) PROVE d[i] = e[i]
    <2>1. CASE i = 1
      BY <1>1, <1>3, <1>4, <1>5, <2>1
    <2>2. CASE i > 1 /\ i <= Len(q) + 1
      <3>1. PICK j \in 1..Len(q) : i = j + 1
        BY <1>5, <2>2
      <3>2. j \in 1..Len(a) /\ j + 1 \in 1..Len(b)
        BY <1>1, <1>2, <1>5
      <3>3. d[j + 1] = b[j + 1] /\ b[j + 1] = q[j]
        BY <1>1, <1>3, <3>2
      <3>4. e[j + 1] = a[j] /\ a[j] = q[j]
        BY <1>2, <1>4, <3>2
      <3> QED BY <3>1, <3>3, <3>4
    <2>3. CASE i = Len(q) + 2
      <3>1. i = Len(b) + 1 /\ i = (Len(q) + 1) + 1 /\ Len(q) + 1 \in 1..Len(a)
        BY <1>1, <1>2, <1>5, <2>3
      <3> QED BY <1>2, <1>3, <1>4, <3>1
    <2> QED BY <1>1, <1>3, <1>5, <2>1, <2>2, <2>3
  <1>7. d = e
    BY <1>1, <1>2, <1>3, <1>4, <1>6, SameList
  <1> QED BY <1>7 DEF a, b, d, e

(* The row above s: pairs are hashed, and a last one without a partner     *)
(* goes up.                                                                *)
Above(s) == [i \in 1..(Len(s) + 1) \div 2 |-> IF 2 * i <= Len(s) THEN NodeHash(s[2 * i - 1], s[2 * i]) ELSE s[2 * i - 1]]

(* Above, hash by hash.                                                    *)
LEMMA AboveIs ==
    ASSUME NEW s, Len(s) \in Nat
    PROVE  /\ Len(Above(s)) = (Len(s) + 1) \div 2 /\ Len(Above(s)) \in Nat
           /\ \A i \in 1..(Len(s) + 1) \div 2 :
                 Above(s)[i] = IF 2 * i <= Len(s) THEN NodeHash(s[2 * i - 1], s[2 * i]) ELSE s[2 * i - 1]
  <1>1. PICK n \in Nat : n = (Len(s) + 1) \div 2
    OBVIOUS
  <1>2. Above(s) = [i \in 1..n |-> IF 2 * i <= Len(s) THEN NodeHash(s[2 * i - 1], s[2 * i]) ELSE s[2 * i - 1]]
    BY <1>1 DEF Above
  <1>3. \A i \in 1..n : Above(s)[i] = IF 2 * i <= Len(s) THEN NodeHash(s[2 * i - 1], s[2 * i]) ELSE s[2 * i - 1]
    BY <1>2
  <1>4. Above(s) = [i \in 1..n |-> Above(s)[i]]
    BY <1>2
  <1>5. Len(Above(s)) = n
    BY <1>4, ListOf
  <1> QED BY <1>1, <1>3, <1>5

(* The n leaves from lo on are pairs of the row, but for the last of the   *)
(* row.                                                                    *)
Paired(s, n, l) == 2 * l + n <= Len(s) /\ ((\E b \in Nat : n = 2 * b) \/ 2 * l + n = Len(s))

(* Half a number, rounded up.                                              *)
LEMMA UpIs == \A a, b \in Nat : (a = 2 * b \/ a + 1 = 2 * b) => (a + 1) \div 2 = b
  OBVIOUS

(* What is left of a range after an even number of its leaves, and half of *)
(* it.                                                                     *)
LEMMA RestIs ==
    \A i, j, m, k \in Nat :
        /\ i = 2 * m \/ i + 1 = 2 * m => i - 2 * k = 2 * (m - k) \/ (i - 2 * k) + 1 = 2 * (m - k)
        /\ i = 2 * m => i - 2 * k = 2 * (m - k)
        /\ 2 * (j + k) + (i - 2 * k) = 2 * j + i
  OBVIOUS

(* mth: a row of n places stands under a row of half as many, and one more *)
(* when n is odd.                                                          *)
LEMMA PairsOf ==
    \A n, k \in Nat : k = (n + 1) \div 2 => n = 2 * k \/ n + 1 = 2 * k
  OBVIOUS

(* mth: a hash over pairs of a row is the hash over their hashes in the    *)
(* row above, since both are split at the same place.                      *)
LEMMA RowHashes ==
    ASSUME NEW s, Len(s) \in Nat, NEW n \in Nat, 1 <= n, NEW l \in Nat, Paired(s, n, l)
    PROVE  Hashed(s)[n][2 * l] = Hashed(Above(s))[(n + 1) \div 2][l]
  <1> DEFINE g == Hashed(s)
             t == Above(s)
             h == Hashed(t)
             Rises(i) == \A j \in Nat : 1 <= i /\ Paired(s, i, j) => g[i][2 * j] = h[(i + 1) \div 2][j]
             S == {i \in Nat : Rises(i)}
  <1>a. /\ Len(t) = (Len(s) + 1) \div 2 /\ Len(t) \in Nat
        /\ \A i \in 1..(Len(s) + 1) \div 2 : t[i] = IF 2 * i <= Len(s) THEN NodeHash(s[2 * i - 1], s[2 * i]) ELSE s[2 * i - 1]
    BY AboveIs
  <1> HIDE DEF t
  <1>b. /\ \A i \in 0..Len(s) : \A lo \in 0..Len(s) - i : g[i][lo] = Entry(s, i, g, lo)
        /\ \A i \in 0..Len(t) : \A lo \in 0..Len(t) - i : h[i][lo] = Entry(t, i, h, lo)
    BY <1>a, SubtreeIs
  <1> HIDE DEF g, h
  <1>1. ASSUME NEW i \in Nat, \A m \in 0..i - 1 : m \in S PROVE i \in S
    <2> SUFFICES ASSUME NEW j \in Nat, 1 <= i, Paired(s, i, j) PROVE g[i][2 * j] = h[(i + 1) \div 2][j]
      OBVIOUS
    <2>1. PICK m \in Nat : m = (i + 1) \div 2 /\ (i = 2 * m \/ i + 1 = 2 * m)
      BY PairsOf
    <2>2. /\ 2 * j + i <= Len(s) /\ (i = 2 * m \/ 2 * j + i = Len(s))
          /\ (Len(s) = 2 * Len(t) \/ Len(s) + 1 = 2 * Len(t))
      <3>1. 2 * j + i <= Len(s) /\ (i = 2 * m \/ 2 * j + i = Len(s))
        BY <2>1 DEF Paired
      <3>2. Len(s) = 2 * Len(t) \/ Len(s) + 1 = 2 * Len(t)
        BY <1>a, PairsOf, Zenon
      <3> QED BY <3>1, <3>2
    <2>3. i \in 0..Len(s) /\ 2 * j \in 0..Len(s) - i /\ m \in 1..Len(t) /\ j \in 0..Len(t) - m
      BY <1>a, <2>1, <2>2
    <2>4. g[i][2 * j] = Entry(s, i, g, 2 * j) /\ h[m][j] = Entry(t, m, h, j)
      BY <1>b, <2>3
    <2>5. CASE i = 1
      <3>1. m = 1 /\ j + 1 \in 1..(Len(s) + 1) \div 2 /\ ~(2 * (j + 1) <= Len(s)) /\ 2 * (j + 1) - 1 = 2 * j + 1
        BY <1>a, <2>1, <2>2, <2>5
      <3>2. Entry(s, i, g, 2 * j) = s[2 * j + 1] /\ Entry(t, m, h, j) = t[j + 1]
        BY <2>5, <3>1 DEF Entry
      <3> QED BY <1>a, <2>1, <2>4, <3>1, <3>2
    <2>6. CASE i = 2
      <3>1. /\ m = 1 /\ Split(i) = 1 /\ j + 1 \in 1..(Len(s) + 1) \div 2 /\ 2 * (j + 1) <= Len(s)
            /\ 2 * (j + 1) - 1 = 2 * j + 1 /\ 2 * (j + 1) = 2 * j + 2
        BY <1>a, <2>1, <2>2, <2>6, SplitIs
      <3>2. Entry(s, i, g, 2 * j) = NodeHash(g[1][2 * j], g[1][2 * j + 1])
        BY <2>6, <3>1 DEF Entry
      <3>3. g[1][2 * j] = s[2 * j + 1] /\ g[1][2 * j + 1] = s[2 * j + 2]
        <4>1. 1 \in 0..Len(s) /\ 2 * j \in 0..Len(s) - 1 /\ 2 * j + 1 \in 0..Len(s) - 1
          BY <2>2, <2>6
        <4>2. \A lo : Entry(s, 1, g, lo) = s[lo + 1]
          BY DEF Entry
        <4>3. (2 * j + 1) + 1 = 2 * j + 2
          OBVIOUS
        <4> QED BY <1>b, <4>1, <4>2, <4>3
      <3>4. Entry(t, m, h, j) = t[j + 1]
        BY <3>1 DEF Entry
      <3> QED BY <1>a, <2>1, <2>4, <3>1, <3>2, <3>3, <3>4
    <2>7. CASE i > 2
      <3>1. m > 1 /\ m < i
        BY <2>1, <2>7
      <3>2. PICK k \in 1..m - 1 : k = Split(m)
        BY <3>1, SplitIs
      <3>3. Split(i) = 2 * k
        BY <2>1, <2>7, <3>2, SplitHalf
      <3>4. g[2 * k][2 * j] = h[k][j]
        <4>1. 2 * k \in 0..i - 1 /\ k \in Nat /\ 1 <= 2 * k
          BY <2>1, <3>2
        <4>2. (2 * k + 1) \div 2 = k
          BY <4>1, UpIs
        <4>3. Paired(s, 2 * k, j)
          BY <2>2, <4>1 DEF Paired
        <4> QED BY <1>1, <4>1, <4>2, <4>3
      <3>5. g[i - 2 * k][2 * (j + k)] = h[m - k][j + k]
        <4>1. i - 2 * k \in 0..i - 1 /\ 1 <= i - 2 * k /\ j + k \in Nat /\ m - k \in Nat
          BY <2>1, <3>2
        <4>2. i - 2 * k = 2 * (m - k) \/ (i - 2 * k) + 1 = 2 * (m - k)
          BY <2>1, RestIs
        <4>3. ((i - 2 * k) + 1) \div 2 = m - k
          BY <4>1, <4>2, UpIs
        <4>4. 2 * (j + k) + (i - 2 * k) = 2 * j + i /\ (i = 2 * m => i - 2 * k = 2 * (m - k))
          BY RestIs
        <4>5. Paired(s, i - 2 * k, j + k)
          BY <2>2, <4>1, <4>4 DEF Paired
        <4> QED BY <1>1, <4>1, <4>3, <4>5
      <3>6. Entry(s, i, g, 2 * j) = NodeHash(g[2 * k][2 * j], g[i - 2 * k][2 * j + 2 * k])
        BY <2>7, <3>3 DEF Entry
      <3>7. Entry(t, m, h, j) = NodeHash(h[k][j], h[m - k][j + k])
        BY <3>1, <3>2 DEF Entry
      <3>8. 2 * (j + k) = 2 * j + 2 * k
        OBVIOUS
      <3> QED BY <2>1, <2>4, <3>4, <3>5, <3>6, <3>7, <3>8
    <2> QED BY <2>5, <2>6, <2>7
  <1>2. \A i \in Nat : i \in S
    <2> HIDE DEF S
    <2> QED BY <1>1, FromSmaller
  <1>3. Rises(n)
    BY <1>2
  <1> QED BY <1>3 DEF g, h, t

(* A row and the row above it have one root.                               *)
LEMMA RootAbove ==
    ASSUME NEW s, Len(s) \in Nat, 1 <= Len(s)
    PROVE  Root(s) = Root(Above(s))
  <1>1. Paired(s, Len(s), 0) /\ 2 * 0 = 0
    BY DEF Paired
  <1>2. Hashed(s)[Len(s)][0] = Hashed(Above(s))[(Len(s) + 1) \div 2][0]
    BY <1>1, RowHashes
  <1>3. Len(Above(s)) = (Len(s) + 1) \div 2 /\ Len(Above(s)) \in Nat
    BY AboveIs
  <1>4. Len(s) - 0 = Len(s) /\ Len(Above(s)) - 0 = Len(Above(s))
    BY <1>3
  <1> QED BY <1>2, <1>3, <1>4 DEF Root, Mth

(* What a range of more than two leaves is halved into, and the range      *)
(* above it.                                                               *)
HalvedAs(s, i, j, h, k) ==
    /\ h = (i + 1) \div 2 /\ (i = 2 * h \/ i + 1 = 2 * h) /\ h > 1
    /\ k \in 1..h - 1 /\ k = Split(h) /\ Split(i) = 2 * k
    /\ 2 * k \in 1..i - 1 /\ i - 2 * k \in 1..i - 1 /\ j + k \in Nat /\ h - k \in Nat
    /\ (2 * k + 1) \div 2 = k /\ ((i - 2 * k) + 1) \div 2 = h - k
    /\ Paired(s, 2 * k, j) /\ Paired(s, i - 2 * k, j + k)
    /\ Mth(s, 2 * j, 2 * j + 2 * k) = Mth(Above(s), j, j + k)
    /\ Mth(s, 2 * j + 2 * k, 2 * j + i) = Mth(Above(s), j + k, j + h)

(* Such halves there are.                                                  *)
LEMMA Halves ==
    ASSUME NEW s, Len(s) \in Nat, NEW i \in Nat, i > 2, NEW j \in Nat, Paired(s, i, j)
    PROVE  \E h, k \in Nat : HalvedAs(s, i, j, h, k)
  <1>1. PICK h \in Nat : h = (i + 1) \div 2 /\ (i = 2 * h \/ i + 1 = 2 * h) /\ h > 1
    OBVIOUS
  <1>2. PICK k \in 1..h - 1 : k = Split(h)
    BY <1>1, SplitIs
  <1>3. Split(i) = 2 * k
    BY <1>1, <1>2, SplitHalf
  <1>4. /\ 2 * k \in 1..i - 1 /\ k \in Nat /\ i - 2 * k \in 1..i - 1 /\ j + k \in Nat /\ h - k \in Nat
    BY <1>1, <1>2
  <1>5. (2 * k + 1) \div 2 = k /\ ((i - 2 * k) + 1) \div 2 = h - k
    <2>1. i - 2 * k = 2 * (h - k) \/ (i - 2 * k) + 1 = 2 * (h - k)
      BY <1>1, RestIs
    <2> QED BY <1>4, <2>1, UpIs
  <1>6. 2 * j + i <= Len(s) /\ (i = 2 * h \/ 2 * j + i = Len(s))
    BY <1>1 DEF Paired
  <1>7. 2 * (j + k) + (i - 2 * k) = 2 * j + i /\ (i = 2 * h => i - 2 * k = 2 * (h - k))
    BY RestIs
  <1>8. Paired(s, 2 * k, j)
    <2>1. 2 * j + 2 * k <= Len(s)
      BY <1>4, <1>6
    <2> QED BY <1>4, <2>1 DEF Paired
  <1>9. Paired(s, i - 2 * k, j + k)
    <2>1. 2 * (j + k) + (i - 2 * k) <= Len(s)
      BY <1>6, <1>7
    <2>2. (\E b \in Nat : i - 2 * k = 2 * b) \/ 2 * (j + k) + (i - 2 * k) = Len(s)
      <3>1. CASE i = 2 * h
        BY <1>4, <1>7, <3>1
      <3>2. CASE 2 * j + i = Len(s)
        BY <1>7, <3>2
      <3> QED BY <1>6, <3>1, <3>2
    <2> QED BY <2>1, <2>2 DEF Paired
  <1>10. Mth(s, 2 * j, 2 * j + 2 * k) = Mth(Above(s), j, j + k)
    <2>1. Hashed(s)[2 * k][2 * j] = Hashed(Above(s))[(2 * k + 1) \div 2][j]
      <3>1. 2 * k \in Nat /\ 1 <= 2 * k
        BY <1>4
      <3> QED BY <1>8, <3>1, RowHashes
    <2>2. (2 * j + 2 * k) - 2 * j = 2 * k /\ (j + k) - j = k
      OBVIOUS
    <2> QED BY <1>5, <2>1, <2>2 DEF Mth
  <1>11. Mth(s, 2 * j + 2 * k, 2 * j + i) = Mth(Above(s), j + k, j + h)
    <2>1. Hashed(s)[i - 2 * k][2 * (j + k)] = Hashed(Above(s))[((i - 2 * k) + 1) \div 2][j + k]
      <3>1. i - 2 * k \in Nat /\ 1 <= i - 2 * k
        BY <1>4
      <3> QED BY <1>4, <1>9, <3>1, RowHashes
    <2>2. (2 * j + i) - (2 * j + 2 * k) = i - 2 * k /\ (j + h) - (j + k) = h - k /\ 2 * (j + k) = 2 * j + 2 * k
      OBVIOUS
    <2> QED BY <1>5, <2>1, <2>2 DEF Mth
  <1> QED BY <1>1, <1>2, <1>3, <1>4, <1>5, <1>8, <1>9, <1>10, <1>11 DEF HalvedAs

(* One leaf is its own hash.                                               *)
LEMMA Single ==
    ASSUME NEW s, Len(s) \in Nat, NEW m \in 0..Len(s) - 1
    PROVE  Mth(s, m, m + 1) = s[m + 1]
  <1>1. 1 \in 0..Len(s) /\ m \in 0..Len(s) - 1 /\ (m + 1) - m = 1
    OBVIOUS
  <1>2. \A lo : Entry(s, 1, Hashed(s), lo) = s[lo + 1]
    BY DEF Entry
  <1>3. Hashed(s)[1][m] = s[m + 1]
    BY <1>1, <1>2, SubtreeIs
  <1> QED BY <1>1, <1>3 DEF Mth

-------------------------------------------------------------------------------
(* What path gives: from the leaf to the root, the partner in each row.    *)

(* The body of path, over the paths p in the smaller subtrees; PathsTo     *)
(* says that p holds every subtree of at most u leaves.                    *)
PathEntry(s, m, n, p, lo) ==
    IF n <= 1 THEN <<>>
    ELSE LET k == Split(n) IN
         IF m < lo + k THEN Append(p[k][lo], Mth(s, lo + k, lo + n))
         ELSE Append(p[n - k][lo + k], Mth(s, lo, lo + k))
PathsTo(s, m, u, p) == p = [n \in 0..u |-> [lo \in 0..Len(s) - n |-> PathEntry(s, m, n, p, lo)]]

(* path: the recursion ends, so that there is such a function and Path is  *)
(* its last value.                                                         *)
LEMMA PathIs ==
    ASSUME NEW s, Len(s) \in Nat, NEW m
    PROVE  \E p : PathsTo(s, m, Len(s), p) /\ Path(s, m) = p[Len(s)][0]
  <1> DEFINE S == {u \in Nat : \E p : PathsTo(s, m, u, p)}
  <1>1. 0 \in S
    <2> DEFINE p == [n \in 0..0 |-> [lo \in 0..Len(s) - n |-> <<>>]]
    <2>1. \A n \in 0..0 : n = 0
      OBVIOUS
    <2>2. \A lo : PathEntry(s, m, 0, p, lo) = <<>>
      BY DEF PathEntry
    <2>3. PathsTo(s, m, 0, p)
      BY <2>1, <2>2 DEF PathsTo
    <2> QED BY <2>3
  <1>2. ASSUME NEW u \in Nat, u \in S PROVE u + 1 \in S
    <2>1. PICK g : PathsTo(s, m, u, g)
      BY <1>2
    <2> DEFINE p == [n \in 0..u + 1 |-> IF n <= u THEN g[n] ELSE [lo \in 0..Len(s) - n |-> PathEntry(s, m, n, g, lo)]]
    <2>2. \A n \in 0..u : p[n] = g[n]
      OBVIOUS
    <2>3. p[u + 1] = [lo \in 0..Len(s) - (u + 1) |-> PathEntry(s, m, u + 1, g, lo)]
      OBVIOUS
    <2>4. p = [n \in 0..u + 1 |-> p[n]]
      OBVIOUS
    <2> HIDE DEF p
    <2>5. ASSUME NEW n \in 0..u + 1, NEW lo PROVE PathEntry(s, m, n, g, lo) = PathEntry(s, m, n, p, lo)
      <3>1. CASE n > 1
        <4>1. Split(n) \in 0..u /\ n - Split(n) \in 0..u
          BY <3>1, SplitIs
        <4>2. p[Split(n)] = g[Split(n)] /\ p[n - Split(n)] = g[n - Split(n)]
          BY <2>2, <4>1
        <4> QED BY <3>1, <4>2 DEF PathEntry
      <3>2. CASE ~(n > 1)
        BY <3>2 DEF PathEntry
      <3> QED BY <3>1, <3>2
    <2>6. ASSUME NEW n \in 0..u + 1 PROVE p[n] = [lo \in 0..Len(s) - n |-> PathEntry(s, m, n, p, lo)]
      <3>1. p[n] = [lo \in 0..Len(s) - n |-> PathEntry(s, m, n, g, lo)]
        <4>1. CASE n \in 0..u
          BY <2>1, <2>2, <4>1 DEF PathsTo
        <4>2. CASE n = u + 1
          BY <2>3, <4>2
        <4> QED BY <4>1, <4>2
      <3> QED BY <2>5, <3>1
    <2>7. PathsTo(s, m, u + 1, p)
      BY <2>4, <2>6 DEF PathsTo
    <2> QED BY <2>7
  <1>3. Len(s) \in S
    <2> HIDE DEF S
    <2> QED BY <1>1, <1>2, UpFromZero
  <1>4. \E p : PathsTo(s, m, Len(s), p)
    BY <1>3
  <1>5. Path(s, m) = (CHOOSE p : PathsTo(s, m, Len(s), p))[Len(s)][0]
    BY Zenon DEF Path, PathsTo, PathEntry
  <1> QED BY <1>4, <1>5

(* path, one step down; and it gives sequences.                            *)
LEMMA PathsAreLists ==
    ASSUME NEW s, Len(s) \in Nat, NEW m, NEW p, PathsTo(s, m, Len(s), p)
    PROVE  \A n \in 0..Len(s) : \A lo \in 0..Len(s) - n :
               p[n][lo] = PathEntry(s, m, n, p, lo) /\ IsList(p[n][lo])
  <1>1. \A n \in 0..Len(s) : \A lo \in 0..Len(s) - n : p[n][lo] = PathEntry(s, m, n, p, lo)
    <2> SUFFICES ASSUME NEW n \in 0..Len(s), NEW lo \in 0..Len(s) - n PROVE p[n][lo] = PathEntry(s, m, n, p, lo)
      OBVIOUS
    <2>1. p[n] = [l \in 0..Len(s) - n |-> PathEntry(s, m, n, p, l)]
      BY DEF PathsTo
    <2> QED BY <2>1
  <1> DEFINE S == {n \in Nat : n <= Len(s) => \A lo \in 0..Len(s) - n : IsList(p[n][lo])}
  <1>2. ASSUME NEW n \in Nat, \A i \in 0..n - 1 : i \in S PROVE n \in S
    <2> SUFFICES ASSUME n <= Len(s), NEW lo \in 0..Len(s) - n PROVE IsList(p[n][lo])
      OBVIOUS
    <2>1. p[n][lo] = PathEntry(s, m, n, p, lo)
      BY <1>1
    <2>2. CASE n <= 1
      <3>1. PathEntry(s, m, n, p, lo) = <<>> /\ <<>> \in Seq({})
        BY <2>2 DEF PathEntry
      <3> QED BY <2>1, <3>1 DEF IsList
    <2>3. CASE n > 1
      <3>1. PICK k \in 1..n - 1 : k = Split(n)
        BY <2>3, SplitIs
      <3>2. IsList(p[k][lo]) /\ IsList(p[n - k][lo + k])
        <4>1. k \in 0..n - 1 /\ n - k \in 0..n - 1 /\ lo \in 0..Len(s) - k /\ lo + k \in 0..Len(s) - (n - k)
              /\ k <= Len(s) /\ n - k <= Len(s)
          OBVIOUS
        <4> QED BY <1>2, <4>1
      <3>3. CASE m < lo + k
        <4>1. PathEntry(s, m, n, p, lo) = Append(p[k][lo], Mth(s, lo + k, lo + n))
          BY <2>3, <3>1, <3>3 DEF PathEntry
        <4> QED BY <2>1, <3>2, <4>1, AppendToList
      <3>4. CASE ~(m < lo + k)
        <4>1. PathEntry(s, m, n, p, lo) = Append(p[n - Split(n)][lo + Split(n)], Mth(s, lo, lo + Split(n)))
          <5>1. ~(n <= 1) /\ ~(m < lo + Split(n))
            BY <2>3, <3>1, <3>4
          <5> QED BY Zenon, <5>1 DEF PathEntry
        <4> QED BY <2>1, <3>1, <3>2, <4>1, AppendToList
      <3> QED BY <3>3, <3>4
    <2> QED BY <2>2, <2>3
  <1>3. \A n \in Nat : n \in S
    <2> HIDE DEF S
    <2> QED BY <1>2, FromSmaller
  <1> QED BY <1>1, <1>3

(* path of all leaves is a sequence, of nothing in a log of one leaf.      *)
LEMMA PathIsList ==
    ASSUME NEW s, Len(s) \in Nat, NEW m
    PROVE  IsList(Path(s, m)) /\ (Len(s) <= 1 => Path(s, m) = <<>>)
  <1>1. PICK p : PathsTo(s, m, Len(s), p) /\ Path(s, m) = p[Len(s)][0]
    BY PathIs
  <1>2. p[Len(s)][0] = PathEntry(s, m, Len(s), p, 0) /\ IsList(p[Len(s)][0])
    BY <1>1, PathsAreLists
  <1> QED BY <1>1, <1>2 DEF PathEntry

(* The last leaf of a row, without a partner; the partner of any other.    *)
Lone(s, m) == m + 1 = Len(s) /\ m % 2 = 0
Partner(s, m) == IF m % 2 = 1 THEN s[m] ELSE s[m + 2]

(* The path q of leaf m in the row s, and the path r of its parent in the  *)
(* row above: the partner comes before it, if there is one.                *)
Rising(s, m, q, r) == IF Lone(s, m) THEN q = r ELSE q = Before(Partner(s, m), r)

(* path is given from the root down; it is the same from the leaf up,      *)
(* which is how a verifier reads it.                                       *)
LEMMA PathAbove ==
    ASSUME NEW s, Len(s) \in Nat, NEW m \in 0..Len(s) - 1
    PROVE  Rising(s, m, Path(s, m), Path(Above(s), m \div 2))
  <1> DEFINE t == Above(s)
             f == m \div 2
  <1>a. Len(t) = (Len(s) + 1) \div 2 /\ Len(t) \in Nat
    BY AboveIs
  <1>b. f \in Nat /\ (m = 2 * f \/ m = 2 * f + 1)
    OBVIOUS
  <1>c. PICK p : PathsTo(s, m, Len(s), p) /\ Path(s, m) = p[Len(s)][0]
    BY PathIs
  <1>d. PICK r : PathsTo(t, f, Len(t), r) /\ Path(t, f) = r[Len(t)][0]
    BY <1>a, PathIs
  <1>e. /\ \A n \in 0..Len(s) : \A lo \in 0..Len(s) - n : p[n][lo] = PathEntry(s, m, n, p, lo)
        /\ \A n \in 0..Len(t) : \A lo \in 0..Len(t) - n : r[n][lo] = PathEntry(t, f, n, r, lo) /\ IsList(r[n][lo])
    BY <1>a, <1>c, <1>d, PathsAreLists
  <1> HIDE DEF t, f
  <1> DEFINE Rises(i) == \A j \in Nat : 1 <= i /\ Paired(s, i, j) /\ m \in 2 * j..2 * j + i - 1 =>
                             Rising(s, m, p[i][2 * j], r[(i + 1) \div 2][j])
             S == {i \in Nat : Rises(i)}
  <1>1. ASSUME NEW i \in Nat, \A k \in 0..i - 1 : k \in S PROVE i \in S
    <2> SUFFICES ASSUME NEW j \in Nat, 1 <= i, Paired(s, i, j), m \in 2 * j..2 * j + i - 1
                 PROVE  Rising(s, m, p[i][2 * j], r[(i + 1) \div 2][j])
      OBVIOUS
    <2>1. PICK h \in Nat : h = (i + 1) \div 2 /\ (i = 2 * h \/ i + 1 = 2 * h)
      OBVIOUS
    <2>2. /\ 2 * j + i <= Len(s) /\ (i = 2 * h \/ 2 * j + i = Len(s))
          /\ (Len(s) = 2 * Len(t) \/ Len(s) + 1 = 2 * Len(t))
      <3>1. 2 * j + i <= Len(s) /\ (i = 2 * h \/ 2 * j + i = Len(s))
        BY <2>1 DEF Paired
      <3>2. Len(s) = 2 * Len(t) \/ Len(s) + 1 = 2 * Len(t)
        BY <1>a
      <3> QED BY <3>1, <3>2
    <2>3. i \in 0..Len(s) /\ 2 * j \in 0..Len(s) - i /\ h \in 1..Len(t) /\ j \in 0..Len(t) - h
      BY <1>a, <2>1, <2>2
    <2>4. p[i][2 * j] = PathEntry(s, m, i, p, 2 * j) /\ r[h][j] = PathEntry(t, f, h, r, j)
      BY <1>e, <2>3
    <2>5. CASE i = 1
      <3>1. h = 1 /\ m = 2 * j /\ m + 1 = Len(s)
        BY <2>1, <2>2, <2>5
      <3>2. Lone(s, m)
        BY <3>1 DEF Lone
      <3>3. PathEntry(s, m, i, p, 2 * j) = <<>> /\ PathEntry(t, f, h, r, j) = <<>>
        BY <2>5, <3>1 DEF PathEntry
      <3> QED BY <2>1, <2>4, <3>2, <3>3 DEF Rising
    <2>6. CASE i = 2
      <3>1. h = 1 /\ Split(i) = 1 /\ (m = 2 * j \/ m = 2 * j + 1) /\ 2 * j + 2 <= Len(s)
        BY <2>1, <2>2, <2>6, SplitIs
      <3>2. PathEntry(t, f, h, r, j) = <<>>
        BY <3>1 DEF PathEntry
      <3>3. /\ p[1][2 * j] = <<>> /\ p[1][2 * j + 1] = <<>>
        <4>1. 1 \in 0..Len(s) /\ 2 * j \in 0..Len(s) - 1 /\ 2 * j + 1 \in 0..Len(s) - 1
          BY <3>1
        <4>2. \A lo : PathEntry(s, m, 1, p, lo) = <<>>
          BY DEF PathEntry
        <4> QED BY <1>e, <4>1, <4>2
      <3>4. Mth(s, 2 * j + 1, 2 * j + 2) = s[2 * j + 2] /\ Mth(s, 2 * j, 2 * j + 1) = s[2 * j + 1]
        <4>1. 2 * j \in 0..Len(s) - 1 /\ 2 * j + 1 \in 0..Len(s) - 1 /\ (2 * j + 1) + 1 = 2 * j + 2
          BY <3>1
        <4>2. Mth(s, 2 * j, 2 * j + 1) = s[2 * j + 1]
          BY <4>1, Single
        <4>3. Mth(s, 2 * j + 1, (2 * j + 1) + 1) = s[(2 * j + 1) + 1]
          BY <4>1, Single
        <4> QED BY <4>1, <4>2, <4>3
      <3>5. CASE m = 2 * j
        <4>1. ~Lone(s, m) /\ Partner(s, m) = s[2 * j + 2]
          <5>1. m % 2 # 1 /\ m + 1 # Len(s)
            BY <3>1, <3>5
          <5> QED BY <3>5, <5>1 DEF Lone, Partner
        <4>2. PathEntry(s, m, i, p, 2 * j) = Append(p[1][2 * j], Mth(s, 2 * j + 1, 2 * j + 2))
          BY <2>6, <3>1, <3>5 DEF PathEntry
        <4>3. Append(<<>>, s[2 * j + 2]) = Before(s[2 * j + 2], <<>>)
          BY DEF Before
        <4> QED BY <2>1, <2>4, <3>2, <3>3, <3>4, <4>1, <4>2, <4>3 DEF Rising
      <3>6. CASE m = 2 * j + 1
        <4>1. ~Lone(s, m) /\ Partner(s, m) = s[2 * j + 1]
          <5>1. m % 2 = 1
            BY <3>1, <3>6
          <5> QED BY <3>6, <5>1 DEF Lone, Partner
        <4>2. PathEntry(s, m, i, p, 2 * j) = Append(p[1][2 * j + 1], Mth(s, 2 * j, 2 * j + 1))
          BY <2>6, <3>1, <3>6 DEF PathEntry
        <4>3. Append(<<>>, s[2 * j + 1]) = Before(s[2 * j + 1], <<>>)
          BY DEF Before
        <4> QED BY <2>1, <2>4, <3>2, <3>3, <3>4, <4>1, <4>2, <4>3 DEF Rising
      <3> QED BY <3>1, <3>5, <3>6
    <2>7. CASE i > 2
      <3>1. PICK l \in Nat, k \in Nat : HalvedAs(s, i, j, l, k)
        BY <2>7, Halves
      <3>2. l = h
        BY <2>1, <3>1 DEF HalvedAs
      <3>3. HalvedAs(s, i, j, h, k)
        BY <3>1, <3>2
      <3>a. /\ k \in Nat /\ h > 1 /\ k \in 1..h - 1 /\ j + k \in Nat /\ h - k \in Nat
            /\ 2 * k \in 0..i - 1 /\ 1 <= 2 * k /\ i - 2 * k \in 0..i - 1 /\ 1 <= i - 2 * k
        <4>1. k \in Nat /\ h > 1 /\ k \in 1..h - 1 /\ j + k \in Nat /\ h - k \in Nat
          BY <3>1, <3>3 DEF HalvedAs
        <4>2. 2 * k \in 1..i - 1 /\ i - 2 * k \in 1..i - 1
          BY <3>3 DEF HalvedAs
        <4> QED BY <4>1, <4>2
      <3>e. Split(h) = k
        BY <3>3 DEF HalvedAs
      <3>g. Split(i) = 2 * k
        BY <3>3 DEF HalvedAs
      <3>f. (2 * k + 1) \div 2 = k /\ ((i - 2 * k) + 1) \div 2 = h - k
        BY <3>3 DEF HalvedAs
      <3>b. Paired(s, 2 * k, j) /\ Paired(s, i - 2 * k, j + k)
        BY <3>3 DEF HalvedAs
      <3>c. Mth(s, 2 * j, 2 * j + 2 * k) = Mth(t, j, j + k) /\ Mth(s, 2 * j + 2 * k, 2 * j + i) = Mth(t, j + k, j + h)
        BY <3>3 DEF HalvedAs, t
      <3>d. 2 * (j + k) = 2 * j + 2 * k
        OBVIOUS
      <3>4. CASE m < 2 * j + 2 * k
        <4>1. f < j + k
          BY <1>b, <3>4, <3>a
        <4>2. Rising(s, m, p[2 * k][2 * j], r[k][j])
          <5>1. m \in 2 * j..2 * j + 2 * k - 1
            BY <3>4, <3>a
          <5> QED BY <1>1, <3>a, <3>b, <3>f, <5>1
        <4>3. PathEntry(s, m, i, p, 2 * j) = Append(p[2 * k][2 * j], Mth(s, 2 * j + 2 * k, 2 * j + i))
          BY <2>7, <3>g, <3>4 DEF PathEntry
        <4>4. PathEntry(t, f, h, r, j) = Append(r[k][j], Mth(t, j + k, j + h))
          BY <3>a, <3>e, <4>1 DEF PathEntry
        <4>5. IsList(r[k][j])
          <5>1. k \in 0..Len(t) /\ j \in 0..Len(t) - k
            BY <2>3, <3>a
          <5> QED BY <1>e, <5>1
        <4>6. Append(Before(Partner(s, m), r[k][j]), Mth(t, j + k, j + h))
              = Before(Partner(s, m), Append(r[k][j], Mth(t, j + k, j + h)))
          BY <4>5, BeforeAppend
        <4> QED BY <2>1, <2>4, <4>2, <4>3, <3>c, <4>4, <4>6 DEF Rising
      <3>5. CASE ~(m < 2 * j + 2 * k)
        <4>1. ~(f < j + k)
          BY <1>b, <3>5, <3>a
        <4>2. Rising(s, m, p[i - 2 * k][2 * j + 2 * k], r[h - k][j + k])
          <5>1. m \in 2 * (j + k)..2 * (j + k) + (i - 2 * k) - 1
            BY <3>5, <3>a
          <5> QED BY <1>1, <3>a, <3>b, <3>d, <3>f, <5>1
        <4>3. PathEntry(s, m, i, p, 2 * j) = Append(p[i - 2 * k][2 * j + 2 * k], Mth(s, 2 * j, 2 * j + 2 * k))
          BY <2>7, <3>g, <3>5 DEF PathEntry
        <4>4. PathEntry(t, f, h, r, j) = Append(r[h - k][j + k], Mth(t, j, j + k))
          BY <3>a, <3>e, <4>1 DEF PathEntry
        <4>5. IsList(r[h - k][j + k])
          <5>1. h - k \in 0..Len(t) /\ j + k \in 0..Len(t) - (h - k)
            BY <2>3, <3>a
          <5> QED BY <1>e, <5>1
        <4>6. Append(Before(Partner(s, m), r[h - k][j + k]), Mth(t, j, j + k))
              = Before(Partner(s, m), Append(r[h - k][j + k], Mth(t, j, j + k)))
          BY <4>5, BeforeAppend
        <4> QED BY <2>1, <2>4, <4>2, <4>3, <3>c, <4>4, <4>6 DEF Rising
      <3> QED BY <3>4, <3>5
    <2> QED BY <2>5, <2>6, <2>7
  <1>2. \A i \in Nat : i \in S
    <2> HIDE DEF S
    <2> QED BY <1>1, FromSmaller
  <1>3. Rising(s, m, p[Len(s)][2 * 0], r[(Len(s) + 1) \div 2][0])
    <2>1. Rises(Len(s))
      BY <1>2
    <2>2. Paired(s, Len(s), 0) /\ 1 <= Len(s) /\ m \in 2 * 0..2 * 0 + Len(s) - 1
      BY DEF Paired
    <2> QED BY <2>1, <2>2
  <1> QED BY <1>a, <1>c, <1>d, <1>3 DEF f, t

-------------------------------------------------------------------------------
(* The verifiers: a climb from a leaf, row by row.                         *)

(* Halving ends.                                                           *)
LEMMA Halved == \A n \in Nat : n \div 2 \in Nat /\ (n # 0 => n \div 2 < n)
  OBVIOUS

(* A loop that halves two numbers while the first is in C ends, so that    *)
(* there is a function which computes it.                                  *)
LEMMA HalvingIs ==
    ASSUME NEW C, 0 \notin C
    PROVE  \E f : f = [fn \in Nat |-> [sn \in Nat |->
                           IF fn \in C THEN f[fn \div 2][sn \div 2] ELSE [fn |-> fn, sn |-> sn]]]
  <1> DEFINE Of(f, fn) == [sn \in Nat |-> IF fn \in C THEN f[fn \div 2][sn \div 2] ELSE [fn |-> fn, sn |-> sn]]
             F(u, f) == f = [fn \in 0..u |-> Of(f, fn)]
             S == {u \in Nat : \E f : F(u, f)}
  <1>a. ASSUME NEW f, NEW g, NEW fn \in Nat, fn \in C => f[fn \div 2] = g[fn \div 2]
        PROVE  Of(f, fn) = Of(g, fn)
    BY <1>a
  <1>b. ASSUME NEW u \in Nat, NEW f, F(u, f), NEW fn \in 0..u PROVE f[fn] = Of(f, fn)
    <2> HIDE DEF Of
    <2> QED BY <1>b
  <1> HIDE DEF Of
  <1>1. 0 \in S
    <2> DEFINE f == [fn \in 0..0 |-> [sn \in Nat |-> [fn |-> fn, sn |-> sn]]]
    <2>1. ASSUME NEW fn \in 0..0 PROVE f[fn] = Of(f, fn)
      <3>1. fn = 0
        BY <2>1
      <3> QED BY <3>1 DEF Of
    <2>2. f = [fn \in 0..0 |-> Of(f, fn)]
      <3>1. f = [fn \in 0..0 |-> f[fn]]
        OBVIOUS
      <3> HIDE DEF f
      <3> QED BY <2>1, <3>1
    <2> QED BY <2>2
  <1>2. ASSUME NEW u \in Nat, u \in S PROVE u + 1 \in S
    <2>1. PICK g : F(u, g)
      BY <1>2
    <2> DEFINE f == [fn \in 0..u + 1 |-> IF fn <= u THEN g[fn] ELSE Of(g, fn)]
    <2>2. f = [fn \in 0..u + 1 |-> f[fn]] /\ f[u + 1] = Of(g, u + 1) /\ \A fn \in 0..u : f[fn] = g[fn]
      OBVIOUS
    <2> HIDE DEF f
    <2>3. ASSUME NEW fn \in 0..u + 1 PROVE f[fn] = Of(f, fn)
      <3>1. f[fn] = Of(g, fn)
        <4>1. CASE fn = u + 1
          BY <2>2, <4>1
        <4>2. CASE fn \in 0..u
          BY <1>b, <2>1, <2>2, <4>2
        <4> QED BY <4>1, <4>2
      <3>2. fn \in C => f[fn \div 2] = g[fn \div 2]
        <4>1. ASSUME fn \in C PROVE fn \div 2 \in 0..u
          <5>1. fn # 0
            BY <4>1
          <5>2. fn \div 2 \in Nat /\ fn \div 2 < fn
            BY <5>1, Halved
          <5> QED BY <5>2
        <4> QED BY <2>2, <4>1
      <3>3. Of(f, fn) = Of(g, fn)
        BY <1>a, <3>2
      <3> QED BY <3>1, <3>3
    <2>4. F(u + 1, f)
      BY <2>2, <2>3
    <2> QED BY <2>4
  <1>3. \A u \in Nat : \E f : F(u, f)
    <2>1. \A u \in Nat : u \in S
      <3> HIDE DEF S
      <3> QED BY <1>1, <1>2, UpFromZero
    <2> QED BY <2>1
  <1>4. ASSUME NEW u \in Nat, NEW v \in Nat, NEW f, NEW g, F(u, f), F(v, g)
        PROVE  \A fn \in Nat : fn <= u /\ fn <= v => f[fn] = g[fn]
    <2> DEFINE T == {fn \in Nat : fn <= u /\ fn <= v => f[fn] = g[fn]}
    <2>1. ASSUME NEW fn \in Nat, \A m \in 0..fn - 1 : m \in T PROVE fn \in T
      <3> SUFFICES ASSUME fn <= u, fn <= v PROVE f[fn] = g[fn]
        OBVIOUS
      <3>1. f[fn] = Of(f, fn) /\ g[fn] = Of(g, fn)
        <4>1. fn \in 0..u /\ fn \in 0..v
          OBVIOUS
        <4> HIDE DEF F
        <4> QED BY <1>b, <1>4, <4>1
      <3>2. fn \in C => f[fn \div 2] = g[fn \div 2]
        <4>1. ASSUME fn \in C PROVE f[fn \div 2] = g[fn \div 2]
          <5>1. fn # 0
            BY <4>1
          <5>2. fn \div 2 \in Nat /\ fn \div 2 < fn
            BY <5>1, Halved
          <5>3. fn \div 2 \in T
            <6> HIDE DEF T
            <6> QED BY <2>1, <5>2
          <5> QED BY <5>2, <5>3
        <4> QED BY <4>1
      <3> QED BY <1>a, <3>1, <3>2
    <2>2. \A fn \in Nat : fn \in T
      <3> HIDE DEF T
      <3> QED BY <2>1, FromSmaller
    <2> QED BY <2>2
  <1> DEFINE G(u) == CHOOSE f : F(u, f)
             f == [fn \in Nat |-> G(fn)[fn]]
  <1>5. \A u \in Nat : F(u, G(u))
    <2> HIDE DEF F
    <2> QED BY <1>3
  <1> HIDE DEF F, G
  <1>6. ASSUME NEW fn \in Nat PROVE f[fn] = Of(f, fn)
    <2>1. f[fn] = Of(G(fn), fn)
      <3>1. fn \in 0..fn
        OBVIOUS
      <3> QED BY <1>5, <1>b, <3>1
    <2>2. fn \in C => f[fn \div 2] = G(fn)[fn \div 2]
      <3>1. ASSUME fn \in C PROVE f[fn \div 2] = G(fn)[fn \div 2]
        <4>1. fn # 0
          BY <3>1
        <4>2. PICK h \in Nat : h = fn \div 2 /\ h < fn
          BY <4>1, Halved
        <4>3. G(h)[h] = G(fn)[h]
          BY <1>4, <1>5, <4>2
        <4> QED BY <4>2, <4>3
      <3> QED BY <3>1
    <2> HIDE DEF f
    <2> QED BY <1>a, <2>1, <2>2
  <1>7. f = [fn \in Nat |-> Of(f, fn)]
    <2>1. f = [fn \in Nat |-> f[fn]]
      OBVIOUS
    <2> HIDE DEF f
    <2> QED BY <1>6, <2>1
  <1> QED BY <1>7 DEF Of

(* The first of the verifiers' loops, one step on.                         *)
LEMMA PastOnesIs ==
    \A fn, sn \in Nat :
        PastOnes[fn][sn] = IF fn % 2 = 1 THEN PastOnes[fn \div 2][sn \div 2] ELSE [fn |-> fn, sn |-> sn]
  <1> DEFINE C == {fn \in Nat : fn % 2 = 1}
             Is(f) == f = [fn \in Nat |-> [sn \in Nat |->
                              IF fn % 2 = 1 THEN f[fn \div 2][sn \div 2] ELSE [fn |-> fn, sn |-> sn]]]
  <1>1. \E f : Is(f)
    <2>1. 0 \notin C
      OBVIOUS
    <2>2. PICK f : f = [fn \in Nat |-> [sn \in Nat |->
                           IF fn \in C THEN f[fn \div 2][sn \div 2] ELSE [fn |-> fn, sn |-> sn]]]
      <3> HIDE DEF C
      <3> QED BY <2>1, HalvingIs
    <2>3. \A fn \in Nat : fn \in C <=> fn % 2 = 1
      OBVIOUS
    <2> HIDE DEF C
    <2> QED BY <2>2, <2>3
  <1>2. PastOnes = CHOOSE f : Is(f)
    BY Zenon DEF PastOnes
  <1>3. Is(PastOnes)
    <2> HIDE DEF Is
    <2> QED BY <1>1, <1>2
  <1> SUFFICES ASSUME NEW fn \in Nat, NEW sn \in Nat
               PROVE  PastOnes[fn][sn] = IF fn % 2 = 1 THEN PastOnes[fn \div 2][sn \div 2]
                                         ELSE [fn |-> fn, sn |-> sn]
    OBVIOUS
  <1>4. PastOnes[fn] = [n \in Nat |-> IF fn % 2 = 1 THEN PastOnes[fn \div 2][n \div 2]
                                     ELSE [fn |-> fn, sn |-> n]]
    BY <1>3
  <1> QED BY <1>4

(* The second, one step on.                                                *)
LEMMA PastZerosIs ==
    \A fn, sn \in Nat :
        PastZeros[fn][sn] = IF fn # 0 /\ fn % 2 = 0 THEN PastZeros[fn \div 2][sn \div 2] ELSE [fn |-> fn, sn |-> sn]
  <1> DEFINE C == {fn \in Nat : fn # 0 /\ fn % 2 = 0}
             Is(f) == f = [fn \in Nat |-> [sn \in Nat |->
                              IF fn # 0 /\ fn % 2 = 0 THEN f[fn \div 2][sn \div 2] ELSE [fn |-> fn, sn |-> sn]]]
  <1>1. \E f : Is(f)
    <2>1. 0 \notin C
      OBVIOUS
    <2>2. PICK f : f = [fn \in Nat |-> [sn \in Nat |->
                           IF fn \in C THEN f[fn \div 2][sn \div 2] ELSE [fn |-> fn, sn |-> sn]]]
      <3> HIDE DEF C
      <3> QED BY <2>1, HalvingIs
    <2>3. \A fn \in Nat : fn \in C <=> fn # 0 /\ fn % 2 = 0
      OBVIOUS
    <2> HIDE DEF C
    <2> QED BY <2>2, <2>3
  <1>2. PastZeros = CHOOSE f : Is(f)
    BY Zenon DEF PastZeros
  <1>3. Is(PastZeros)
    <2> HIDE DEF Is
    <2> QED BY <1>1, <1>2
  <1> SUFFICES ASSUME NEW fn \in Nat, NEW sn \in Nat
               PROVE  PastZeros[fn][sn] = IF fn # 0 /\ fn % 2 = 0 THEN PastZeros[fn \div 2][sn \div 2]
                                          ELSE [fn |-> fn, sn |-> sn]
    OBVIOUS
  <1>4. PastZeros[fn] = [n \in Nat |-> IF fn # 0 /\ fn % 2 = 0 THEN PastZeros[fn \div 2][n \div 2]
                                      ELSE [fn |-> fn, sn |-> n]]
    BY <1>3
  <1> QED BY <1>4

(* c holds where a climb is after each of the first u hashes of a proof.   *)
ClimbedTo(w, proof, u, c) == c = [i \in 0..u |-> IF i = 0 THEN w ELSE Climb(c[i - 1], proof[i])]

(* The verifiers' loop over a proof: such a function there is, and Climbed *)
(* is its last value.                                                      *)
LEMMA ClimbedIs ==
    ASSUME NEW w, NEW proof, Len(proof) \in Nat
    PROVE  \E c : ClimbedTo(w, proof, Len(proof), c) /\ Climbed(w, proof) = c[Len(proof)]
  <1> DEFINE S == {u \in Nat : \E c : ClimbedTo(w, proof, u, c)}
  <1>1. 0 \in S
    <2> DEFINE c == [i \in 0..0 |-> w]
    <2>1. ClimbedTo(w, proof, 0, c)
      BY DEF ClimbedTo
    <2> QED BY <2>1
  <1>2. ASSUME NEW u \in Nat, u \in S PROVE u + 1 \in S
    <2>1. PICK c : ClimbedTo(w, proof, u, c)
      BY <1>2
    <2> DEFINE d == [i \in 0..u + 1 |-> IF i <= u THEN c[i] ELSE Climb(c[u], proof[u + 1])]
    <2>2. d = [i \in 0..u + 1 |-> d[i]] /\ (\A i \in 0..u : d[i] = c[i]) /\ d[u + 1] = Climb(c[u], proof[u + 1])
      OBVIOUS
    <2> HIDE DEF d
    <2>3. ASSUME NEW i \in 0..u + 1 PROVE d[i] = IF i = 0 THEN w ELSE Climb(d[i - 1], proof[i])
      <3>1. CASE i = u + 1
        <4>1. i - 1 = u /\ i # 0 /\ d[u] = c[u]
          BY <2>2, <3>1
        <4> QED BY <2>2, <3>1, <4>1
      <3>2. CASE i \in 0..u
        <4>1. c[i] = IF i = 0 THEN w ELSE Climb(c[i - 1], proof[i])
          BY <2>1, <3>2 DEF ClimbedTo
        <4>2. i # 0 => i - 1 \in 0..u
          BY <3>2
        <4> QED BY <2>2, <3>2, <4>1, <4>2
      <3> QED BY <3>1, <3>2
    <2>4. ClimbedTo(w, proof, u + 1, d)
      BY <2>2, <2>3 DEF ClimbedTo
    <2> QED BY <2>4
  <1>3. \E c : ClimbedTo(w, proof, Len(proof), c)
    <2>1. Len(proof) \in S
      <3> HIDE DEF S
      <3> QED BY <1>1, <1>2, UpFromZero
    <2> QED BY <2>1
  <1>4. Climbed(w, proof) = (CHOOSE c : ClimbedTo(w, proof, Len(proof), c))[Len(proof)]
    BY Zenon DEF Climbed, ClimbedTo
  <1> QED BY <1>3, <1>4

(* A climb without a hash stays where it is.                               *)
LEMMA ClimbedNot ==
    ASSUME NEW w
    PROVE  Climbed(w, <<>>) = w
  <1>1. Len(<<>>) = 0
    OBVIOUS
  <1>2. PICK c : ClimbedTo(w, <<>>, Len(<<>>), c) /\ Climbed(w, <<>>) = c[Len(<<>>)]
    BY <1>1, ClimbedIs
  <1> QED BY <1>1, <1>2 DEF ClimbedTo

(* A climb is of the first hash, and then of the rest.                     *)
LEMMA ClimbedOn ==
    ASSUME NEW w, NEW x, NEW q, IsList(q)
    PROVE  Climbed(w, Before(x, q)) = Climbed(Climb(w, x), q)
  <1> DEFINE b == Before(x, q)
             n == Len(q)
  <1>1. /\ n \in Nat /\ Len(b) = n + 1 /\ Len(b) \in Nat /\ b[1] = x /\ \A i \in 1..n : b[i + 1] = q[i]
    BY BeforeIs, ListIs
  <1> HIDE DEF b
  <1>2. PICK c : ClimbedTo(w, b, Len(b), c) /\ Climbed(w, b) = c[Len(b)]
    BY <1>1, ClimbedIs
  <1>3. PICK d : ClimbedTo(Climb(w, x), q, n, d) /\ Climbed(Climb(w, x), q) = d[n]
    BY <1>1, ClimbedIs
  <1> HIDE DEF n
  <1>4. \A i \in 0..n + 1 : c[i] = IF i = 0 THEN w ELSE Climb(c[i - 1], b[i])
    BY <1>1, <1>2 DEF ClimbedTo
  <1>5. \A i \in 0..n : d[i] = IF i = 0 THEN Climb(w, x) ELSE Climb(d[i - 1], q[i])
    BY <1>3 DEF ClimbedTo
  <1> DEFINE S == {i \in Nat : i <= n => d[i] = c[i + 1]}
  <1>6. 0 \in S
    <2>1. 0 \in 0..n /\ 0 \in 0..n + 1 /\ 1 \in 0..n + 1
      BY <1>1
    <2>2. d[0] = Climb(w, x) /\ c[1] = Climb(c[0], b[1]) /\ c[0] = w
      BY <1>4, <1>5, <2>1
    <2> QED BY <1>1, <2>2
  <1>7. ASSUME NEW i \in Nat, i \in S PROVE i + 1 \in S
    <2> SUFFICES ASSUME i + 1 <= n PROVE d[i + 1] = c[(i + 1) + 1]
      OBVIOUS
    <2>1. i + 1 \in 0..n /\ (i + 1) + 1 \in 0..n + 1 /\ (i + 1) - 1 = i /\ ((i + 1) + 1) - 1 = i + 1 /\ i + 1 \in 1..n
          /\ i + 1 # 0 /\ (i + 1) + 1 # 0
      BY <1>1
    <2>2. d[i] = c[i + 1]
      <3>1. i <= n
        BY <1>1, <2>1
      <3> QED BY <1>7, <3>1
    <2>3. d[i + 1] = Climb(d[i], q[i + 1])
      BY <1>5, <2>1
    <2>4. c[(i + 1) + 1] = Climb(c[i + 1], b[(i + 1) + 1])
      BY <1>4, <2>1
    <2> QED BY <1>1, <2>1, <2>2, <2>3, <2>4
  <1>8. n \in S
    <2> HIDE DEF S
    <2> QED BY <1>1, <1>6, <1>7, UpFromZero
  <1> QED BY <1>1, <1>2, <1>3, <1>8 DEF b, n

(* BeforeIs, of all values at once.                                        *)
LEMMA BeforeTold ==
    \A q, x : IsList(q) =>
        /\ IsList(Before(x, q)) /\ Len(Before(x, q)) = Len(q) + 1 /\ Before(x, q)[1] = x
        /\ \A i \in 1..Len(q) : Before(x, q)[i + 1] = q[i]
  BY BeforeIs

(* A sequence that is not empty is its first entry before the rest.        *)
LEMMA FirstOf ==
    ASSUME NEW q, IsList(q), q # <<>>
    PROVE  q = Before(Head(q), Tail(q)) /\ IsList(Tail(q)) /\ Len(q) = Len(Tail(q)) + 1
  <1>1. PICK X : q \in Seq(X)
    BY DEF IsList
  <1>2. Tail(q) \in Seq(X) /\ Len(Tail(q)) = Len(q) - 1 /\ Len(q) \in Nat /\ Len(q) # 0 /\ Head(q) = q[1]
        /\ \A i \in 1..Len(Tail(q)) : Tail(q)[i] = q[i + 1]
    BY <1>1, HeadTailProperties, EmptySeq, LenProperties
  <1>3. IsList(Tail(q))
    BY <1>2 DEF IsList
  <1>4. /\ IsList(Before(Head(q), Tail(q))) /\ Len(Before(Head(q), Tail(q))) = Len(q)
        /\ Before(Head(q), Tail(q))[1] = q[1]
        /\ \A i \in 1..Len(Tail(q)) : Before(Head(q), Tail(q))[i + 1] = q[i + 1]
    <2>1. /\ IsList(Before(Head(q), Tail(q))) /\ Len(Before(Head(q), Tail(q))) = Len(Tail(q)) + 1
          /\ Before(Head(q), Tail(q))[1] = Head(q)
          /\ \A i \in 1..Len(Tail(q)) : Before(Head(q), Tail(q))[i + 1] = Tail(q)[i]
      <3>1. PICK t : t = Tail(q) /\ IsList(t)
        BY <1>3
      <3>2. PICK h : h = Head(q)
        OBVIOUS
      <3>3. /\ IsList(Before(h, t)) /\ Len(Before(h, t)) = Len(t) + 1 /\ Before(h, t)[1] = h
            /\ \A i \in 1..Len(t) : Before(h, t)[i + 1] = t[i]
        <4>1. IsList(t)
          BY <3>1
        <4> QED BY <4>1, BeforeTold
      <3> QED BY <3>1, <3>2, <3>3
    <2>2. Len(Tail(q)) + 1 = Len(q)
      BY <1>2
    <2> QED BY <1>2, <2>1, <2>2
  <1> DEFINE b == Before(Head(q), Tail(q))
  <1> HIDE DEF b
  <1>5. ASSUME NEW i \in 1..Len(b) PROVE b[i] = q[i]
    <2>1. CASE i = 1
      BY <1>4, <2>1 DEF b
    <2>2. CASE i # 1
      <3>1. i - 1 \in 1..Len(Tail(q)) /\ (i - 1) + 1 = i
        BY <1>2, <1>4, <2>2 DEF b
      <3> QED BY <1>4, <3>1 DEF b
    <2> QED BY <2>1, <2>2
  <1>6. b = q
    BY <1>4, <1>5, SameList DEF b
  <1> QED BY <1>2, <1>3, <1>6 DEF b

(* Two sequences are one exactly when their first entries and their rests  *)
(* are.                                                                    *)
LEMMA SameBefore ==
    ASSUME NEW q, IsList(q), NEW r, IsList(r), NEW x, NEW y
    PROVE  Before(x, q) # <<>> /\ (Before(x, q) = Before(y, r) <=> x = y /\ q = r)
  <1>1. /\ Len(Before(x, q)) = Len(q) + 1 /\ Before(x, q)[1] = x /\ Len(q) \in Nat
        /\ \A i \in 1..Len(q) : Before(x, q)[i + 1] = q[i]
    BY BeforeIs, ListIs
  <1>2. /\ Len(Before(y, r)) = Len(r) + 1 /\ Before(y, r)[1] = y /\ Len(r) \in Nat
        /\ \A i \in 1..Len(r) : Before(y, r)[i + 1] = r[i]
    BY BeforeIs, ListIs
  <1>3. Before(x, q) # <<>>
    <2>1. Len(Before(x, q)) # 0
      BY <1>1
    <2> QED BY <2>1
  <1>4. ASSUME Before(x, q) = Before(y, r) PROVE x = y /\ q = r
    <2>1. x = y /\ Len(q) = Len(r)
      BY <1>1, <1>2, <1>4
    <2>2. \A i \in 1..Len(q) : q[i] = r[i]
      BY <1>1, <1>2, <1>4, <2>1
    <2> QED BY <2>1, <2>2, SameList
  <1> QED BY <1>3, <1>4

(* A climb under way: at leaf fn of a row whose last place is sn.          *)
At(fn, sn, old, new) == [fn |-> fn, sn |-> sn, old |-> old, new |-> new, ok |-> TRUE]

(* The hashes are told apart: leaf and node hashes have different prefixes *)
(* (leafHash, nodeHash).                                                   *)
LEMMA HashesDiffer ==
    /\ \A x : Empty # LeafHash(x)
    /\ \A l, r : Empty # NodeHash(l, r)
    /\ \A x, l, r : LeafHash(x) # NodeHash(l, r)
    /\ \A l, r, m, q : NodeHash(l, r) = NodeHash(m, q) => l = m /\ r = q
    /\ \A x, y : LeafHash(x) = LeafHash(y) => x = y
  <1>1. /\ Empty[1] = "empty"
        /\ \A x : LeafHash(x)[1] = "leaf" /\ LeafHash(x)[2] = x
        /\ \A l, r : NodeHash(l, r)[1] = "node" /\ NodeHash(l, r)[2] = l /\ NodeHash(l, r)[3] = r
    BY DEF LeafHash, NodeHash, Empty
  <1> QED BY <1>1

(* One hash, in the row s: nothing is hashed while the climb is at a lone  *)
(* leaf.                                                                   *)
LEMMA ClimbIs ==
    ASSUME NEW fn \in Nat, NEW sn \in Nat, fn <= sn, sn # 0, NEW old, NEW new, NEW c
    PROVE  Climb(At(fn, sn, old, new), c) =
             IF fn = sn /\ fn % 2 = 0 THEN Climb(At(fn \div 2, sn \div 2, old, new), c)
             ELSE IF fn % 2 = 1 THEN At(fn \div 2, sn \div 2, NodeHash(c, old), NodeHash(c, new))
             ELSE At(fn \div 2, sn \div 2, old, NodeHash(new, c))
  <1> DEFINE w == At(fn, sn, old, new)
             f == fn \div 2
             v == At(f, sn \div 2, old, new)
  <1>a. w.fn = fn /\ w.sn = sn /\ w.old = old /\ w.new = new
    BY DEF At
  <1>b. v.fn = f /\ v.sn = sn \div 2 /\ v.old = old /\ v.new = new
    BY DEF At
  <1>c. \A at, o, n : Up(at, o, n) = At(at.fn \div 2, at.sn \div 2, o, n)
    BY DEF Up, At
  <1> HIDE DEF w, v
  <1>1. CASE fn = sn /\ fn % 2 = 0
    <2>1. f \in Nat /\ f # 0 /\ sn \div 2 = f /\ sn \div 2 # 0
      BY <1>1
    <2>2. PastZeros[fn][sn] = PastZeros[f][sn \div 2]
      BY <1>1, PastZerosIs
    <2>3. Climb(w, c) = Up(PastZeros[fn][sn], NodeHash(c, old), NodeHash(c, new))
      <3>1. w.sn # 0 /\ w.fn = w.sn
        BY <1>1, <1>a
      <3>2. Climb(w, c) = Up(PastZeros[w.fn][w.sn], NodeHash(c, w.old), NodeHash(c, w.new))
        BY <3>1 DEF Climb
      <3> QED BY <1>a, <3>2
    <2>4. Climb(v, c) = Up(PastZeros[f][sn \div 2], NodeHash(c, old), NodeHash(c, new))
      <3>1. v.sn # 0 /\ v.fn = v.sn
        BY <1>b, <2>1
      <3>2. Climb(v, c) = Up(PastZeros[v.fn][v.sn], NodeHash(c, v.old), NodeHash(c, v.new))
        BY <3>1 DEF Climb
      <3> QED BY <1>b, <3>2
    <2> QED BY <1>1, <2>2, <2>3, <2>4 DEF w, v
  <1>2. CASE fn % 2 = 1
    <2>1. PastZeros[fn][sn] = [fn |-> fn, sn |-> sn]
      BY <1>2, PastZerosIs
    <2>2. Climb(w, c) = Up(PastZeros[fn][sn], NodeHash(c, old), NodeHash(c, new))
      <3>1. w.sn # 0 /\ w.fn % 2 = 1
        BY <1>2, <1>a
      <3>2. Climb(w, c) = Up(PastZeros[w.fn][w.sn], NodeHash(c, w.old), NodeHash(c, w.new))
        BY <3>1 DEF Climb
      <3> QED BY <1>a, <3>2
    <2>3. Up(PastZeros[fn][sn], NodeHash(c, old), NodeHash(c, new)) = At(f, sn \div 2, NodeHash(c, old), NodeHash(c, new))
      BY <1>c, <2>1
    <2> QED BY <1>2, <2>2, <2>3 DEF w
  <1>3. CASE fn % 2 # 1 /\ ~(fn = sn /\ fn % 2 = 0)
    <2>1. fn # sn
      BY <1>3
    <2>2. Climb(w, c) = Up(w, old, NodeHash(new, c))
      <3>1. w.sn # 0 /\ ~(w.fn % 2 = 1 \/ w.fn = w.sn)
        BY <1>3, <1>a, <2>1
      <3>2. Climb(w, c) = Up(w, w.old, NodeHash(w.new, c))
        BY Zenon, <3>1 DEF Climb
      <3> QED BY <1>a, <3>2
    <2>3. Up(w, old, NodeHash(new, c)) = At(f, sn \div 2, old, NodeHash(new, c))
      BY <1>a, <1>c
    <2> QED BY <1>3, <2>2, <2>3 DEF w
  <1> QED BY <1>1, <1>2, <1>3

(* A climb that has come to the top and goes on is lost.                   *)
LEMMA PastTheTop ==
    ASSUME NEW fn, NEW old, NEW new, NEW q, IsList(q), q # <<>>
    PROVE  ~Climbed(At(fn, 0, old, new), q).ok
  <1> DEFINE w == At(fn, 0, old, new)
             v == [w EXCEPT !.ok = FALSE]
  <1>1. \A c : Climb(w, c) = v
    BY DEF Climb, At
  <1>2. \A c : Climb(v, c) = v
    <2>1. v.sn = 0 /\ [v EXCEPT !.ok = FALSE] = v
      BY DEF At
    <2> HIDE DEF v
    <2> QED BY <2>1 DEF Climb
  <1>3. v.ok = FALSE
    BY DEF At
  <1> HIDE DEF w, v
  <1> DEFINE S == {n \in Nat : \A r : IsList(r) /\ Len(r) = n => Climbed(v, r) = v}
  <1>4. 0 \in S
    <2> SUFFICES ASSUME NEW r, IsList(r), Len(r) = 0 PROVE Climbed(v, r) = v
      OBVIOUS
    <2>1. r = <<>>
      BY EmptySeq DEF IsList
    <2> QED BY <2>1, ClimbedNot
  <1>5. ASSUME NEW n \in Nat, n \in S PROVE n + 1 \in S
    <2> SUFFICES ASSUME NEW r, IsList(r), Len(r) = n + 1 PROVE Climbed(v, r) = v
      OBVIOUS
    <2>1. r # <<>>
      <3>1. Len(r) # 0
        OBVIOUS
      <3> QED BY <3>1
    <2>2. r = Before(Head(r), Tail(r)) /\ IsList(Tail(r)) /\ Len(r) = Len(Tail(r)) + 1
      BY <2>1, FirstOf
    <2>3. Len(Tail(r)) = n
      BY <2>2, ListIs
    <2>4. Climbed(v, Before(Head(r), Tail(r))) = Climbed(Climb(v, Head(r)), Tail(r))
      BY <2>2, ClimbedOn
    <2> QED BY <1>2, <1>5, <2>2, <2>3, <2>4
  <1>6. \A n \in Nat : n \in S
    <2> HIDE DEF S
    <2> QED BY <1>4, <1>5, UpFromZero
  <1>7. q = Before(Head(q), Tail(q)) /\ IsList(Tail(q)) /\ Len(Tail(q)) \in Nat
    BY FirstOf, ListIs
  <1>8. Climbed(w, Before(Head(q), Tail(q))) = Climbed(v, Tail(q))
    BY <1>1, <1>7, ClimbedOn
  <1>9. Climbed(v, Tail(q)) = v
    BY <1>6, <1>7
  <1> QED BY <1>3, <1>7, <1>8, <1>9 DEF w

(* The root of one leaf is its hash.                                       *)
LEMMA RootOfOne ==
    ASSUME NEW s, Len(s) = 1
    PROVE  Root(s) = s[1]
  <1>1. 1 \in 0..Len(s) /\ 0 \in 0..Len(s) - 1 /\ Len(s) \in Nat
    OBVIOUS
  <1>2. Hashed(s)[1][0] = Entry(s, 1, Hashed(s), 0)
    BY <1>1, SubtreeIs
  <1>3. Entry(s, 1, Hashed(s), 0) = s[1]
    BY DEF Entry
  <1> QED BY <1>2, <1>3 DEF Root, Mth

(* Places in a row and in the row above it.                                *)
LEMMA HalfOfRow ==
    \A n, m \in Nat : m < n /\ n # 1 =>
        /\ (n + 1) \div 2 \in 1..n - 1 /\ ((n + 1) \div 2) - 1 = (n - 1) \div 2 /\ m \div 2 \in 0..((n + 1) \div 2) - 1
  OBVIOUS

(* A leaf and its partner, hashed together in the row above.               *)
Joined(s, fn) == IF fn % 2 = 1 THEN NodeHash(s[fn], s[fn + 1]) ELSE NodeHash(s[fn + 1], s[fn + 2])

(* What stands above a leaf.                                               *)
LEMMA AboveAt ==
    ASSUME NEW s, Len(s) \in Nat, NEW fn \in 0..Len(s) - 1
    PROVE  Above(s)[fn \div 2 + 1] = IF Lone(s, fn) THEN s[fn + 1] ELSE Joined(s, fn)
  <1> DEFINE i == fn \div 2 + 1
  <1>1. i \in 1..(Len(s) + 1) \div 2
    OBVIOUS
  <1>2. Above(s)[i] = IF 2 * i <= Len(s) THEN NodeHash(s[2 * i - 1], s[2 * i]) ELSE s[2 * i - 1]
    BY <1>1, AboveIs
  <1>3. CASE fn % 2 = 1
    <2>1. 2 * i <= Len(s) /\ 2 * i - 1 = fn /\ 2 * i = fn + 1
      BY <1>3
    <2> QED BY <1>2, <1>3, <2>1 DEF Lone, Joined
  <1>4. CASE fn % 2 = 0 /\ fn + 1 # Len(s)
    <2>1. 2 * i <= Len(s) /\ 2 * i - 1 = fn + 1 /\ 2 * i = fn + 2 /\ fn % 2 # 1
      BY <1>4
    <2> QED BY <1>2, <1>4, <2>1 DEF Lone, Joined
  <1>5. CASE fn % 2 = 0 /\ fn + 1 = Len(s)
    <2>1. ~(2 * i <= Len(s)) /\ 2 * i - 1 = fn + 1
      BY <1>5
    <2> QED BY <1>2, <1>5, <2>1 DEF Lone
  <1> QED BY <1>3, <1>4, <1>5

(* A climb that ends at the root of s.                                     *)
Tops(s, w) == w.ok /\ w.sn = 0 /\ w.new = Root(s)

(* A climb that stands at leaf fn of the row s.                            *)
Standing(s, fn, old, new) == At(fn, Len(s) - 1, old, new)

(* One hash of a proof, seen from the row above.                           *)
LEMMA ClimbRises ==
    ASSUME NEW s, Len(s) \in Nat, Len(s) > 1, NEW fn \in 0..Len(s) - 1, NEW old, NEW new, NEW c
    PROVE  Climb(Standing(s, fn, old, new), c) =
             IF Lone(s, fn) THEN Climb(Standing(Above(s), fn \div 2, old, new), c)
             ELSE IF fn % 2 = 1 THEN Standing(Above(s), fn \div 2, NodeHash(c, old), NodeHash(c, new))
             ELSE Standing(Above(s), fn \div 2, old, NodeHash(new, c))
  <1> DEFINE sn == Len(s) - 1
  <1>1. sn \in Nat /\ fn \in Nat /\ fn <= sn /\ sn # 0
    <2>1. PICK n \in Nat : n = Len(s) /\ n > 1
      OBVIOUS
    <2>2. fn \in 0..n - 1 /\ n - 1 \in Nat
      BY <2>1
    <2>3. fn \in Nat /\ fn <= n - 1 /\ n - 1 # 0
      BY <2>1, <2>2
    <2> QED BY <2>1, <2>2, <2>3
  <1>2. sn \div 2 = Len(Above(s)) - 1
    BY HalfOfRow, AboveIs
  <1>3. Lone(s, fn) <=> fn = sn /\ fn % 2 = 0
    BY DEF Lone
  <1> HIDE DEF sn
  <1>4. Climb(At(fn, sn, old, new), c) =
             IF fn = sn /\ fn % 2 = 0 THEN Climb(At(fn \div 2, sn \div 2, old, new), c)
             ELSE IF fn % 2 = 1 THEN At(fn \div 2, sn \div 2, NodeHash(c, old), NodeHash(c, new))
             ELSE At(fn \div 2, sn \div 2, old, NodeHash(new, c))
    BY <1>1, ClimbIs
  <1> QED BY <1>2, <1>3, <1>4 DEF sn, Standing

(* A climb from a leaf comes to the root exactly when it began with that   *)
(* leaf's hash and the proof is that leaf's path, whatever the proof was.  *)
(* By induction on the row: the row above has half as many leaves.         *)
LEMMA OnlyThePath ==
    ASSUME NEW s, Len(s) \in Nat, NEW fn \in 0..Len(s) - 1, NEW old, NEW new, NEW proof, IsList(proof)
    PROVE  Tops(s, Climbed(Standing(s, fn, old, new), proof)) <=> new = s[fn + 1] /\ proof = Path(s, fn)
  <1> DEFINE Only(r, f, o, h, q) ==
                 Tops(r, Climbed(Standing(r, f, o, h), q)) <=> h = r[f + 1] /\ q = Path(r, f)
             S == {n \in Nat : \A r : Len(r) = n =>
                       \A f \in 0..n - 1 : \A o, h, q : IsList(q) => Only(r, f, o, h, q)}
  <1>1. ASSUME NEW n \in Nat, \A m \in 0..n - 1 : m \in S PROVE n \in S
    <2> SUFFICES ASSUME NEW r, Len(r) = n, NEW f \in 0..n - 1, NEW o, NEW h, NEW q, IsList(q)
                 PROVE  Only(r, f, o, h, q)
      OBVIOUS
    <2> DEFINE w == Standing(r, f, o, h)
    <2>1. CASE n = 1
      <3>1. f = 0 /\ n - 1 = 0 /\ Root(r) = r[1] /\ Path(r, f) = <<>>
        <4>1. f = 0 /\ n - 1 = 0
          BY <2>1
        <4>2. Root(r) = r[1]
          BY <2>1, RootOfOne
        <4>3. Path(r, f) = <<>>
          <5>1. Len(r) \in Nat /\ Len(r) <= 1
            BY <2>1
          <5> QED BY <5>1, PathIsList
        <4> QED BY <4>1, <4>2, <4>3
      <3>2. CASE q = <<>>
        <4>1. Climbed(w, q) = w
          BY <3>2, ClimbedNot
        <4>2. w.ok /\ w.sn = 0 /\ w.new = h
          BY <3>1 DEF Standing, At
        <4> QED BY <3>1, <3>2, <4>1, <4>2 DEF Tops
      <3>3. CASE q # <<>>
        <4>1. ~Climbed(At(0, 0, o, h), q).ok
          BY <3>3, PastTheTop
        <4>2. w = At(0, 0, o, h)
          BY <3>1, <2>1 DEF Standing
        <4> HIDE DEF w
        <4>3. ~Tops(r, Climbed(w, q)) /\ q # Path(r, f)
          BY <3>1, <3>3, <4>1, <4>2 DEF Tops
        <4> QED BY <4>3 DEF w
      <3> QED BY <3>2, <3>3
    <2>2. CASE n > 1
      <3> DEFINE t == Above(r)
                 k == f \div 2
      <3>1. Len(t) \in 0..n - 1 /\ Len(t) \in Nat /\ k \in 0..Len(t) - 1
        BY <2>2, HalfOfRow, AboveIs
      <3>2. \A g, o1, h1, q1 : g \in 0..Len(t) - 1 /\ IsList(q1) =>
                (Tops(t, Climbed(Standing(t, g, o1, h1), q1)) <=> h1 = t[g + 1] /\ q1 = Path(t, g))
        <4>1. Len(t) \in S
          BY <1>1, <3>1
        <4> QED BY <4>1
      <3>3. Root(r) = Root(t)
        BY <2>2, RootAbove
      <3>4. t[k + 1] = IF Lone(r, f) THEN r[f + 1] ELSE Joined(r, f)
        BY <2>2, AboveAt
      <3>5. Rising(r, f, Path(r, f), Path(t, k))
        BY <2>2, PathAbove
      <3>6. IsList(Path(t, k))
        BY <3>1, PathIsList
      <3>7. \A c : Climb(w, c) = IF Lone(r, f) THEN Climb(Standing(t, k, o, h), c)
                                 ELSE IF f % 2 = 1 THEN Standing(t, k, NodeHash(c, o), NodeHash(c, h))
                                 ELSE Standing(t, k, o, NodeHash(h, c))
        BY <2>2, ClimbRises
      <3>8. \A x : Tops(r, x) <=> Tops(t, x)
        BY <3>3 DEF Tops
      <3>9. w.sn = n - 1 /\ n - 1 # 0
        BY <2>2 DEF Standing, At
      <3> HIDE DEF t, k, w
      <3>10. CASE Lone(r, f)
        <4> DEFINE v == Standing(t, k, o, h)
        <4>1. Path(r, f) = Path(t, k) /\ t[k + 1] = r[f + 1]
          BY <3>4, <3>5, <3>10 DEF Rising
        <4>2. Tops(t, Climbed(w, q)) <=> Tops(t, Climbed(v, q))
          <5>1. CASE q = <<>>
            <6>1. Climbed(w, q) = w /\ Climbed(v, q) = v
              BY <5>1, ClimbedNot
            <6>2. v.sn = Len(t) - 1
              BY DEF Standing, At
            <6>3. Len(t) - 1 # 0
              <7>1. Len(t) = (n + 1) \div 2
                BY AboveIs DEF t
              <7>2. f % 2 = 0 /\ f = n - 1
                BY <3>10 DEF Lone
              <7> QED BY <2>2, <7>1, <7>2
            <6> HIDE DEF v
            <6> QED BY <3>9, <6>1, <6>2, <6>3 DEF Tops
          <5>2. CASE q # <<>>
            <6>1. q = Before(Head(q), Tail(q)) /\ IsList(Tail(q))
              BY <5>2, FirstOf
            <6> HIDE DEF v
            <6>2. Climbed(w, Before(Head(q), Tail(q))) = Climbed(Climb(w, Head(q)), Tail(q))
              BY <6>1, ClimbedOn
            <6>3. Climbed(v, Before(Head(q), Tail(q))) = Climbed(Climb(v, Head(q)), Tail(q))
              BY <6>1, ClimbedOn
            <6>4. Climb(w, Head(q)) = Climb(v, Head(q))
              BY <3>7, <3>10 DEF v
            <6> QED BY <6>1, <6>2, <6>3, <6>4
          <5> QED BY <5>1, <5>2
        <4>3. Tops(t, Climbed(v, q)) <=> h = t[k + 1] /\ q = Path(t, k)
          BY <3>1, <3>2
        <4> QED BY <3>8, <4>1, <4>2, <4>3 DEF w
      <3>11. CASE ~Lone(r, f)
        <4>1. Path(r, f) = Before(Partner(r, f), Path(t, k)) /\ t[k + 1] = Joined(r, f)
          BY <3>4, <3>5, <3>11 DEF Rising
        <4>2. CASE q = <<>>
          <5>1. Climbed(w, q) = w
            BY <4>2, ClimbedNot
          <5>2. Path(r, f) # <<>>
            BY <3>6, <4>1, SameBefore
          <5> QED BY <3>9, <4>2, <5>1, <5>2 DEF Tops, w
        <4>3. CASE q # <<>>
          <5>1. PICK c, p : q = Before(c, p) /\ IsList(p)
            BY <4>3, FirstOf
          <5>2. Climbed(w, q) = Climbed(Climb(w, c), p)
            BY <5>1, ClimbedOn
          <5>3. q = Path(r, f) <=> c = Partner(r, f) /\ p = Path(t, k)
            BY <3>6, <4>1, <5>1, SameBefore
          <5>4. CASE f % 2 = 1
            <6>1. Climb(w, c) = Standing(t, k, NodeHash(c, o), NodeHash(c, h))
              BY <3>7, <3>11, <5>4
            <6>2. Tops(t, Climbed(Climb(w, c), p)) <=> NodeHash(c, h) = t[k + 1] /\ p = Path(t, k)
              BY <3>1, <3>2, <5>1, <6>1
            <6>3. t[k + 1] = NodeHash(r[f], r[f + 1]) /\ Partner(r, f) = r[f]
              BY <4>1, <5>4 DEF Joined, Partner
            <6>4. NodeHash(c, h) = NodeHash(r[f], r[f + 1]) <=> c = r[f] /\ h = r[f + 1]
              BY HashesDiffer
            <6> QED BY <3>8, <5>2, <5>3, <6>2, <6>3, <6>4 DEF w
          <5>5. CASE ~(f % 2 = 1)
            <6>1. Climb(w, c) = Standing(t, k, o, NodeHash(h, c))
              BY <3>7, <3>11, <5>5
            <6>2. Tops(t, Climbed(Climb(w, c), p)) <=> NodeHash(h, c) = t[k + 1] /\ p = Path(t, k)
              BY <3>1, <3>2, <5>1, <6>1
            <6>3. t[k + 1] = NodeHash(r[f + 1], r[f + 2]) /\ Partner(r, f) = r[f + 2]
              BY <4>1, <5>5 DEF Joined, Partner
            <6>4. NodeHash(h, c) = NodeHash(r[f + 1], r[f + 2]) <=> h = r[f + 1] /\ c = r[f + 2]
              BY HashesDiffer
            <6> QED BY <3>8, <5>2, <5>3, <6>2, <6>3, <6>4 DEF w
          <5> QED BY <5>4, <5>5
        <4> QED BY <4>2, <4>3
      <3> QED BY <3>10, <3>11
    <2> QED BY <2>1, <2>2
  <1>2. \A n \in Nat : n \in S
    <2> HIDE DEF S
    <2> QED BY <1>1, FromSmaller
  <1>3. \A f \in 0..Len(s) - 1 : \A o, h, q : IsList(q) => Only(s, f, o, h, q)
    <2>1. Len(s) \in S
      BY <1>2
    <2> HIDE DEF Only
    <2> QED BY <2>1
  <1> QED BY <1>3

(* t is how the row s begins, except for its last leaf.                    *)
Older(s, fn, t) == Len(t) = fn + 1 /\ \A i \in 1..fn : t[i] = s[i]

(* It is so of the rows above the two.                                     *)
LEMMA OlderAbove ==
    ASSUME NEW s, Len(s) \in Nat, NEW fn \in 0..Len(s) - 1, NEW t, Older(s, fn, t)
    PROVE  /\ Older(Above(s), fn \div 2, Above(t))
           /\ Above(t)[fn \div 2 + 1] = IF fn % 2 = 0 THEN t[fn + 1] ELSE NodeHash(t[fn], t[fn + 1])
  <1>1. Len(t) = fn + 1 /\ Len(t) \in Nat /\ \A i \in 1..fn : t[i] = s[i]
    BY DEF Older
  <1>2. PICK k \in Nat : k = fn \div 2 /\ (fn = 2 * k \/ fn = 2 * k + 1)
    OBVIOUS
  <1>3. (Len(t) + 1) \div 2 = k + 1
    BY <1>1, <1>2
  <1>4. Len(Above(t)) = k + 1
    BY <1>1, <1>3, AboveIs
  <1>5. ASSUME NEW i \in 1..k PROVE Above(t)[i] = Above(s)[i]
    <2>1. 2 * i - 1 \in 1..fn /\ 2 * i \in 1..fn
      BY <1>2
    <2>2. 2 * i <= Len(t) /\ 2 * i <= Len(s) /\ i \in 1..(Len(t) + 1) \div 2 /\ i \in 1..(Len(s) + 1) \div 2
      BY <1>1, <1>2, <1>3
    <2>3. Above(t)[i] = NodeHash(t[2 * i - 1], t[2 * i])
      BY <1>1, <2>2, AboveIs
    <2>4. Above(s)[i] = NodeHash(s[2 * i - 1], s[2 * i])
      BY <2>2, AboveIs
    <2> QED BY <1>1, <2>1, <2>3, <2>4
  <1>6. Above(t)[fn \div 2 + 1] = IF Lone(t, fn) THEN t[fn + 1] ELSE Joined(t, fn)
    <2>1. fn \in 0..Len(t) - 1
      BY <1>1
    <2> QED BY <1>1, <2>1, AboveAt
  <1>7. Lone(t, fn) <=> fn % 2 = 0
    BY <1>1 DEF Lone
  <1>8. fn % 2 = 0 \/ fn % 2 = 1
    OBVIOUS
  <1>9. Older(Above(s), k, Above(t))
    BY <1>4, <1>5 DEF Older
  <1> QED BY <1>2, <1>6, <1>7, <1>8, <1>9 DEF Joined

(* With the path of a leaf the same climb goes from the last leaf of the   *)
(* older tree to the older root: hashes to the left are in both trees,     *)
(* those to the right in the newer only.                                   *)
LEMMA OldToo ==
    ASSUME NEW s, Len(s) \in Nat, NEW fn \in 0..Len(s) - 1, NEW t, Older(s, fn, t)
    PROVE  Climbed(Standing(s, fn, t[fn + 1], s[fn + 1]), Path(s, fn)).old = Root(t)
  <1> DEFINE Too(r, f, u) == Climbed(Standing(r, f, u[f + 1], r[f + 1]), Path(r, f)).old = Root(u)
             S == {n \in Nat : \A r : Len(r) = n =>
                       \A f \in 0..n - 1 : \A u : Older(r, f, u) => Too(r, f, u)}
  <1>1. ASSUME NEW n \in Nat, \A m \in 0..n - 1 : m \in S PROVE n \in S
    <2> SUFFICES ASSUME NEW r, Len(r) = n, NEW f \in 0..n - 1, NEW u, Older(r, f, u)
                 PROVE  Too(r, f, u)
      OBVIOUS
    <2>a. PICK o : o = u[f + 1]
      OBVIOUS
    <2>b. PICK h : h = r[f + 1]
      OBVIOUS
    <2> DEFINE w == Standing(r, f, o, h)
               q == Path(r, f)
    <2>1. CASE n = 1
      <3>1. f = 0
        BY <2>1
      <3>2. Len(u) = 1
        BY <3>1 DEF Older
      <3>3. Path(r, f) = <<>>
        <4>1. Len(r) \in Nat /\ Len(r) <= 1
          BY <2>1
        <4> QED BY <4>1, PathIsList
      <3>4. Root(u) = u[1]
        BY <3>2, RootOfOne
      <3>5. Climbed(w, <<>>) = w
        BY ClimbedNot
      <3>6. w.old = u[1]
        BY <2>a, <3>1 DEF Standing, At
      <3> HIDE DEF w
      <3> QED BY <2>a, <2>b, <3>3, <3>4, <3>5, <3>6 DEF w
    <2>2. CASE n > 1
      <3> DEFINE t1 == Above(r)
                 k == f \div 2
                 v == Above(u)
      <3>1. Len(t1) \in 0..n - 1 /\ Len(t1) \in Nat /\ k \in 0..Len(t1) - 1
        BY <2>2, HalfOfRow, AboveIs
      <3>2. Older(t1, k, v) /\ v[k + 1] = IF f % 2 = 0 THEN u[f + 1] ELSE NodeHash(u[f], u[f + 1])
        BY <2>2, OlderAbove
      <3>3. Root(u) = Root(v)
        <4>1. Len(u) \in Nat /\ 1 <= Len(u)
          BY DEF Older
        <4> QED BY <4>1, RootAbove
      <3>4. Climbed(Standing(t1, k, v[k + 1], t1[k + 1]), Path(t1, k)).old = Root(v)
        <4>1. Len(t1) \in S
          BY <1>1, <3>1
        <4> QED BY <3>1, <3>2, <4>1
      <3>5. t1[k + 1] = IF Lone(r, f) THEN r[f + 1] ELSE Joined(r, f)
        BY <2>2, AboveAt
      <3>6. Rising(r, f, Path(r, f), Path(t1, k))
        BY <2>2, PathAbove
      <3>7. IsList(Path(t1, k)) /\ IsList(q)
        BY <2>2, <3>1, PathIsList
      <3>8. \A c : Climb(w, c) = IF Lone(r, f) THEN Climb(Standing(t1, k, o, h), c)
                                 ELSE IF f % 2 = 1 THEN Standing(t1, k, NodeHash(c, o), NodeHash(c, h))
                                 ELSE Standing(t1, k, o, NodeHash(h, c))
        <4>1. Len(r) \in Nat /\ Len(r) > 1 /\ f \in 0..Len(r) - 1
          BY <2>2
        <4>2. \A c : Climb(Standing(r, f, o, h), c) =
                        IF Lone(r, f) THEN Climb(Standing(Above(r), f \div 2, o, h), c)
                        ELSE IF f % 2 = 1 THEN Standing(Above(r), f \div 2, NodeHash(c, o), NodeHash(c, h))
                        ELSE Standing(Above(r), f \div 2, o, NodeHash(h, c))
          BY <4>1, ClimbRises
        <4> QED BY <4>2
      <3>9. Tops(r, Climbed(w, q))
        <4>1. Len(r) \in Nat /\ f \in 0..Len(r) - 1
          BY <2>2
        <4> HIDE DEF w, q
        <4>2. Tops(r, Climbed(Standing(r, f, o, h), q)) <=> h = r[f + 1] /\ q = Path(r, f)
          BY <3>7, <4>1, OnlyThePath
        <4> QED BY <2>b, <4>2 DEF w, q
      <3>10. w.sn = n - 1 /\ n - 1 # 0
        BY <2>2 DEF Standing, At
      <3>11. q # <<>>
        <4> HIDE DEF w
        <4>1. ASSUME q = <<>> PROVE FALSE
          BY <3>9, <3>10, <4>1, ClimbedNot DEF Tops
        <4> QED BY <4>1
      <3>12. f % 2 = 0 \/ f % 2 = 1
        OBVIOUS
      <3> HIDE DEF t1, k, w, v, q
      <3>13. PICK c, p : q = Before(c, p) /\ IsList(p)
        BY <3>7, <3>11, FirstOf
      <3>14. Climbed(w, q) = Climbed(Climb(w, c), p)
        BY <3>13, ClimbedOn
      <3>15. Climbed(w, q).old = Root(v)
        <4>1. CASE Lone(r, f)
          <5>1. q = Path(t1, k) /\ t1[k + 1] = h /\ v[k + 1] = o
            BY <2>a, <2>b, <3>2, <3>5, <3>6, <4>1 DEF Rising, Lone, q
          <5> DEFINE x == Standing(t1, k, o, h)
          <5>2. Climb(w, c) = Climb(x, c)
            BY <3>8, <4>1
          <5> HIDE DEF x
          <5>3. Climbed(x, q) = Climbed(Climb(x, c), p)
            BY <3>13, ClimbedOn
          <5> QED BY <3>4, <3>14, <5>1, <5>2, <5>3 DEF x
        <4>2. CASE ~Lone(r, f)
          <5>1. q = Before(Partner(r, f), Path(t1, k)) /\ t1[k + 1] = Joined(r, f)
            BY <3>5, <3>6, <4>2 DEF Rising, q
          <5>2. c = Partner(r, f) /\ p = Path(t1, k)
            <6>1. PICK y : y = Path(t1, k) /\ IsList(y)
              BY <3>7
            <6>2. Before(c, p) = Before(Partner(r, f), y) <=> c = Partner(r, f) /\ p = y
              BY <3>13, <6>1, SameBefore
            <6> QED BY <3>13, <5>1, <6>1, <6>2
          <5>3. CASE f % 2 = 1
            <6>1. Partner(r, f) = r[f] /\ t1[k + 1] = NodeHash(r[f], r[f + 1])
              BY <5>1, <5>3 DEF Partner, Joined
            <6>2. u[f] = r[f]
              <7>1. f \in 1..f
                BY <5>3
              <7> QED BY <7>1 DEF Older
            <6>3. f % 2 # 0
              BY <5>3
            <6>4. Climb(w, c) = Standing(t1, k, NodeHash(c, o), NodeHash(c, h))
              BY <3>8, <4>2, <5>3
            <6>5. v[k + 1] = NodeHash(c, o) /\ t1[k + 1] = NodeHash(c, h)
              BY <2>a, <2>b, <3>2, <5>2, <6>1, <6>2, <6>3
            <6> QED BY <3>4, <3>14, <5>2, <6>4, <6>5
          <5>4. CASE f % 2 = 0
            <6>1. f % 2 # 1
              BY <5>4
            <6>2. Partner(r, f) = r[f + 2] /\ t1[k + 1] = NodeHash(r[f + 1], r[f + 2])
              BY <5>1, <6>1 DEF Partner, Joined
            <6>3. Climb(w, c) = Standing(t1, k, o, NodeHash(h, c))
              BY <3>8, <4>2, <6>1
            <6>4. v[k + 1] = o /\ t1[k + 1] = NodeHash(h, c)
              BY <2>a, <2>b, <3>2, <5>2, <5>4, <6>2
            <6> QED BY <3>4, <3>14, <5>2, <6>3, <6>4
          <5> QED BY <3>12, <5>3, <5>4
        <4> QED BY <4>1, <4>2
      <3> QED BY <2>a, <2>b, <3>3, <3>15 DEF w, q
    <2> QED BY <2>1, <2>2
  <1>2. \A n \in Nat : n \in S
    <2> HIDE DEF S
    <2> QED BY <1>1, FromSmaller
  <1>3. Too(s, fn, t)
    <2>1. Len(s) \in S
      BY <1>2
    <2> HIDE DEF Too
    <2> QED BY <2>1
  <1> QED BY <1>3

-------------------------------------------------------------------------------
(* The page's verifiers climb the same way.                                *)

(* The loop gives two numbers.                                             *)
LEMMA PastZerosTypes ==
    \A fn, sn \in Nat : PastZeros[fn][sn] \in [fn : Nat, sn : Nat]
  <1> DEFINE S == {fn \in Nat : \A sn \in Nat : PastZeros[fn][sn] \in [fn : Nat, sn : Nat]}
  <1>1. ASSUME NEW fn \in Nat, \A m \in 0..fn - 1 : m \in S PROVE fn \in S
    <2> SUFFICES ASSUME NEW sn \in Nat PROVE PastZeros[fn][sn] \in [fn : Nat, sn : Nat]
      OBVIOUS
    <2>1. CASE fn # 0 /\ fn % 2 = 0
      <3>1. fn \div 2 \in 0..fn - 1 /\ sn \div 2 \in Nat
        BY <2>1
      <3>2. fn \div 2 \in S
        BY <1>1, <3>1
      <3>3. PastZeros[fn \div 2][sn \div 2] \in [fn : Nat, sn : Nat]
        BY <3>1, <3>2
      <3> QED BY <2>1, <3>3, PastZerosIs
    <2>2. CASE ~(fn # 0 /\ fn % 2 = 0)
      <3>1. PastZeros[fn][sn] = [fn |-> fn, sn |-> sn]
        BY <2>2, PastZerosIs
      <3> QED BY <3>1
    <2> QED BY <2>1, <2>2
  <1>2. \A fn \in Nat : fn \in S
    <2> HIDE DEF S
    <2> QED BY <1>1, FromSmaller
  <1> QED BY <1>2

(* The states of a climb.                                                  *)
Climber(w) ==
    \E fn, sn \in Nat : \E old, new, ok : w = [fn |-> fn, sn |-> sn, old |-> old, new |-> new, ok |-> ok]

(* One hash: the page's verifier, which looks for the side first, does     *)
(* what the package's does.                                                *)
LEMMA SameClimb ==
    ASSUME NEW w, Climber(w), NEW c
    PROVE  WebClimb(w, c) = Climb(w, c) /\ Climber(Climb(w, c))
  <1>0. PICK fn, sn \in Nat : \E old, new, ok : w = [fn |-> fn, sn |-> sn, old |-> old, new |-> new, ok |-> ok]
    BY DEF Climber
  <1>1. PICK old, new, ok : w = [fn |-> fn, sn |-> sn, old |-> old, new |-> new, ok |-> ok]
    BY <1>0
  <1>a. w.fn = fn /\ w.sn = sn /\ w.old = old /\ w.new = new
    BY <1>1
  <1>b. [w EXCEPT !.ok = FALSE] = [fn |-> fn, sn |-> sn, old |-> old, new |-> new, ok |-> FALSE]
    <2>1. \A o : [[fn |-> fn, sn |-> sn, old |-> old, new |-> new, ok |-> ok] EXCEPT !.ok = o]
                 = [fn |-> fn, sn |-> sn, old |-> old, new |-> new, ok |-> o]
      OBVIOUS
    <2> QED BY <1>1, <2>1, Zenon
  <1>2. /\ w.fn = fn /\ w.sn = sn /\ w.old = old /\ w.new = new
        /\ [w EXCEPT !.ok = FALSE] = [fn |-> fn, sn |-> sn, old |-> old, new |-> new, ok |-> FALSE]
    BY <1>a, <1>b
  <1>3. \A at \in [fn : Nat, sn : Nat] : \A o, h : Climber(Up(at, o, h))
    <2> SUFFICES ASSUME NEW at \in [fn : Nat, sn : Nat], NEW o, NEW h PROVE Climber(Up(at, o, h))
      OBVIOUS
    <2>1. at.fn \div 2 \in Nat /\ at.sn \div 2 \in Nat
      BY Halved
    <2> QED BY <2>1 DEF Climber, Up
  <1>4. CASE sn = 0
    <2>1. Climb(w, c) = [w EXCEPT !.ok = FALSE]
      BY <1>2, <1>4 DEF Climb
    <2>2. WebClimb(w, c) = [w EXCEPT !.ok = FALSE]
      BY <1>2, <1>4 DEF WebClimb
    <2>3. Climber([fn |-> fn, sn |-> sn, old |-> old, new |-> new, ok |-> FALSE])
      BY DEF Climber
    <2> QED BY <1>2, <2>1, <2>2, <2>3
  <1>5. CASE sn # 0 /\ (fn % 2 = 1 \/ fn = sn)
    <2>1. Climb(w, c) = Up(PastZeros[fn][sn], NodeHash(c, old), NodeHash(c, new))
      <3>1. w.sn # 0 /\ (w.fn % 2 = 1 \/ w.fn = w.sn)
        BY <1>2, <1>5
      <3>2. Climb(w, c) = Up(PastZeros[w.fn][w.sn], NodeHash(c, w.old), NodeHash(c, w.new))
        BY Zenon, <3>1 DEF Climb
      <3> QED BY <1>2, <3>2
    <2>2. WebClimb(w, c) = Up(PastZeros[fn][sn], NodeHash(c, old), NodeHash(c, new))
      <3>1. w.sn # 0 /\ (w.fn % 2 = 1 \/ w.fn = w.sn)
        BY <1>2, <1>5
      <3>2. WebClimb(w, c) = Up(IF w.fn % 2 = 0 THEN PastZeros[w.fn][w.sn] ELSE w, NodeHash(c, w.old), NodeHash(c, w.new))
        BY Zenon, <3>1 DEF WebClimb
      <3>3. CASE fn % 2 = 0
        BY <1>2, <3>2, <3>3
      <3>4. CASE fn % 2 # 0
        <4>1. PastZeros[fn][sn] = [fn |-> fn, sn |-> sn]
          BY <3>4, PastZerosIs
        <4>2. Up(w, NodeHash(c, old), NodeHash(c, new)) = Up([fn |-> fn, sn |-> sn], NodeHash(c, old), NodeHash(c, new))
          BY <1>2 DEF Up
        <4> QED BY <1>2, <3>2, <3>4, <4>1, <4>2
      <3> QED BY <3>3, <3>4
    <2>3. PastZeros[fn][sn] \in [fn : Nat, sn : Nat]
      BY PastZerosTypes
    <2> QED BY <1>3, <2>1, <2>2, <2>3
  <1>6. CASE sn # 0 /\ ~(fn % 2 = 1 \/ fn = sn)
    <2>1. w.sn # 0 /\ ~(w.fn % 2 = 1 \/ w.fn = w.sn)
      BY <1>2, <1>6
    <2>2. Climb(w, c) = Up(w, w.old, NodeHash(w.new, c))
      BY Zenon, <2>1 DEF Climb
    <2>3. WebClimb(w, c) = Up(w, w.old, NodeHash(w.new, c))
      BY Zenon, <2>1 DEF WebClimb
    <2>4. Up(w, w.old, NodeHash(w.new, c)) = Up([fn |-> fn, sn |-> sn], w.old, NodeHash(w.new, c))
      BY <1>2 DEF Up
    <2>5. [fn |-> fn, sn |-> sn] \in [fn : Nat, sn : Nat]
      OBVIOUS
    <2> QED BY <1>3, <2>2, <2>3, <2>4, <2>5
  <1> QED BY <1>4, <1>5, <1>6

(* The page's loop, as ClimbedTo.                                          *)
WebClimbedTo(w, proof, u, c) == c = [i \in 0..u |-> IF i = 0 THEN w ELSE WebClimb(c[i - 1], proof[i])]

(* And so of a whole proof.                                                *)
LEMMA SameClimbed ==
    ASSUME NEW w, Climber(w), NEW proof, Len(proof) \in Nat
    PROVE  WebClimbed(w, proof) = Climbed(w, proof)
  <1> DEFINE n == Len(proof)
  <1>1. ASSUME NEW c, ClimbedTo(w, proof, n, c) \/ WebClimbedTo(w, proof, n, c)
        PROVE  \A i \in Nat : i <= n => Climber(c[i])
    <2> DEFINE S == {i \in Nat : i <= n => Climber(c[i])}
    <2>1. 0 \in S
      <3>1. 0 \in 0..n
        OBVIOUS
      <3>2. c[0] = w
        BY <1>1, <3>1 DEF ClimbedTo, WebClimbedTo
      <3> QED BY <3>2
    <2>2. ASSUME NEW i \in Nat, i \in S PROVE i + 1 \in S
      <3> SUFFICES ASSUME i + 1 <= n PROVE Climber(c[i + 1])
        OBVIOUS
      <3>1. i + 1 \in 0..n /\ (i + 1) - 1 = i /\ i + 1 # 0 /\ i <= n
        OBVIOUS
      <3>2. Climber(c[i])
        BY <2>2, <3>1
      <3>3. c[i + 1] = Climb(c[i], proof[i + 1]) \/ c[i + 1] = WebClimb(c[i], proof[i + 1])
        BY <1>1, <3>1 DEF ClimbedTo, WebClimbedTo
      <3> QED BY <3>2, <3>3, SameClimb
    <2>3. \A i \in Nat : i \in S
      <3> HIDE DEF S
      <3> QED BY <2>1, <2>2, UpFromZero
    <2> QED BY <2>3
  <1>2. ASSUME NEW c PROVE ClimbedTo(w, proof, n, c) <=> WebClimbedTo(w, proof, n, c)
    <2>1. ASSUME ClimbedTo(w, proof, n, c) \/ WebClimbedTo(w, proof, n, c)
          PROVE  \A i \in 0..n : i # 0 => WebClimb(c[i - 1], proof[i]) = Climb(c[i - 1], proof[i])
      <3> SUFFICES ASSUME NEW i \in 0..n, i # 0 PROVE WebClimb(c[i - 1], proof[i]) = Climb(c[i - 1], proof[i])
        OBVIOUS
      <3>1. i - 1 \in Nat /\ i - 1 <= n
        OBVIOUS
      <3>2. Climber(c[i - 1])
        BY <1>1, <2>1, <3>1
      <3> QED BY <3>2, SameClimb
    <2>2. ASSUME \A i \in 0..n : i # 0 => WebClimb(c[i - 1], proof[i]) = Climb(c[i - 1], proof[i])
          PROVE  ClimbedTo(w, proof, n, c) <=> WebClimbedTo(w, proof, n, c)
      <3>1. [i \in 0..n |-> IF i = 0 THEN w ELSE Climb(c[i - 1], proof[i])]
            = [i \in 0..n |-> IF i = 0 THEN w ELSE WebClimb(c[i - 1], proof[i])]
        BY <2>2
      <3> QED BY <3>1 DEF ClimbedTo, WebClimbedTo
    <2> QED BY <2>1, <2>2
  <1>3. (CHOOSE c : ClimbedTo(w, proof, n, c)) = CHOOSE c : WebClimbedTo(w, proof, n, c)
    BY <1>2
  <1>4. Climbed(w, proof) = (CHOOSE c : ClimbedTo(w, proof, n, c))[n]
    BY Zenon DEF Climbed, ClimbedTo
  <1>5. WebClimbed(w, proof) = (CHOOSE c : WebClimbedTo(w, proof, n, c))[n]
    BY Zenon DEF WebClimbed, WebClimbedTo
  <1> QED BY <1>3, <1>4, <1>5

-------------------------------------------------------------------------------
(* What subproof gives.                                                    *)

(* The body of subproof, over the proofs p in the smaller subtrees;        *)
(* SubproofsTo says that p holds every subtree of at most u leaves.        *)
SubproofEntry(s, m, n, p, lo, whole) ==
    IF n <= 1 \/ m = lo + n THEN IF whole THEN <<>> ELSE <<Mth(s, lo, lo + n)>>
    ELSE LET k == Split(n) IN
         IF m <= lo + k THEN Append(p[k][lo][whole], Mth(s, lo + k, lo + n))
         ELSE Append(p[n - k][lo + k][FALSE], Mth(s, lo, lo + k))
SubproofRow(s, m, n, p, lo) == [whole \in BOOLEAN |-> SubproofEntry(s, m, n, p, lo, whole)]
SubproofsTo(s, m, u, p) == p = [n \in 0..u |-> [lo \in 0..Len(s) - n |-> SubproofRow(s, m, n, p, lo)]]

(* The body sees nothing of p but the two halves.                          *)
LEMMA SubproofRows ==
    ASSUME NEW s, NEW m, NEW n \in Nat, NEW p, NEW q, NEW lo,
           n > 1 => p[Split(n)] = q[Split(n)] /\ p[n - Split(n)] = q[n - Split(n)]
    PROVE  SubproofRow(s, m, n, p, lo) = SubproofRow(s, m, n, q, lo)
  <1>1. ASSUME NEW whole PROVE SubproofEntry(s, m, n, p, lo, whole) = SubproofEntry(s, m, n, q, lo, whole)
    <2>1. CASE n > 1
      <3>1. p[Split(n)] = q[Split(n)] /\ p[n - Split(n)] = q[n - Split(n)]
        BY <2>1
      <3> QED BY Zenon, <3>1 DEF SubproofEntry
    <2>2. CASE n <= 1
      BY Zenon, <2>2 DEF SubproofEntry
    <2> QED BY <2>1, <2>2
  <1> QED BY Zenon, <1>1 DEF SubproofRow

(* subproof: the recursion ends, so that there is such a function and      *)
(* Subproof is its last value.                                             *)
LEMMA SubproofRowsAre ==
    ASSUME NEW s, Len(s) \in Nat, NEW m
    PROVE  \E p : SubproofsTo(s, m, Len(s), p) /\ Subproof(s, m) = p[Len(s)][0][TRUE]
  <1> DEFINE S == {u \in Nat : \E p : SubproofsTo(s, m, u, p)}
  <1>1. 0 \in S
    <2> DEFINE p == [n \in 0..0 |-> [lo \in 0..Len(s) - n |-> SubproofRow(s, m, 0, <<>>, lo)]]
    <2>1. \A n \in 0..0 : n = 0
      OBVIOUS
    <2>2. \A lo : SubproofRow(s, m, 0, <<>>, lo) = SubproofRow(s, m, 0, p, lo)
      <3> HIDE DEF p
      <3>1. ~(0 > 1)
        OBVIOUS
      <3> QED BY <3>1, SubproofRows
    <2>3. SubproofsTo(s, m, 0, p)
      <3>1. p = [n \in 0..0 |-> [lo \in 0..Len(s) - n |-> SubproofRow(s, m, 0, <<>>, lo)]]
        OBVIOUS
      <3> HIDE DEF p
      <3>2. ASSUME NEW n \in 0..0
            PROVE  [lo \in 0..Len(s) - n |-> SubproofRow(s, m, 0, <<>>, lo)] = [lo \in 0..Len(s) - n |-> SubproofRow(s, m, n, p, lo)]
        BY <2>1, <2>2
      <3> QED BY <3>1, <3>2 DEF SubproofsTo
    <2> QED BY <2>3
  <1>2. ASSUME NEW u \in Nat, u \in S PROVE u + 1 \in S
    <2>1. PICK g : SubproofsTo(s, m, u, g)
      BY <1>2
    <2> DEFINE p == [n \in 0..u + 1 |-> IF n <= u THEN g[n] ELSE [lo \in 0..Len(s) - n |-> SubproofRow(s, m, n, g, lo)]]
    <2>2. \A n \in 0..u : p[n] = g[n]
      OBVIOUS
    <2>3. p[u + 1] = [lo \in 0..Len(s) - (u + 1) |-> SubproofRow(s, m, u + 1, g, lo)]
      OBVIOUS
    <2>4. p = [n \in 0..u + 1 |-> p[n]]
      OBVIOUS
    <2> HIDE DEF p
    <2>5. ASSUME NEW n \in 0..u + 1, NEW lo PROVE SubproofRow(s, m, n, g, lo) = SubproofRow(s, m, n, p, lo)
      <3>1. n > 1 => g[Split(n)] = p[Split(n)] /\ g[n - Split(n)] = p[n - Split(n)]
        <4>1. n > 1 => Split(n) \in 0..u /\ n - Split(n) \in 0..u
          BY SplitIs
        <4> QED BY <2>2, <4>1
      <3> QED BY <3>1, SubproofRows
    <2>6. ASSUME NEW n \in 0..u + 1 PROVE p[n] = [lo \in 0..Len(s) - n |-> SubproofRow(s, m, n, p, lo)]
      <3>1. p[n] = [lo \in 0..Len(s) - n |-> SubproofRow(s, m, n, g, lo)]
        <4>1. CASE n \in 0..u
          BY <2>1, <2>2, <4>1 DEF SubproofsTo
        <4>2. CASE n = u + 1
          BY <2>3, <4>2
        <4> QED BY <4>1, <4>2
      <3> QED BY <2>5, <3>1
    <2>7. SubproofsTo(s, m, u + 1, p)
      BY <2>4, <2>6 DEF SubproofsTo
    <2> QED BY <2>7
  <1>3. \E p : SubproofsTo(s, m, Len(s), p)
    <2>1. Len(s) \in S
      <3> HIDE DEF S
      <3> QED BY <1>1, <1>2, UpFromZero
    <2> QED BY <2>1
  <1>4. Subproof(s, m) = (CHOOSE p : SubproofsTo(s, m, Len(s), p))[Len(s)][0][TRUE]
    BY Zenon DEF Subproof, SubproofsTo, SubproofRow, SubproofEntry
  <1> QED BY <1>3, <1>4

(* subproof, one step down.                                                *)
LEMMA SubproofEntries ==
    ASSUME NEW s, Len(s) \in Nat, NEW m, NEW p, SubproofsTo(s, m, Len(s), p)
    PROVE  \A n \in 0..Len(s) : \A lo \in 0..Len(s) - n : \A whole \in BOOLEAN :
               p[n][lo][whole] = SubproofEntry(s, m, n, p, lo, whole)
  <1> SUFFICES ASSUME NEW n \in 0..Len(s), NEW lo \in 0..Len(s) - n
               PROVE  \A whole \in BOOLEAN : p[n][lo][whole] = SubproofEntry(s, m, n, p, lo, whole)
    OBVIOUS
  <1>1. p[n] = [l \in 0..Len(s) - n |-> SubproofRow(s, m, n, p, l)]
    BY DEF SubproofsTo
  <1>2. p[n][lo] = SubproofRow(s, m, n, p, lo)
    BY <1>1
  <1> QED BY Zenon, <1>2 DEF SubproofRow

(* subproof of an even size is that of half the size in the row above.     *)
LEMMA SubproofEven ==
    ASSUME NEW s, Len(s) \in Nat, NEW f \in Nat, 0 < f, 2 * f < Len(s)
    PROVE  Subproof(s, 2 * f) = Subproof(Above(s), f)
  <1> DEFINE t == Above(s)
             m == 2 * f
  <1>a. Len(t) = (Len(s) + 1) \div 2 /\ Len(t) \in Nat
    BY AboveIs
  <1>b. PICK p : SubproofsTo(s, m, Len(s), p) /\ Subproof(s, m) = p[Len(s)][0][TRUE]
    BY SubproofRowsAre
  <1>c. PICK r : SubproofsTo(t, f, Len(t), r) /\ Subproof(t, f) = r[Len(t)][0][TRUE]
    BY <1>a, SubproofRowsAre
  <1>d. \A n \in 0..Len(s) : \A lo \in 0..Len(s) - n : \A whole \in BOOLEAN :
            p[n][lo][whole] = SubproofEntry(s, m, n, p, lo, whole)
    BY <1>b, SubproofEntries
  <1>e. \A n \in 0..Len(t) : \A lo \in 0..Len(t) - n : \A whole \in BOOLEAN :
            r[n][lo][whole] = SubproofEntry(t, f, n, r, lo, whole)
    BY <1>a, <1>c, SubproofEntries
  <1>f. m = 2 * f /\ m \in Nat /\ m < Len(s)
    OBVIOUS
  <1> HIDE DEF t, m
  <1> DEFINE Same(i) == \A j \in Nat : 1 <= i /\ Paired(s, i, j) /\ 2 * j < m /\ m <= 2 * j + i =>
                            /\ p[i][2 * j][TRUE] = r[(i + 1) \div 2][j][TRUE]
                            /\ p[i][2 * j][FALSE] = r[(i + 1) \div 2][j][FALSE]
             S == {i \in Nat : Same(i)}
  <1>1. ASSUME NEW i \in Nat, \A k \in 0..i - 1 : k \in S PROVE i \in S
    <2> SUFFICES ASSUME NEW j \in Nat, 1 <= i, Paired(s, i, j), 2 * j < m, m <= 2 * j + i
                 PROVE  /\ p[i][2 * j][TRUE] = r[(i + 1) \div 2][j][TRUE]
                        /\ p[i][2 * j][FALSE] = r[(i + 1) \div 2][j][FALSE]
      OBVIOUS
    <2>1. PICK h \in Nat : h = (i + 1) \div 2 /\ (i = 2 * h \/ i + 1 = 2 * h)
      OBVIOUS
    <2>2. /\ 2 * j + i <= Len(s) /\ (i = 2 * h \/ 2 * j + i = Len(s))
          /\ (Len(s) = 2 * Len(t) \/ Len(s) + 1 = 2 * Len(t))
      <3>1. 2 * j + i <= Len(s) /\ (i = 2 * h \/ 2 * j + i = Len(s))
        BY <2>1 DEF Paired
      <3>2. Len(s) = 2 * Len(t) \/ Len(s) + 1 = 2 * Len(t)
        BY <1>a
      <3> QED BY <3>1, <3>2
    <2>3. i \in 0..Len(s) /\ 2 * j \in 0..Len(s) - i /\ h \in 1..Len(t) /\ j \in 0..Len(t) - h
      BY <1>a, <2>1, <2>2
    <2>4. /\ p[i][2 * j][TRUE] = SubproofEntry(s, m, i, p, 2 * j, TRUE)
          /\ p[i][2 * j][FALSE] = SubproofEntry(s, m, i, p, 2 * j, FALSE)
          /\ r[h][j][TRUE] = SubproofEntry(t, f, h, r, j, TRUE)
          /\ r[h][j][FALSE] = SubproofEntry(t, f, h, r, j, FALSE)
      <3>1. h \in 0..Len(t)
        BY <2>3
      <3> QED BY <1>d, <1>e, <2>3, <3>1, Zenon
    <2>5. ASSUME m = 2 * j + i
          PROVE  /\ SubproofEntry(s, m, i, p, 2 * j, TRUE) = SubproofEntry(t, f, h, r, j, TRUE)
                 /\ SubproofEntry(s, m, i, p, 2 * j, FALSE) = SubproofEntry(t, f, h, r, j, FALSE)
      <3>1. f = j + h /\ i = 2 * h /\ 1 <= h
        BY <1>f, <2>1, <2>5
      <3>2. Mth(s, 2 * j, 2 * j + i) = Mth(t, j, j + h)
        <4>1. Hashed(s)[i][2 * j] = Hashed(Above(s))[(i + 1) \div 2][j]
          BY RowHashes
        <4>2. (2 * j + i) - 2 * j = i /\ (j + h) - j = h
          OBVIOUS
        <4> QED BY <2>1, <4>1, <4>2 DEF Mth, t
      <3>3. SubproofEntry(s, m, i, p, 2 * j, TRUE) = <<>> /\ SubproofEntry(s, m, i, p, 2 * j, FALSE) = <<Mth(s, 2 * j, 2 * j + i)>>
        BY Zenon, <2>5 DEF SubproofEntry
      <3>4. SubproofEntry(t, f, h, r, j, TRUE) = <<>> /\ SubproofEntry(t, f, h, r, j, FALSE) = <<Mth(t, j, j + h)>>
        BY Zenon, <3>1 DEF SubproofEntry
      <3> QED BY <3>2, <3>3, <3>4
    <2>6. CASE i <= 2
      <3>1. m = 2 * j + i
        BY <1>f, <2>6
      <3> QED BY <2>1, <2>4, <2>5, <3>1
    <2>7. CASE i > 2 /\ m = 2 * j + i
      BY <2>1, <2>4, <2>5, <2>7
    <2>8. CASE i > 2 /\ m # 2 * j + i
      <3>1. PICK l \in Nat, k \in Nat : HalvedAs(s, i, j, l, k)
        BY <2>8, Halves
      <3>2. l = h
        BY <2>1, <3>1 DEF HalvedAs
      <3>3. HalvedAs(s, i, j, h, k)
        BY <3>1, <3>2
      <3>a. /\ k \in Nat /\ h > 1 /\ k \in 1..h - 1 /\ j + k \in Nat /\ h - k \in Nat
            /\ 2 * k \in 0..i - 1 /\ 1 <= 2 * k /\ i - 2 * k \in 0..i - 1 /\ 1 <= i - 2 * k
        <4>1. k \in Nat /\ h > 1 /\ k \in 1..h - 1 /\ j + k \in Nat /\ h - k \in Nat
          BY <3>1, <3>3 DEF HalvedAs
        <4>2. 2 * k \in 1..i - 1 /\ i - 2 * k \in 1..i - 1
          BY <3>3 DEF HalvedAs
        <4> QED BY <4>1, <4>2
      <3>b. Paired(s, 2 * k, j) /\ Paired(s, i - 2 * k, j + k)
        BY <3>3 DEF HalvedAs
      <3>c. Mth(s, 2 * j, 2 * j + 2 * k) = Mth(t, j, j + k) /\ Mth(s, 2 * j + 2 * k, 2 * j + i) = Mth(t, j + k, j + h)
        BY <3>3 DEF HalvedAs, t
      <3>d. 2 * (j + k) = 2 * j + 2 * k
        OBVIOUS
      <3>e. Split(h) = k
        BY <3>3 DEF HalvedAs
      <3>f. (2 * k + 1) \div 2 = k /\ ((i - 2 * k) + 1) \div 2 = h - k
        BY <3>3 DEF HalvedAs
      <3>g. Split(i) = 2 * k
        BY <3>3 DEF HalvedAs
      <3>h. ~(i <= 1 \/ m = 2 * j + i) /\ ~(h <= 1 \/ f = j + h)
        BY <1>f, <2>1, <2>8, <3>a
      <3>4. CASE m <= 2 * j + 2 * k
        <4>1. f <= j + k
          BY <1>f, <3>4, <3>a
        <4>2. p[2 * k][2 * j][TRUE] = r[k][j][TRUE] /\ p[2 * k][2 * j][FALSE] = r[k][j][FALSE]
          <5>1. 2 * k \in S
            BY <1>1, <3>a
          <5>2. Same(2 * k)
            BY <5>1
          <5> QED BY <3>4, <3>a, <3>b, <3>f, <5>2
        <4>3. \A whole : SubproofEntry(s, m, i, p, 2 * j, whole) = Append(p[2 * k][2 * j][whole], Mth(s, 2 * j + 2 * k, 2 * j + i))
          BY Zenon, <3>g, <3>h, <3>4 DEF SubproofEntry
        <4>4. \A whole : SubproofEntry(t, f, h, r, j, whole) = Append(r[k][j][whole], Mth(t, j + k, j + h))
          BY Zenon, <3>e, <3>h, <4>1 DEF SubproofEntry
        <4> QED BY Zenon, <2>1, <2>4, <3>c, <4>2, <4>3, <4>4
      <3>5. CASE ~(m <= 2 * j + 2 * k)
        <4>1. ~(f <= j + k)
          BY <1>f, <3>5, <3>a
        <4>2. p[i - 2 * k][2 * j + 2 * k][FALSE] = r[h - k][j + k][FALSE]
          <5>1. i - 2 * k \in S
            BY <1>1, <3>a
          <5>2. Same(i - 2 * k)
            BY <5>1
          <5>3. 2 * (j + k) < m /\ m <= 2 * (j + k) + (i - 2 * k)
            BY <1>f, <3>5, <3>a
          <5>4. p[i - 2 * k][2 * (j + k)][FALSE] = r[((i - 2 * k) + 1) \div 2][j + k][FALSE]
            BY <3>a, <3>b, <5>2, <5>3
          <5> QED BY <3>d, <3>f, <5>4
        <4>3. \A whole : SubproofEntry(s, m, i, p, 2 * j, whole) = Append(p[i - 2 * k][2 * j + 2 * k][FALSE], Mth(s, 2 * j, 2 * j + 2 * k))
          BY Zenon, <3>g, <3>h, <3>5 DEF SubproofEntry
        <4>4. \A whole : SubproofEntry(t, f, h, r, j, whole) = Append(r[h - k][j + k][FALSE], Mth(t, j, j + k))
          BY Zenon, <3>e, <3>h, <4>1 DEF SubproofEntry
        <4> QED BY Zenon, <2>1, <2>4, <3>c, <4>2, <4>3, <4>4
      <3> QED BY <3>4, <3>5
    <2>9. i <= 2 \/ i > 2
      OBVIOUS
    <2> QED BY Zenon, <2>6, <2>7, <2>8, <2>9
  <1>2. \A i \in Nat : i \in S
    <2> HIDE DEF S
    <2> QED BY <1>1, FromSmaller
  <1>3. p[Len(s)][2 * 0][TRUE] = r[(Len(s) + 1) \div 2][0][TRUE]
    <2>1. Same(Len(s))
      BY <1>2
    <2>2. Paired(s, Len(s), 0) /\ 1 <= Len(s) /\ 2 * 0 < m /\ m <= 2 * 0 + Len(s)
      BY <1>f DEF Paired
    <2> QED BY <2>1, <2>2
  <1>4. 2 * 0 = 0
    OBVIOUS
  <1> QED BY <1>a, <1>b, <1>c, <1>3, <1>4 DEF m, t

(* The proof of an odd size: the old tree's last leaf, unless it is the    *)
(* only one, and its path.                                                 *)
FromOdd(s, m) == IF m = 1 THEN Path(s, 0) ELSE Before(s[m], Path(s, m - 1))

(* subproof of an odd size is the path of the old tree's last leaf, with   *)
(* that leaf before it where the verifier does not have it already.        *)
LEMMA SubproofOdd ==
    ASSUME NEW s, Len(s) \in Nat, NEW f \in Nat, 2 * f + 1 < Len(s)
    PROVE  Subproof(s, 2 * f + 1) = FromOdd(s, 2 * f + 1)
  <1> DEFINE m == 2 * f + 1
             x == s[m]
  <1>b. PICK p : SubproofsTo(s, m, Len(s), p) /\ Subproof(s, m) = p[Len(s)][0][TRUE]
    BY SubproofRowsAre
  <1>c. PICK r : PathsTo(s, m - 1, Len(s), r) /\ Path(s, m - 1) = r[Len(s)][0]
    BY PathIs
  <1>d. \A n \in 0..Len(s) : \A lo \in 0..Len(s) - n : \A whole \in BOOLEAN :
            p[n][lo][whole] = SubproofEntry(s, m, n, p, lo, whole)
    BY <1>b, SubproofEntries
  <1>e. \A n \in 0..Len(s) : \A lo \in 0..Len(s) - n :
            r[n][lo] = PathEntry(s, m - 1, n, r, lo) /\ IsList(r[n][lo])
    BY <1>c, PathsAreLists
  <1>f. m = 2 * f + 1 /\ m \in Nat /\ m < Len(s) /\ m - 1 \in Nat
    OBVIOUS
  <1> HIDE DEF m, x
  \* What is in front of the path: the leaf, unless the whole of the old tree is one leaf.
  <1> DEFINE Led(i, lo) ==
                 /\ p[i][lo][TRUE] = IF m = lo + 1 THEN r[i][lo] ELSE Before(x, r[i][lo])
                 /\ p[i][lo][FALSE] = Before(x, r[i][lo])
             Leads(i) == \A j \in Nat : 1 <= i /\ Paired(s, i, j) /\ 2 * j < m /\ m <= 2 * j + i => Led(i, 2 * j)
             S == {i \in Nat : Leads(i)}
  <1>1. ASSUME NEW i \in Nat, \A k \in 0..i - 1 : k \in S PROVE i \in S
    <2> SUFFICES ASSUME NEW j \in Nat, 1 <= i, Paired(s, i, j), 2 * j < m, m <= 2 * j + i
                 PROVE  Led(i, 2 * j)
      OBVIOUS
    <2>1. 2 * j + i <= Len(s) /\ m # 2 * j + i /\ i > 1
      <3>1. 2 * j + i <= Len(s)
        BY DEF Paired
      <3>2. CASE \E b \in Nat : i = 2 * b
        BY <1>f, <3>1, <3>2
      <3>3. CASE 2 * j + i = Len(s)
        BY <1>f, <3>1, <3>3
      <3> QED BY <3>1, <3>2, <3>3 DEF Paired
    <2>2. i \in 0..Len(s) /\ 2 * j \in 0..Len(s) - i
      BY <2>1
    <2>3. /\ p[i][2 * j][TRUE] = SubproofEntry(s, m, i, p, 2 * j, TRUE)
          /\ p[i][2 * j][FALSE] = SubproofEntry(s, m, i, p, 2 * j, FALSE)
          /\ r[i][2 * j] = PathEntry(s, m - 1, i, r, 2 * j)
      BY <1>d, <1>e, <2>2, Zenon
    <2>4. ~(i <= 1 \/ m = 2 * j + i) /\ ~(i <= 1)
      BY <2>1
    \* From either half: the left one keeps what is in front, the right one has the leaf there.
    <2>5. ASSUME NEW k \in Nat, k = Split(i), NEW lo, lo = 2 * j, m <= lo + k,
                 IsList(r[k][lo]), Led(k, lo)
          PROVE  Led(i, lo)
      <3>1. m - 1 < lo + k
        BY <1>f, <2>5
      <3> DEFINE c == Mth(s, lo + k, lo + i)
      <3>2. \A whole : SubproofEntry(s, m, i, p, lo, whole) = Append(p[k][lo][whole], c)
        BY Zenon, <2>4, <2>5 DEF SubproofEntry
      <3>3. PathEntry(s, m - 1, i, r, lo) = Append(r[k][lo], c)
        BY Zenon, <2>4, <2>5, <3>1 DEF PathEntry
      <3> HIDE DEF c
      <3>4. Append(Before(x, r[k][lo]), c) = Before(x, Append(r[k][lo], c))
        BY <2>5, BeforeAppend
      <3>5. p[i][lo][TRUE] = Append(p[k][lo][TRUE], c) /\ p[i][lo][FALSE] = Append(p[k][lo][FALSE], c)
            /\ r[i][lo] = Append(r[k][lo], c)
        BY Zenon, <2>3, <2>5, <3>2, <3>3
      <3>6. CASE m = lo + 1
        BY <2>5, <3>4, <3>5, <3>6
      <3>7. CASE m # lo + 1
        BY <2>5, <3>4, <3>5, <3>7
      <3> QED BY <3>6, <3>7
    <2>6. ASSUME NEW k \in Nat, k = Split(i), 1 <= k, NEW lo, lo = 2 * j, ~(m <= lo + k),
                 IsList(r[i - k][lo + k]), p[i - k][lo + k][FALSE] = Before(x, r[i - k][lo + k])
          PROVE  Led(i, lo)
      <3>1. ~(m - 1 < lo + k) /\ m # lo + 1
        BY <1>f, <2>6
      <3> DEFINE c == Mth(s, lo, lo + k)
      <3>2. \A whole : SubproofEntry(s, m, i, p, lo, whole) = Append(p[i - k][lo + k][FALSE], c)
        BY Zenon, <2>4, <2>6 DEF SubproofEntry
      <3>3. PathEntry(s, m - 1, i, r, lo) = Append(r[i - k][lo + k], c)
        BY Zenon, <2>4, <2>6, <3>1 DEF PathEntry
      <3> HIDE DEF c
      <3>4. Append(Before(x, r[i - k][lo + k]), c) = Before(x, Append(r[i - k][lo + k], c))
        BY <2>6, BeforeAppend
      <3>5. p[i][lo][TRUE] = Before(x, r[i][lo]) /\ p[i][lo][FALSE] = Before(x, r[i][lo])
        BY Zenon, <2>3, <2>6, <3>2, <3>3, <3>4
      <3> QED BY <3>1, <3>5
    <2> HIDE DEF Led
    <2>7. CASE i = 2
      <3>1. Split(i) = 1 /\ m = 2 * j + 1
        <4>1. Split(i) \in 1..i - 1
          BY <2>7, SplitIs
        <4> QED BY <1>f, <2>1, <2>7, <4>1
      <3>2. 1 \in 0..Len(s) /\ 2 * j \in 0..Len(s) - 1
        BY <2>1, <2>7
      <3>3. r[1][2 * j] = <<>> /\ IsList(r[1][2 * j])
        <4>1. PathEntry(s, m - 1, 1, r, 2 * j) = <<>>
          BY DEF PathEntry
        <4> QED BY <1>e, <3>2, <4>1
      <3>4. p[1][2 * j][TRUE] = <<>> /\ p[1][2 * j][FALSE] = <<Mth(s, 2 * j, 2 * j + 1)>>
        <4>1. SubproofEntry(s, m, 1, p, 2 * j, TRUE) = <<>> /\ SubproofEntry(s, m, 1, p, 2 * j, FALSE) = <<Mth(s, 2 * j, 2 * j + 1)>>
          BY Zenon, <3>1 DEF SubproofEntry
        <4> QED BY Zenon, <1>d, <3>2, <4>1
      <3>5. <<Mth(s, 2 * j, 2 * j + 1)>> = Before(x, <<>>)
        <4>1. 2 * j \in 0..Len(s) - 1
          BY <2>1, <2>7
        <4>2. Mth(s, 2 * j, 2 * j + 1) = s[2 * j + 1]
          BY <4>1, Single
        <4>3. <<x>> \o <<>> = <<x>>
          OBVIOUS
        <4> QED BY <3>1, <4>2, <4>3 DEF Before, x
      <3>6. Led(1, 2 * j)
        BY <3>1, <3>3, <3>4, <3>5 DEF Led
      <3> QED BY <2>5, <3>1, <3>3, <3>6
    <2>8. CASE i > 2
      <3>1. PICK h \in Nat, k \in Nat : HalvedAs(s, i, j, h, k)
        BY <2>8, Halves
      <3>a. /\ k \in Nat /\ j + k \in Nat /\ 2 * k \in 0..i - 1 /\ 1 <= 2 * k /\ i - 2 * k \in 0..i - 1 /\ 1 <= i - 2 * k
        <4>1. k \in Nat /\ j + k \in Nat
          BY <3>1 DEF HalvedAs
        <4>2. 2 * k \in 1..i - 1 /\ i - 2 * k \in 1..i - 1
          BY <3>1 DEF HalvedAs
        <4> QED BY <4>1, <4>2
      <3>b. Paired(s, 2 * k, j) /\ Paired(s, i - 2 * k, j + k)
        BY <3>1 DEF HalvedAs
      <3>c. Split(i) = 2 * k
        BY <3>1 DEF HalvedAs
      <3>d. 2 * (j + k) = 2 * j + 2 * k
        OBVIOUS
      <3>e. 2 * k \in 0..Len(s) /\ 2 * j \in 0..Len(s) - 2 * k /\ i - 2 * k \in 0..Len(s) /\ 2 * j + 2 * k \in 0..Len(s) - (i - 2 * k)
        BY <2>1, <3>a
      <3>f. IsList(r[2 * k][2 * j]) /\ IsList(r[i - 2 * k][2 * j + 2 * k])
        BY <1>e, <3>e
      <3>2. CASE m <= 2 * j + 2 * k
        <4>1. 2 * k \in S
          BY <1>1, <3>a
        <4>2. Led(2 * k, 2 * j)
          BY <3>2, <3>a, <3>b, <4>1
        <4>3. 2 * k \in Nat /\ 2 * k = Split(i)
          BY <3>a, <3>c
        <4> QED BY <2>5, <3>2, <3>f, <4>2, <4>3
      <3>3. CASE ~(m <= 2 * j + 2 * k)
        <4>1. i - 2 * k \in S
          BY <1>1, <3>a
        <4>2. 2 * (j + k) < m /\ m <= 2 * (j + k) + (i - 2 * k)
          BY <1>f, <3>3, <3>a
        <4>3. Led(i - 2 * k, 2 * (j + k))
          BY <3>a, <3>b, <4>1, <4>2
        <4>4. p[i - 2 * k][2 * j + 2 * k][FALSE] = Before(x, r[i - 2 * k][2 * j + 2 * k])
          BY <3>d, <4>3 DEF Led
        <4>5. 2 * k \in Nat /\ 2 * k = Split(i)
          BY <3>a, <3>c
        <4> QED BY <2>6, <3>3, <3>a, <3>f, <4>4, <4>5
      <3> QED BY <3>2, <3>3
    <2>9. i = 2 \/ i > 2
      BY <2>1
    <2> QED BY <2>7, <2>8, <2>9
  <1>2. \A i \in Nat : i \in S
    <2> HIDE DEF S
    <2> QED BY <1>1, FromSmaller
  <1>3. Led(Len(s), 0)
    <2>1. Leads(Len(s))
      BY <1>2
    <2>2. Paired(s, Len(s), 0) /\ 1 <= Len(s) /\ 2 * 0 < m /\ m <= 2 * 0 + Len(s) /\ 2 * 0 = 0
      BY <1>f DEF Paired
    <2> HIDE DEF Led
    <2> QED BY <2>1, <2>2
  <1>4. CASE m = 1
    <2>1. m - 1 = 0 /\ m = 0 + 1
      BY <1>4
    <2> QED BY <1>b, <1>c, <1>3, <1>4, <2>1 DEF FromOdd, m
  <1>5. CASE m # 1
    <2>1. m # 0 + 1
      BY <1>5
    <2> QED BY <1>b, <1>c, <1>3, <1>5, <2>1 DEF FromOdd, m, x
  <1> QED BY <1>4, <1>5

-------------------------------------------------------------------------------
(* What the verifiers say of it.                                           *)

(* SameBefore, of all values at once.                                      *)
LEMMA SameBeforeTold ==
    \A q, r, x, y : IsList(q) /\ IsList(r) => (Before(x, q) = Before(y, r) <=> x = y /\ q = r)
  BY SameBefore

(* Head and Tail, of what goes before a sequence.                          *)
LEMMA BeforeEnds ==
    ASSUME NEW q, IsList(q), NEW x
    PROVE  Head(Before(x, q)) = x /\ Tail(Before(x, q)) = q
  <1>1. IsList(Before(x, q)) /\ Before(x, q) # <<>>
    BY BeforeIs, SameBefore
  <1>2. PICK b : b = Before(x, q) /\ IsList(b) /\ b # <<>>
    BY <1>1
  <1>3. b = Before(Head(b), Tail(b)) /\ IsList(Tail(b))
    BY <1>2, FirstOf
  <1>4. PICK t : t = Tail(b) /\ IsList(t)
    BY <1>3
  <1>5. PICK h : h = Head(b)
    OBVIOUS
  <1>6. Before(h, t) = Before(x, q) <=> h = x /\ t = q
    <2>1. IsList(t)
      BY <1>4
    <2> QED BY <2>1, SameBeforeTold
  <1> QED BY <1>2, <1>3, <1>4, <1>5, <1>6

(* A log of two leaves or more gives no empty path.                        *)
LEMMA PathNotEmpty ==
    ASSUME NEW s, Len(s) \in Nat, Len(s) > 1, NEW fn \in 0..Len(s) - 1
    PROVE  IsList(Path(s, fn)) /\ Path(s, fn) # <<>>
  <1>1. IsList(Path(s, fn))
    BY PathIsList
  <1> DEFINE w == Standing(s, fn, s[fn + 1], s[fn + 1])
  <1>2. Tops(s, Climbed(w, Path(s, fn)))
    BY <1>1, OnlyThePath
  <1>3. w.sn = Len(s) - 1 /\ Len(s) - 1 # 0
    <2>1. PICK n \in Nat : n = Len(s) /\ n > 1
      OBVIOUS
    <2>2. n - 1 # 0
      BY <2>1
    <2> QED BY <2>1, <2>2 DEF Standing, At
  <1> HIDE DEF w
  <1>4. ASSUME Path(s, fn) = <<>> PROVE FALSE
    <2>1. Climbed(w, <<>>) = w
      BY ClimbedNot
    <2> QED BY <1>2, <1>3, <1>4, <2>1 DEF Tops
  <1> QED BY <1>1, <1>4

(* The loop gives two numbers.                                             *)
LEMMA PastOnesTypes ==
    \A fn, sn \in Nat : PastOnes[fn][sn] \in [fn : Nat, sn : Nat]
  <1> DEFINE S == {fn \in Nat : \A sn \in Nat : PastOnes[fn][sn] \in [fn : Nat, sn : Nat]}
  <1>1. ASSUME NEW fn \in Nat, \A m \in 0..fn - 1 : m \in S PROVE fn \in S
    <2> SUFFICES ASSUME NEW sn \in Nat PROVE PastOnes[fn][sn] \in [fn : Nat, sn : Nat]
      OBVIOUS
    <2>1. CASE fn % 2 = 1
      <3>1. fn \div 2 \in 0..fn - 1 /\ sn \div 2 \in Nat
        BY <2>1
      <3>2. fn \div 2 \in S
        BY <1>1, <3>1
      <3>3. PastOnes[fn \div 2][sn \div 2] \in [fn : Nat, sn : Nat]
        BY <3>1, <3>2
      <3> QED BY <2>1, <3>3, PastOnesIs
    <2>2. CASE fn % 2 # 1
      <3>1. PastOnes[fn][sn] = [fn |-> fn, sn |-> sn]
        BY <2>2, PastOnesIs
      <3> QED BY <3>1
    <2> QED BY <2>1, <2>2
  <1>2. \A fn \in Nat : fn \in S
    <2> HIDE DEF S
    <2> QED BY <1>1, FromSmaller
  <1> QED BY <1>2

(* What verifyConsistency comes to for a smaller tree that is not empty.   *)
Checked(m, oldRoot, n, newRoot, proof) ==
    LET given == IF PowerOfTwo(m) THEN <<oldRoot>> \o proof ELSE proof
        from   == PastOnes[m - 1][n - 1]
        w      == Climbed(Begun(from.fn, from.sn, Head(given)), Tail(given))
    IN  w.ok /\ w.sn = 0 /\ w.old = oldRoot /\ w.new = newRoot

(* The leaves of a row's first m.                                          *)
FirstLeaves(s, m) == [i \in 1..m |-> s[i]]

(* They are an older tree of that row, with the older root.                *)
LEMMA FirstLeavesAre ==
    ASSUME NEW s, Len(s) \in Nat, NEW m \in 1..Len(s)
    PROVE  Older(s, m - 1, FirstLeaves(s, m)) /\ FirstLeaves(s, m)[m] = s[m] /\ Root(FirstLeaves(s, m)) = Mth(s, 0, m)
  <1> DEFINE t == FirstLeaves(s, m)
  <1>1. Len(t) = m
    <2>1. t = [i \in 1..m |-> t[i]]
      BY DEF FirstLeaves
    <2> HIDE DEF t
    <2>2. m \in Nat
      OBVIOUS
    <2> QED BY <2>1, <2>2, ListOf
  <1>2. \A i \in 1..m : t[i] = s[i]
    BY DEF FirstLeaves
  <1> HIDE DEF t
  <1>3. Mth(t, 0, m) = Mth(s, 0, m)
    <2>1. m \in 0..Len(s) /\ m \in 0..Len(t) /\ Len(t) \in Nat
      BY <1>1
    <2> QED BY <1>2, <2>1, SameRoot
  <1>4. Root(t) = Mth(s, 0, m)
    BY <1>1, <1>3 DEF Root
  <1>5. m - 1 + 1 = m /\ \A i \in 1..m - 1 : i \in 1..m
    OBVIOUS
  <1>6. Older(s, m - 1, t)
    BY <1>1, <1>2, <1>5 DEF Older
  <1>7. t[m] = s[m]
    BY <1>2
  <1> QED BY <1>4, <1>6, <1>7 DEF t

(* A climb from the last leaf of the smaller tree.                         *)
LEMMA ClimbsBoth ==
    ASSUME NEW s, Len(s) \in Nat, NEW m \in 1..Len(s), NEW h
    PROVE  LET w == Climbed(Begun(m - 1, Len(s) - 1, h), Path(s, m - 1))
           IN  /\ (w.ok /\ w.sn = 0 /\ w.new = Root(s)) <=> h = s[m]
               /\ h = s[m] => w.old = Mth(s, 0, m)
  <1> DEFINE w == Climbed(Begun(m - 1, Len(s) - 1, h), Path(s, m - 1))
             t == FirstLeaves(s, m)
  <1>1. Begun(m - 1, Len(s) - 1, h) = Standing(s, m - 1, h, h)
    BY DEF Begun, Standing, At
  <1>2. m - 1 \in 0..Len(s) - 1 /\ (m - 1) + 1 = m
    OBVIOUS
  <1>3. IsList(Path(s, m - 1))
    BY <1>2, PathIsList
  <1>4. Tops(s, w) <=> h = s[m]
    <2>1. PICK f \in 0..Len(s) - 1 : f = m - 1 /\ f + 1 = m
      BY <1>2
    <2>2. Tops(s, Climbed(Standing(s, f, h, h), Path(s, f))) <=> h = s[f + 1] /\ Path(s, f) = Path(s, f)
      BY <1>3, <2>1, OnlyThePath
    <2> QED BY <1>1, <2>1, <2>2
  <1>5. ASSUME h = s[m] PROVE w.old = Mth(s, 0, m)
    <2>1. Older(s, m - 1, t) /\ t[m] = s[m] /\ Root(t) = Mth(s, 0, m)
      BY FirstLeavesAre
    <2>2. PICK f \in 0..Len(s) - 1 : f = m - 1 /\ f + 1 = m
      BY <1>2
    <2> HIDE DEF t
    <2>3. Climbed(Standing(s, f, t[f + 1], s[f + 1]), Path(s, f)).old = Root(t)
      BY <2>1, <2>2, OldToo
    <2> QED BY <1>1, <1>5, <2>1, <2>2, <2>3
  <1> HIDE DEF w
  <1> QED BY <1>4, <1>5 DEF Tops, w

(* "Checked" is the same of a row and an even size in it, and of the row   *)
(* above and half the size.                                                *)
LEMMA CheckedAbove ==
    ASSUME NEW s, Len(s) \in Nat, NEW f \in Nat, 0 < f, 2 * f < Len(s), NEW root
    PROVE  /\ Checked(2 * f, root, Len(s), Root(s), Subproof(s, 2 * f))
                <=> Checked(f, root, Len(Above(s)), Root(Above(s)), Subproof(Above(s), f))
           /\ Subproof(s, 2 * f) = Subproof(Above(s), f)
           /\ Mth(s, 0, 2 * f) = Mth(Above(s), 0, f)
  <1>1. PowerOfTwo(2 * f) = PowerOfTwo(f)
    <2>1. 2 * f # 0 /\ (2 * f) % 2 = 0 /\ (2 * f) \div 2 = f /\ 2 * f \in Nat
      OBVIOUS
    <2>2. PastZeros[2 * f][2 * f] = PastZeros[f][f]
      BY <2>1, PastZerosIs
    <2> QED BY <2>2 DEF PowerOfTwo
  <1>2. PastOnes[2 * f - 1][Len(s) - 1] = PastOnes[f - 1][Len(Above(s)) - 1]
    <2>1. (2 * f - 1) % 2 = 1 /\ (2 * f - 1) \div 2 = f - 1 /\ 2 * f - 1 \in Nat /\ Len(s) - 1 \in Nat
      OBVIOUS
    <2>2. (Len(s) - 1) \div 2 = Len(Above(s)) - 1
      <3>1. Len(Above(s)) = (Len(s) + 1) \div 2
        BY AboveIs
      <3>2. PICK n \in Nat : n = Len(s)
        OBVIOUS
      <3>3. n # 1 /\ 0 < n
        BY <3>2
      <3> QED BY <3>1, <3>2, <3>3, HalfOfRow
    <2>3. PastOnes[2 * f - 1][Len(s) - 1] = PastOnes[(2 * f - 1) \div 2][(Len(s) - 1) \div 2]
      BY <2>1, PastOnesIs
    <2> QED BY <2>1, <2>2, <2>3
  <1>3. Subproof(s, 2 * f) = Subproof(Above(s), f)
    BY SubproofEven
  <1>4. Root(s) = Root(Above(s))
    <2>1. 1 <= Len(s)
      OBVIOUS
    <2> QED BY <2>1, RootAbove
  <1>5. Mth(s, 0, 2 * f) = Mth(Above(s), 0, f)
    <2>1. 2 * f \in Nat /\ 1 <= 2 * f /\ (2 * f + 1) \div 2 = f /\ 2 * 0 = 0 /\ 2 * f - 0 = 2 * f /\ f - 0 = f
      OBVIOUS
    <2>2. Paired(s, 2 * f, 0)
      BY DEF Paired
    <2>3. Hashed(s)[2 * f][2 * 0] = Hashed(Above(s))[(2 * f + 1) \div 2][0]
      BY <2>1, <2>2, RowHashes
    <2> QED BY <2>1, <2>3 DEF Mth
  <1>6. Checked(2 * f, root, Len(s), Root(s), Subproof(s, 2 * f))
                <=> Checked(f, root, Len(Above(s)), Root(Above(s)), Subproof(Above(s), f))
    BY Zenon, <1>1, <1>2, <1>3, <1>4 DEF Checked
  <1> QED BY <1>3, <1>5, <1>6

(* An odd size: the climb starts at the old tree's last leaf, which the    *)
(* proof or the old root gives.                                            *)
LEMMA CheckedOdd ==
    ASSUME NEW s, Len(s) \in Nat, NEW f \in Nat, 2 * f + 1 < Len(s), NEW root
    PROVE  /\ Checked(2 * f + 1, root, Len(s), Root(s), Subproof(s, 2 * f + 1)) <=> root = Mth(s, 0, 2 * f + 1)
           /\ IsList(Subproof(s, 2 * f + 1)) /\ Subproof(s, 2 * f + 1) # <<>>
  <1> DEFINE m == 2 * f + 1
             n == Len(s)
             path == Path(s, m - 1)
  <1>1. m \in 1..Len(s) /\ m - 1 \in 0..Len(s) - 1 /\ m - 1 \in Nat /\ n - 1 \in Nat /\ n > 1 /\ m % 2 = 1
        /\ (m - 1) % 2 # 1 /\ m \in Nat
    OBVIOUS
  <1>2. PowerOfTwo(m) <=> m = 1
    <2>1. PastZeros[m][m] = [fn |-> m, sn |-> m]
      <3>1. ~(m # 0 /\ m % 2 = 0)
        BY <1>1
      <3> QED BY <1>1, <3>1, PastZerosIs
    <2> QED BY <2>1 DEF PowerOfTwo
  <1>3. PastOnes[m - 1][n - 1] = [fn |-> m - 1, sn |-> n - 1]
    BY <1>1, PastOnesIs
  <1>4. Subproof(s, m) = IF m = 1 THEN Path(s, 0) ELSE Before(s[m], path)
    BY SubproofOdd DEF FromOdd
  <1>5. IsList(path) /\ path # <<>>
    BY <1>1, PathNotEmpty
  <1>6. m - 1 = 0 <=> m = 1
    OBVIOUS
  <1> HIDE DEF m, n
  <1> DEFINE h == IF m = 1 THEN root ELSE s[m]
             w == Climbed(Begun(m - 1, n - 1, h), path)
  <1>7. Checked(m, root, n, Root(s), Subproof(s, m)) <=> w.ok /\ w.sn = 0 /\ w.old = root /\ w.new = Root(s)
    <2> DEFINE given == IF PowerOfTwo(m) THEN <<root>> \o Subproof(s, m) ELSE Subproof(s, m)
               from == PastOnes[m - 1][n - 1]
    <2>1. given = Before(h, path)
      <3>1. CASE m = 1
        BY <1>2, <1>4, <1>6, <3>1 DEF Before
      <3>2. CASE m # 1
        BY <1>2, <1>4, <3>2
      <3> QED BY <3>1, <3>2
    <2>2. from.fn = m - 1 /\ from.sn = n - 1
      BY <1>3
    <2>3. Checked(m, root, n, Root(s), Subproof(s, m)) <=>
              LET v == Climbed(Begun(from.fn, from.sn, Head(given)), Tail(given))
              IN  v.ok /\ v.sn = 0 /\ v.old = root /\ v.new = Root(s)
      BY DEF Checked
    <2> HIDE DEF given, from, h, path
    <2>4. Head(given) = h /\ Tail(given) = path
      BY <1>5, <2>1, BeforeEnds
    <2> QED BY Zenon, <2>2, <2>3, <2>4 DEF w
  <1>8. /\ (w.ok /\ w.sn = 0 /\ w.new = Root(s)) <=> h = s[m]
        /\ h = s[m] => w.old = Mth(s, 0, m)
    <2> HIDE DEF h
    <2> QED BY <1>1, ClimbsBoth DEF n
  <1>9. m = 1 => Mth(s, 0, m) = s[m]
    <2>1. 0 \in 0..Len(s) - 1 /\ 0 + 1 = 1
      BY <1>1 DEF n
    <2>2. Mth(s, 0, 0 + 1) = s[0 + 1]
      BY <2>1, Single
    <2> QED BY <2>1, <2>2
  <1> HIDE DEF w
  <1>10. Checked(m, root, n, Root(s), Subproof(s, m)) <=> root = Mth(s, 0, m)
    <2>1. CASE m = 1
      BY <1>7, <1>8, <1>9, <2>1
    <2>2. CASE m # 1
      BY <1>7, <1>8, <2>2
    <2> QED BY <2>1, <2>2
  <1>11. IsList(Subproof(s, m)) /\ Subproof(s, m) # <<>>
    <2>1. CASE m = 1
      BY <1>4, <1>5, <1>6, <2>1
    <2>2. CASE m # 1
      BY <1>4, <1>5, <2>2, BeforeIs, SameBefore
    <2> QED BY <2>1, <2>2
  <1> QED BY <1>10, <1>11 DEF m, n

(* verifyConsistency, of a larger tree and its own proof: it holds for the *)
(* root of the smaller tree's leaves, and for no other.                    *)
LEMMA CheckedOnly ==
    ASSUME NEW s, Len(s) \in Nat, NEW m \in 1..Len(s) - 1, NEW root
    PROVE  /\ Checked(m, root, Len(s), Root(s), Subproof(s, m)) <=> root = Mth(s, 0, m)
           /\ IsList(Subproof(s, m)) /\ Subproof(s, m) # <<>>
  <1> DEFINE Only(r, k) == /\ Checked(k, root, Len(r), Root(r), Subproof(r, k)) <=> root = Mth(r, 0, k)
                           /\ IsList(Subproof(r, k)) /\ Subproof(r, k) # <<>>
             S == {n \in Nat : \A r : Len(r) = n => \A k \in 1..n - 1 : Only(r, k)}
  <1>1. ASSUME NEW n \in Nat, \A i \in 0..n - 1 : i \in S PROVE n \in S
    <2> SUFFICES ASSUME NEW r, Len(r) = n, NEW k \in 1..n - 1 PROVE Only(r, k)
      OBVIOUS
    <2>1. PICK f \in Nat : k = 2 * f \/ k = 2 * f + 1
      <3>1. k \div 2 \in Nat /\ (k = 2 * (k \div 2) \/ k = 2 * (k \div 2) + 1)
        OBVIOUS
      <3> QED BY <3>1
    <2>2. CASE k = 2 * f
      <3> DEFINE t == Above(r)
      <3>1. 0 < f /\ 2 * f < Len(r) /\ Len(r) \in Nat
        BY <2>2
      <3>2. Len(t) \in 0..n - 1 /\ f \in 1..Len(t) - 1
        <4>1. Len(t) = (n + 1) \div 2
          BY AboveIs
        <4> QED BY <2>2, <4>1
      <3>3. Only(t, f)
        <4>1. Len(t) \in S
          BY <1>1, <3>2
        <4> HIDE DEF Only, t
        <4> QED BY <3>2, <4>1
      <3>4. /\ Checked(2 * f, root, Len(r), Root(r), Subproof(r, 2 * f))
                 <=> Checked(f, root, Len(t), Root(t), Subproof(t, f))
            /\ Subproof(r, 2 * f) = Subproof(t, f)
            /\ Mth(r, 0, 2 * f) = Mth(t, 0, f)
        BY <3>1, CheckedAbove
      <3> HIDE DEF t
      <3> QED BY <2>2, <3>3, <3>4
    <2>3. CASE k = 2 * f + 1
      <3>1. 2 * f + 1 < Len(r) /\ Len(r) \in Nat
        BY <2>3
      <3>2. Only(r, 2 * f + 1)
        BY <3>1, CheckedOdd
      <3> HIDE DEF Only
      <3> QED BY <2>3, <3>2
    <2> HIDE DEF Only
    <2> QED BY <2>1, <2>2, <2>3
  <1>2. \A n \in Nat : n \in S
    <2> HIDE DEF S
    <2> QED BY <1>1, FromSmaller
  <1>3. Only(s, m)
    <2>1. Len(s) \in S
      BY <1>2
    <2> HIDE DEF Only
    <2> QED BY <2>1
  <1> QED BY <1>3

(* The page's verifier says what the package's says.                       *)
LEMMA WebSaysTheSame ==
    ASSUME NEW m \in Nat, NEW n \in Nat, NEW oldRoot, NEW newRoot, NEW proof, IsList(proof)
    PROVE  WebVerifyConsistency(m, oldRoot, n, newRoot, proof) <=> VerifyConsistency(m, oldRoot, n, newRoot, proof)
  <1> DEFINE given == IF PowerOfTwo(m) THEN <<oldRoot>> \o proof ELSE proof
             from == PastOnes[m - 1][n - 1]
             w == Climbed(Begun(from.fn, from.sn, Head(given)), Tail(given))
             v == WebClimbed(Begun(from.fn, from.sn, Head(given)), Tail(given))
             Says(x) == x.ok /\ x.sn = 0 /\ x.old = oldRoot /\ x.new = newRoot
  <1>1. ASSUME 0 < m, m < n, proof # <<>> PROVE v = w
    <2>1. from \in [fn : Nat, sn : Nat]
      <3>1. m - 1 \in Nat /\ n - 1 \in Nat
        BY <1>1
      <3> QED BY <3>1, PastOnesTypes
    <2>2. IsList(given) /\ given # <<>>
      <3>1. <<oldRoot>> \o proof = Before(oldRoot, proof)
        BY DEF Before
      <3>2. IsList(Before(oldRoot, proof)) /\ Before(oldRoot, proof) # <<>>
        BY BeforeIs, SameBefore
      <3>3. given = Before(oldRoot, proof) \/ given = proof
        BY <3>1
      <3> HIDE DEF given
      <3> QED BY <1>1, <3>2, <3>3
    <2> HIDE DEF given, from
    <2>3. IsList(Tail(given))
      BY <2>2, FirstOf
    <2>4. Len(Tail(given)) \in Nat
      BY <2>3, ListIs
    <2>5. Climber(Begun(from.fn, from.sn, Head(given)))
      BY <2>1 DEF Begun, Climber
    <2> QED BY <2>4, <2>5, SameClimbed
  <1>2. CASE m > n
    BY <1>2 DEF WebVerifyConsistency, VerifyConsistency
  <1>3. CASE ~(m > n) /\ m = n
    BY <1>3 DEF WebVerifyConsistency, VerifyConsistency
  <1>4. CASE m < n /\ m = 0
    BY <1>4 DEF WebVerifyConsistency, VerifyConsistency
  <1>5. CASE 0 < m /\ m < n /\ proof = <<>>
    BY <1>5 DEF WebVerifyConsistency, VerifyConsistency
  <1>6. CASE 0 < m /\ m < n /\ proof # <<>>
    <2>1. ~(m > n) /\ m # n /\ m # 0
      BY <1>6
    <2>2. WebVerifyConsistency(m, oldRoot, n, newRoot, proof) <=> Says(v)
      BY Zenon, <1>6, <2>1 DEF WebVerifyConsistency
    <2>3. VerifyConsistency(m, oldRoot, n, newRoot, proof) <=> Says(w)
      BY Zenon, <1>6, <2>1 DEF VerifyConsistency
    <2> QED BY <1>1, <1>6, <2>2, <2>3
  <1>7. m > n \/ (~(m > n) /\ m = n) \/ (m < n /\ m = 0) \/ (0 < m /\ m < n)
    OBVIOUS
  <1> QED BY <1>2, <1>3, <1>4, <1>5, <1>6, <1>7

(* A consistency proof, as the log gives it for any two of its sizes       *)
(* (consistencyProof), verifies the root the log had at the smaller size   *)
(* and no other hash, to the package and to the page (verifyConsistency,   *)
(* verify-web.ts).                                                         *)
THEOREM ConsistencyOnly ==
    ASSUME NEW s, Len(s) \in Nat, NEW m \in 1..Len(s), NEW root
    PROVE  /\ VerifyConsistency(m, root, Len(s), Root(s), ConsistencyProof(s, m)) <=> root = Mth(s, 0, m)
           /\ WebVerifyConsistency(m, root, Len(s), Root(s), ConsistencyProof(s, m)) <=> root = Mth(s, 0, m)
  <1> DEFINE n == Len(s)
             proof == ConsistencyProof(s, m)
  <1>1. CASE m = n
    <2>1. proof = <<>> /\ IsList(<<>>)
      <3>1. <<>> \in Seq({})
        OBVIOUS
      <3> QED BY <1>1, <3>1 DEF ConsistencyProof, IsList
    <2>2. Root(s) = Mth(s, 0, m)
      BY <1>1 DEF Root
    <2>3. VerifyConsistency(m, root, n, Root(s), <<>>) <=> root = Root(s)
      BY <1>1 DEF VerifyConsistency
    <2>4. WebVerifyConsistency(m, root, n, Root(s), <<>>) <=> VerifyConsistency(m, root, n, Root(s), <<>>)
      <3>1. m \in Nat /\ n \in Nat
        OBVIOUS
      <3> QED BY <2>1, <3>1, WebSaysTheSame
    <2> QED BY <2>1, <2>2, <2>3, <2>4
  <1>2. CASE m # n
    <2>1. m \in 1..n - 1 /\ 0 < m /\ m < n /\ ~(m > n) /\ m # 0 /\ m \in Nat /\ n \in Nat
      BY <1>2
    <2>2. proof = Subproof(s, m)
      BY <1>2, <2>1 DEF ConsistencyProof
    <2>3. /\ Checked(m, root, n, Root(s), Subproof(s, m)) <=> root = Mth(s, 0, m)
          /\ IsList(Subproof(s, m)) /\ Subproof(s, m) # <<>>
      BY <2>1, CheckedOnly
    <2> HIDE DEF proof, n
    <2>4. VerifyConsistency(m, root, n, Root(s), proof) <=> Checked(m, root, n, Root(s), proof)
      BY Zenon, <1>2, <2>1, <2>2, <2>3 DEF VerifyConsistency, Checked
    <2>5. WebVerifyConsistency(m, root, n, Root(s), proof) <=> VerifyConsistency(m, root, n, Root(s), proof)
      BY <2>1, <2>2, <2>3, WebSaysTheSame
    <2> QED BY <2>2, <2>3, <2>4, <2>5 DEF proof, n
  <1> QED BY <1>1, <1>2

(* An inclusion proof verifies a hash at a place exactly when the hash is  *)
(* the leaf's at that place and the proof is the path the log gives for    *)
(* it, whatever hashes the proof was made of, to the package and to the    *)
(* page (path, verifyInclusion, verify-web.ts).                            *)
THEOREM InclusionOnly ==
    ASSUME NEW s, Len(s) \in Nat, NEW i \in 0..Len(s) - 1, NEW x, NEW proof, IsList(proof)
    PROVE  /\ VerifyInclusion(x, i, Len(s), proof, Root(s)) <=> x = s[i + 1] /\ proof = Path(s, i)
           /\ WebVerifyInclusion(x, i, Len(s), proof, Root(s)) <=> x = s[i + 1] /\ proof = Path(s, i)
  <1> DEFINE n == Len(s)
             b == Begun(i, n - 1, x)
  <1>1. i >= 0 /\ n > 0 /\ i < n /\ ~(i < 0 \/ n < 1 \/ i > n - 1) /\ i \in Nat /\ n - 1 \in Nat
    OBVIOUS
  <1>2. b = Standing(s, i, x, x)
    BY DEF Begun, Standing, At
  <1>3. Climber(b)
    BY <1>1 DEF Begun, Climber
  <1> HIDE DEF b, n
  <1>4. WebClimbed(b, proof) = Climbed(b, proof)
    BY <1>3, ListIs, SameClimbed
  <1>5. Tops(s, Climbed(b, proof)) <=> x = s[i + 1] /\ proof = Path(s, i)
    BY <1>2, OnlyThePath
  <1>6. VerifyInclusion(x, i, n, proof, Root(s)) <=> Tops(s, Climbed(b, proof))
    BY Zenon, <1>1 DEF VerifyInclusion, Tops, b
  <1>7. WebVerifyInclusion(x, i, n, proof, Root(s)) <=> Tops(s, WebClimbed(b, proof))
    BY Zenon, <1>1 DEF WebVerifyInclusion, Tops, b
  <1> QED BY <1>4, <1>5, <1>6, <1>7 DEF n

-------------------------------------------------------------------------------
(* Copies of the file log: RootsKept.                                      *)

(* s is how t begins.                                                      *)
Begins(s, t) == Len(s) <= Len(t) /\ \A i \in 1..Len(s) : s[i] = t[i]

(* What is in the file of the process that holds it: its memory, and the   *)
(* line not yet in it.                                                     *)
InFile(p) == IF call[p].at = "written" THEN Append(mem[p], call[p].leaf) ELSE mem[p]

(* While nobody has met on the file: one process holds it at most, and the *)
(* file is what that process knows; a file that ends in a torn line is     *)
(* held by no one.                                                         *)
Alone ==
    /\ \A p, q \in Procs : Open(p) /\ Open(q) => p = q
    /\ torn => \A p \in Procs : ~Open(p)
    /\ \A p \in Procs : Open(p) => LeavesOf(file) = InFile(p)

(* Every receipt's tree is how the file begins.                            *)
TreesStand == \A a \in answers : Begins(a.tree, LeavesOf(file))

(* An export's head is how the file begins, and what it has fetched is how *)
(* the head begins; all of it once the export is written.                  *)
ExportStands ==
    export.at \in {"paging", "written"} =>
        /\ Begins(export.head, LeavesOf(file)) /\ Begins(export.got, export.head)
        /\ export.at = "written" => Len(export.got) = Len(export.head)

(* Types of the answers and of an export.                                  *)
CopyTypes ==
    /\ \A a \in answers : a.tree \in Seq(Issued)
    /\ export \in [at : {"none", "keys", "paging", "written"}, listed : BOOLEAN,
                   head : Seq(Issued), got : Seq(Issued)]

(* The inductive invariant of RootsKept, beside FileInv.                   *)
RootInv == CopyTypes /\ (apart => Alone /\ TreesStand /\ ExportStands)

(* Beginning with is transitive.                                           *)
LEMMA BeginsOn ==
    ASSUME NEW A, NEW r \in Seq(A), NEW s \in Seq(A), NEW t \in Seq(A), Begins(r, s), Begins(s, t)
    PROVE  Begins(r, t)
  <1>1. Len(r) \in Nat /\ Len(s) \in Nat /\ Len(t) \in Nat
    BY LenProperties
  <1>2. \A i \in 1..Len(r) : i \in 1..Len(s)
    BY <1>1 DEF Begins
  <1> QED BY <1>1, <1>2 DEF Begins

(* LeavesOf, of any sequence of lines.                                     *)
LEMMA LeavesIn ==
    ASSUME NEW X, NEW s \in Seq(X)
    PROVE  /\ LeavesOf(s) \in Seq({x.leaf : x \in X}) /\ Len(LeavesOf(s)) = Len(s)
           /\ \A i \in 1..Len(s) : LeavesOf(s)[i] = s[i].leaf
  <1>1. DOMAIN s = 1..Len(s) /\ Len(s) \in Nat /\ \A i \in 1..Len(s) : s[i] \in X
    BY LenProperties, ElementOfSeq
  <1>2. LeavesOf(s) = [i \in 1..Len(s) |-> s[i].leaf]
    BY <1>1 DEF LeavesOf
  <1> DEFINE A == {x.leaf : x \in X}
  <1>3. \A i \in 1..Len(s) : s[i].leaf \in A
    BY <1>1
  <1> HIDE DEF A
  <1>4. LeavesOf(s) \in [1..Len(s) -> A] /\ DOMAIN LeavesOf(s) = 1..Len(s)
    BY <1>2, <1>3
  <1>5. LeavesOf(s) \in Seq(A)
    BY <1>1, <1>4, SeqDef
  <1>6. Len(LeavesOf(s)) = Len(s)
    BY <1>1, <1>4, <1>5, LenProperties
  <1> QED BY <1>2, <1>5, <1>6 DEF A

(* LeavesOf, of a file with a line more.                                   *)
LEMMA LeafAppended ==
    ASSUME NEW X, NEW s \in Seq(X), NEW line \in X
    PROVE  LeavesOf(Append(s, line)) = Append(LeavesOf(s), line.leaf)
  <1> DEFINE A == {x.leaf : x \in X}
  <1>1. line.leaf \in A
    OBVIOUS
  <1>2. /\ Append(s, line) \in Seq(X) /\ Len(s) \in Nat
        /\ Len(Append(s, line)) = Len(s) + 1
        /\ \A i \in 1..Len(s) : Append(s, line)[i] = s[i]
        /\ Append(s, line)[Len(s) + 1] = line
    BY AppendKeeps
  <1>3. /\ LeavesOf(s) \in Seq(A) /\ Len(LeavesOf(s)) = Len(s)
        /\ \A i \in 1..Len(s) : LeavesOf(s)[i] = s[i].leaf
    BY LeavesIn
  <1>4. PICK t \in Seq(X) : t = Append(s, line)
    BY <1>2
  <1>5. /\ LeavesOf(t) \in Seq(A) /\ Len(LeavesOf(t)) = Len(t)
        /\ \A i \in 1..Len(t) : LeavesOf(t)[i] = t[i].leaf
    BY LeavesIn
  <1> HIDE DEF A
  <1>6. /\ Append(LeavesOf(s), line.leaf) \in Seq(A)
        /\ Len(Append(LeavesOf(s), line.leaf)) = Len(s) + 1
        /\ \A i \in 1..Len(s) : Append(LeavesOf(s), line.leaf)[i] = LeavesOf(s)[i]
        /\ Append(LeavesOf(s), line.leaf)[Len(s) + 1] = line.leaf
    BY <1>1, <1>3, AppendKeeps
  <1>7. Len(LeavesOf(t)) = Len(s) + 1
    BY <1>2, <1>4, <1>5
  <1>8. ASSUME NEW i \in 1..Len(s) + 1 PROVE LeavesOf(t)[i] = Append(LeavesOf(s), line.leaf)[i]
    <2>1. CASE i \in 1..Len(s)
      BY <1>2, <1>3, <1>4, <1>5, <1>6, <2>1
    <2>2. CASE i = Len(s) + 1
      BY <1>2, <1>4, <1>5, <1>6, <2>2
    <2>3. i \in 1..Len(s) \/ i = Len(s) + 1
      BY <1>2
    <2> QED BY <2>1, <2>2, <2>3
  <1> HIDE DEF LeavesOf
  <1> QED BY <1>4, <1>5, <1>6, <1>7, <1>8, SeqEqual

(* Leaves are numbers.                                                     *)
LEMMA LeavesNat ==
    ASSUME NEW n, NEW s \in Seq([leaf : 1..n, form : {"text", "hash", "pruned"}])
    PROVE  LeavesOf(s) \in Seq(Nat)
  <1> DEFINE X == [leaf : 1..n, form : {"text", "hash", "pruned"}]
  <1>1. {x.leaf : x \in X} \subseteq Nat
    OBVIOUS
  <1>2. LeavesOf(s) \in Seq({x.leaf : x \in X})
    BY LeavesIn
  <1> QED BY <1>1, <1>2, Wider

(* LeavesOf sees the leaves of the lines and nothing else.                 *)
LEMMA LeavesKept ==
    ASSUME NEW s \in Seq(Lines), NEW t \in Seq(Lines), Len(s) = Len(t), \A i \in 1..Len(s) : s[i].leaf = t[i].leaf
    PROVE  LeavesOf(s) = LeavesOf(t)
  <1>1. /\ LeavesOf(s) \in Seq(Issued) /\ Len(LeavesOf(s)) = Len(s)
        /\ \A i \in 1..Len(s) : LeavesOf(s)[i] = s[i].leaf
    BY LeavesAre
  <1>2. /\ LeavesOf(t) \in Seq(Issued) /\ Len(LeavesOf(t)) = Len(t)
        /\ \A i \in 1..Len(t) : LeavesOf(t)[i] = t[i].leaf
    BY LeavesAre
  <1> QED BY <1>1, <1>2, SeqEqual

(* A process that holds the file has leaves; only such a process has a     *)
(* call under way.                                                         *)
LEMMA OpenIs ==
    ASSUME FileTypes, NEW p \in Procs
    PROVE  /\ Open(p) => mem[p] \in Seq(Issued)
           /\ call[p].at # "idle" => Open(p)
  <1>1. mem[p] \in Seq(Issued) \cup {Closed}
    BY DEF FileTypes
  <1>2. Closed \notin Seq(Issued)
    <2>1. Closed[1] = 0 /\ Len(Closed) = 1
      BY DEF Closed
    <2>2. 0 \notin Issued
      BY DEF Issued
    <2> SUFFICES ASSUME Closed \in Seq(Issued) PROVE FALSE
      OBVIOUS
    <2>3. 1 \in 1..Len(Closed)
      BY <2>1
    <2>4. Closed[1] \in Issued
      BY <2>3, ElementOfSeq
    <2> QED BY <2>1, <2>2, <2>4
  <1> QED BY <1>1, <1>2 DEF Open, FileTypes

(* While nobody has met on the file, it only grows.                        *)
LEMMA LeavesGrow ==
    ASSUME FileTypes, FileTypes', PruneTruthful, [FileNext]_fileVars, apart'
    PROVE  apart /\ Begins(LeavesOf(file), LeavesOf(file'))
  <1>1. /\ apart /\ Len(file) <= Len(file') /\ Len(file) \in Nat /\ Len(file') \in Nat
        /\ \A i \in 1..Len(file) : file'[i].leaf = file[i].leaf
    BY LeavesStay
  <1>2. Issued \subseteq Issued' /\ file \in Seq(Lines) /\ file' \in Seq(Lines')
    BY IssuedGrows DEF FileTypes
  <1>3. Len(LeavesOf(file)) = Len(file) /\ \A i \in 1..Len(file) : LeavesOf(file)[i] = file[i].leaf
    BY <1>2, LeavesAre
  <1>5. Len(LeavesOf(file')) = Len(file') /\ \A i \in 1..Len(file') : LeavesOf(file')[i] = file'[i].leaf
    BY <1>2, LeavesIn
  <1>6. \A i \in 1..Len(file) : i \in 1..Len(file')
    BY <1>1
  <1> QED BY <1>1, <1>3, <1>5, <1>6 DEF Begins

(* One action at a time: the file and the memory of its process stay in    *)
(* step.                                                                   *)
LEMMA AloneNext ==
    ASSUME FileTypes, PruneTruthful, [FileNext]_fileVars, apart', apart, Alone
    PROVE  Alone'
  <1>a. /\ file \in Seq(Lines) /\ torn \in BOOLEAN /\ issued \in 0..MaxLeaves
        /\ mem \in [Procs -> Seq(Issued) \cup {Closed}]
        /\ call \in [Procs -> Callings]
    BY DEF FileTypes
  <1>n. NoCall \in Callings /\ NoCall.at = "idle"
    BY <1>a, NoCallIs, FileLogAssumption
  <1>1. ASSUME NEW p \in Procs, Start(p) PROVE Alone'
    <2>1. /\ \A q \in Procs : ~Open(q)
          /\ mem' = [mem EXCEPT ![p] = LeavesOf(file)] /\ ~torn /\ UNCHANGED <<torn, file, call>>
      BY <1>1 DEF Start
    <2>2. call[p].at = "idle"
      BY <2>1, OpenIs
    <2>3. mem'[p] = LeavesOf(file) /\ \A q \in Procs \ {p} : mem'[q] = mem[q]
      BY <1>a, <2>1
    <2> QED BY <2>1, <2>2, <2>3 DEF Alone, Open, InFile
  <1>2. ASSUME NEW p \in Procs, Stop(p) \/ Tear(p) PROVE Alone'
    <2>1. /\ Open(p) /\ mem' = [mem EXCEPT ![p] = Closed] /\ file' = file
      BY <1>2 DEF Stop, Tear
    <2>2. mem'[p] = Closed /\ \A q \in Procs \ {p} : mem'[q] = mem[q]
      BY <1>a, <2>1
    <2>3. \A q \in Procs : ~Open(q)'
      BY <2>1, <2>2 DEF Alone, Open
    <2> QED BY <2>3 DEF Alone
  <1>3. ASSUME NEW p \in Procs, PushHash(p) \/ Unsigned(p) PROVE Alone'
    <2>1. /\ call[p].at = "written" /\ mem' = [mem EXCEPT ![p] = Append(mem[p], call[p].leaf)]
          /\ UNCHANGED <<file, torn>>
      BY <1>3 DEF PushHash, Unsigned
    <2>2. Open(p)
      BY <2>1, OpenIs
    <2>3. call'[p].at # "written" /\ \A q \in Procs \ {p} : call'[q] = call[q]
      BY <1>a, <1>3, <1>n DEF PushHash, Unsigned, Callings
    <2>4. mem'[p] = Append(mem[p], call[p].leaf) /\ \A q \in Procs \ {p} : mem'[q] = mem[q]
      BY <1>a, <2>1
    <2>5. InFile(p)' = InFile(p)
      BY <2>1, <2>3, <2>4 DEF InFile
    <2>6. ASSUME NEW q \in Procs, Open(q)' PROVE q = p
      BY <2>2, <2>4, <2>6 DEF Open, Alone
    <2>7. (LeavesOf(file) = InFile(p))'
      BY <2>1, <2>2, <2>5 DEF Alone
    <2> QED BY <2>1, <2>2, <2>6, <2>7 DEF Alone
  <1>4. ASSUME NEW p \in Procs, WriteBundle(p) PROVE Alone'
    <2>1. call[p].at = "answered" /\ call' = [call EXCEPT ![p] = NoCall] /\ UNCHANGED <<file, torn, mem>>
      BY <1>4 DEF WriteBundle
    <2>2. call'[p] = NoCall /\ \A q \in Procs \ {p} : call'[q] = call[q]
      BY <1>a, <2>1
    <2>3. \A q \in Procs : InFile(q)' = InFile(q)
      BY <1>n, <2>1, <2>2 DEF InFile
    <2> QED BY <2>1, <2>3 DEF Alone, Open
  <1>5. ASSUME NEW p \in Procs, NEW form \in {"text", "hash"}, Write(p, form) PROVE Alone'
    <2>1. Open(p) /\ ~torn /\ call[p].at = "idle"
      BY <1>5 DEF Write, Alone
    <2> DEFINE line == [leaf |-> issued', form |-> form]
    <2>2. /\ file' = Append(file, line) /\ UNCHANGED <<torn, mem>> /\ issued' = issued + 1
          /\ call' = [call EXCEPT ![p] = [at |-> "written", leaf |-> issued']]
      BY <1>5, <2>1 DEF Write
    <2>3. call'[p] = [at |-> "written", leaf |-> issued']
      BY <1>a, <2>2
    <2>4. LeavesOf(file') = Append(LeavesOf(file), issued')
      <3>1. Issued \subseteq Issued' /\ issued' \in Issued'
        BY <1>a, <2>2 DEF Issued
      <3>2. file \in Seq(Lines')
        <4>1. Lines \subseteq Lines'
          BY <3>1 DEF Lines
        <4> QED BY <1>a, <4>1, Wider
      <3>3. line \in Lines' /\ line.leaf = issued'
        BY <3>1 DEF Lines
      <3> HIDE DEF line
      <3> QED BY <2>2, <3>2, <3>3, LeafAppended
    <2>5. LeavesOf(file) = mem[p]
      BY <2>1 DEF Alone, InFile
    <2>6. InFile(p)' = Append(mem[p], issued')
      BY <2>2, <2>3 DEF InFile
    <2>7. \A q \in Procs : Open(q)' => q = p
      BY <2>1, <2>2 DEF Alone, Open
    <2> QED BY <2>1, <2>2, <2>4, <2>5, <2>6, <2>7 DEF Alone
  <1>6. CASE PruneRename
    <2>1. /\ prune.at # "none" /\ prune.read = file /\ file' = Rewritten(prune) /\ ~torn
          /\ torn' = FALSE /\ UNCHANGED <<mem, call>>
      BY <1>6 DEF PruneRename
    <2>2. LeavesOf(file') = LeavesOf(file)
      <3>1. PICK t : t = Rewritten(prune)
        OBVIOUS
      <3>2. /\ t \in Seq(Lines) /\ Len(t) = Len(file)
            /\ \A i \in 1..Len(file) : t[i].leaf = file[i].leaf
        BY <1>a, <2>1, <3>1, RewrittenIs
      <3>3. LeavesOf(file) = LeavesOf(t)
        BY <1>a, <3>2, LeavesKept
      <3> QED BY <2>1, <3>1, <3>3
    <2> QED BY <2>1, <2>2 DEF Alone, Open, InFile
  <1>7. CASE (\E l \in bundles : PruneBundle(l)) \/ UNCHANGED <<fileLogVars, apart>>
    <2>1. UNCHANGED <<file, torn, mem, call>>
      BY <1>7 DEF PruneBundle, fileLogVars
    <2> QED BY <2>1 DEF Alone, Open, InFile
  <1> QED BY <1>1, <1>2, <1>3, <1>4, <1>5, <1>6, <1>7, FileSteps

(* Only pushHash answers.                                                  *)
LEMMA AnswerMoves ==
    ASSUME FileTypes, [FileNext]_fileVars
    PROVE  \/ answers' = answers
           \/ \E p \in Procs : PushHash(p) /\ answers' = answers \cup {Answer(p)}
  BY FileSteps DEF Start, Stop, Tear, PushHash, Unsigned, WriteBundle, Write, PruneBundle, PruneRename, fileLogVars

(* What pushHash answers is of a tree that is then how the file begins;    *)
(* and the file only grows.                                                *)
LEMMA TreesNext ==
    ASSUME FileTypes, FileTypes', PruneTruthful, [FileNext]_fileVars, apart', apart,
           Alone, TreesStand, CopyTypes
    PROVE  TreesStand'
  <1>a. /\ Issued \subseteq Issued' /\ file \in Seq(Lines) /\ file' \in Seq(Lines')
        /\ Seq(Issued) \subseteq Seq(Issued')
    BY IssuedGrows, Wider DEF FileTypes
  <1>1. Begins(LeavesOf(file), LeavesOf(file'))
    BY LeavesGrow
  <1>2. LeavesOf(file) \in Seq(Nat) /\ LeavesOf(file') \in Seq(Nat)
    BY <1>a, LeavesNat DEF Lines, Issued
  <1>3. ASSUME NEW a \in answers PROVE Begins(a.tree, LeavesOf(file'))
    <2>1. a.tree \in Seq(Nat)
      <3>1. Issued \subseteq Nat
        BY DEF Issued
      <3> QED BY <3>1, Wider DEF CopyTypes
    <2> QED BY <1>1, <1>2, <2>1, BeginsOn DEF TreesStand
  <1>4. ASSUME NEW p \in Procs, PushHash(p) PROVE Begins(Answer(p).tree, LeavesOf(file'))
    <2>1. call[p].at = "written" /\ file' = file
      BY <1>4 DEF PushHash
    <2>2. Answer(p).tree = LeavesOf(file')
      BY <2>1, OpenIs DEF Answer, Alone, InFile
    <2> QED BY <1>2, <2>2, LenProperties DEF Begins
  <1> QED BY <1>3, <1>4, AnswerMoves DEF TreesStand

(* A page of the memory's leaves, from one leaf on and of room for so      *)
(* many.                                                                   *)
PageOfMemory(p, page, from, room) ==
    /\ page \in Seq(Issued) /\ (0 <= room => Len(page) <= room)
    /\ \A i \in 1..Len(page) : from + i \in 1..Len(mem[p]) /\ page[i] = mem[p][from + i]

(* leafHashes: a page is of the leaves asked for, in their place, and cut  *)
(* to what the head has left.                                              *)
LEMMA PageIs ==
    ASSUME FileTypes, NEW p \in Procs, Open(p), NEW from \in Nat, NEW room \in Int
    PROVE  PageOfMemory(p, CutToHead(PageOf(p, from), room), from, room)
  <1> DEFINE m == mem[p]
             most == Smaller(from + Page, Len(m))
             whole == PageOf(p, from)
             few == Smaller(room, Len(whole))
             page == CutToHead(whole, room)
  <1>1. m \in Seq(Issued) /\ Len(m) \in Nat /\ Page \in Nat
    BY OpenIs, LenProperties, FileLogAssumption
  <1>2. most \in Int /\ most <= Len(m)
    BY <1>1 DEF Smaller
  <1>3. whole = SubSeq(m, from + 1, most)
    BY DEF PageOf
  <1> HIDE DEF m, most, whole
  <1>4. \A i \in from + 1..most : m[i] \in Issued
    <2> SUFFICES ASSUME NEW i \in from + 1..most PROVE m[i] \in Issued
      OBVIOUS
    <2>1. i \in 1..Len(m)
      BY <1>1, <1>2
    <2> QED BY <1>1, <2>1, ElementOfSeq
  <1>5. /\ whole \in Seq(Issued)
        /\ Len(whole) = IF from + 1 <= most THEN most - (from + 1) + 1 ELSE 0
        /\ \A i \in 1..most - (from + 1) + 1 : whole[i] = m[(from + 1) + i - 1]
    BY <1>2, <1>3, <1>4, SubSeqProperties
  <1>6. Len(whole) \in Nat /\ few \in Int /\ few <= Len(whole) /\ few <= room
    BY <1>5, <1>2, LenProperties DEF Smaller
  <1>7. page = SubSeq(whole, 1, few)
    BY DEF CutToHead
  <1> HIDE DEF few, page
  <1>8. \A i \in 1..few : whole[i] \in Issued
    <2> SUFFICES ASSUME NEW i \in 1..few PROVE whole[i] \in Issued
      OBVIOUS
    <2>1. i \in 1..Len(whole)
      BY <1>6
    <2> QED BY <1>5, <2>1, ElementOfSeq
  <1>9. /\ page \in Seq(Issued)
        /\ Len(page) = IF 1 <= few THEN few - 1 + 1 ELSE 0
        /\ \A i \in 1..few - 1 + 1 : page[i] = whole[1 + i - 1]
    BY <1>6, <1>7, <1>8, SubSeqProperties
  <1>10. 0 <= room => Len(page) <= room
    BY <1>6, <1>9
  <1>11. ASSUME NEW i \in 1..Len(page) PROVE from + i \in 1..Len(m) /\ page[i] = m[from + i]
    <2>1. i \in 1..few - 1 + 1 /\ 1 + i - 1 = i /\ i \in 1..Len(whole)
      BY <1>6, <1>9
    <2>2. i \in 1..most - (from + 1) + 1 /\ (from + 1) + i - 1 = from + i /\ from + i \in 1..Len(m)
      BY <1>1, <1>2, <1>5, <2>1
    <2> QED BY <1>5, <1>9, <2>1, <2>2
  <1> QED BY <1>9, <1>10, <1>11 DEF PageOfMemory, page, whole, m

(* What changes an export.                                                 *)
LEMMA ExportMoves ==
    ASSUME [FileNext]_fileVars
    PROVE  \/ export' = export
           \/ export'.at \in {"none", "keys"} /\ export' \in [at : {"none", "keys"}, listed : BOOLEAN, head : {<<>>}, got : {<<>>}]
           \/ Rotate
           \/ \E p \in Procs : ExportHead(p) \/ ExportPage(p)
  <1>1. CASE \E p \in Procs : ExportKeys(p)
    BY <1>1 DEF ExportKeys, NoExport
  <1>2. CASE ExportStops
    BY <1>2 DEF ExportStops, NoExport
  <1>3. CASE \E p \in Procs : ExportHead(p) \/ ExportPage(p)
    BY <1>3
  <1>4. CASE Rotate
    BY <1>4
  <1>5. CASE export' = export
    BY <1>5
  <1>6. ASSUME FileNext,
               ~(\E p \in Procs : ExportKeys(p) \/ ExportHead(p) \/ ExportPage(p)), ~ExportStops, ~Rotate
        PROVE  export' = export
    BY <1>6 DEF FileNext, Start, Stop, Tear, PushHash, Unsigned, WriteBundle, Write, PruneRead, PruneBundle,
       PruneRename, PruneStops, ImportStart, ImportNext, ImportStops, copies, fileLogVars
  <1>7. CASE UNCHANGED fileVars
    BY <1>7 DEF fileVars, copies
  <1> QED BY <1>1, <1>2, <1>3, <1>4, <1>5, <1>6, <1>7

(* Every step keeps the types.                                             *)
LEMMA CopyTypesNext ==
    ASSUME FileTypes, FileTypes', CopyTypes, [FileNext]_fileVars
    PROVE  CopyTypes'
  <1>1. Issued \subseteq Issued' /\ Seq(Issued) \subseteq Seq(Issued')
    BY IssuedGrows, Wider
  <1>2. \A a \in answers' : a.tree \in Seq(Issued')
    <2>1. ASSUME NEW p \in Procs, PushHash(p) PROVE Answer(p).tree \in Seq(Issued)
      <3>1. mem[p] \in Seq(Issued) /\ call[p].leaf \in Issued
        BY <2>1 DEF PushHash, FileTypes
      <3> QED BY <3>1, AppendKeeps DEF Answer
    <2> QED BY <1>1, <2>1, AnswerMoves DEF CopyTypes
  <1> DEFINE E(S) == [at : {"none", "keys", "paging", "written"}, listed : BOOLEAN, head : Seq(S), got : Seq(S)]
  <1>a. export \in E(Issued) /\ <<>> \in Seq(Issued)
    BY EmptySeq DEF CopyTypes
  <1>3. export' \in E(Issued)
    <2>1. CASE Rotate
      BY <1>a, <2>1 DEF Rotate
    <2>2. ASSUME NEW p \in Procs, ExportHead(p) PROVE export' \in E(Issued)
      <3>1. mem[p] \in Seq(Issued)
        BY <2>2, OpenIs DEF ExportHead
      <3> QED BY <1>a, <2>2, <3>1 DEF ExportHead, NoExport
    <2>3. ASSUME NEW p \in Procs, ExportPage(p) PROVE export' \in E(Issued)
      <3> DEFINE from == Len(export.got)
                 page == CutToHead(PageOf(p, from), Len(export.head) - from)
                 got == export.got \o page
      <3>1. from \in Nat /\ Len(export.head) - from \in Int /\ Open(p) /\ export.got \in Seq(Issued)
        BY <1>a, <2>3, LenProperties DEF ExportPage
      <3>2. page \in Seq(Issued)
        <4>1. PageOfMemory(p, page, from, Len(export.head) - from)
          <5> HIDE DEF from
          <5> QED BY <3>1, PageIs DEF page
        <4> QED BY <4>1 DEF PageOfMemory
      <3>3. got \in Seq(Issued)
        BY <3>1, <3>2, ConcatProperties
      <3>4. \E at \in {export.at, "written"} : export' = [export EXCEPT !.got = got, !.at = at]
        BY <2>3 DEF ExportPage
      <3> HIDE DEF got
      <3> QED BY <1>a, <3>3, <3>4
    <2>4. CASE export' \in [at : {"none", "keys"}, listed : BOOLEAN, head : {<<>>}, got : {<<>>}]
      BY <1>a, <2>4
    <2> QED BY <1>a, <2>1, <2>2, <2>3, <2>4, ExportMoves
  <1>4. E(Issued) \subseteq E(Issued')
    BY <1>1
  <1> HIDE DEF E
  <1>5. export' \in E(Issued')
    BY <1>3, <1>4
  <1> QED BY <1>2, <1>5 DEF CopyTypes, E

(* The memory of the process that holds the file is how the file begins.   *)
LEMMA MemoryBegins ==
    ASSUME FileTypes, Alone, NEW p \in Procs, Open(p)
    PROVE  mem[p] \in Seq(Nat) /\ Begins(mem[p], LeavesOf(file))
  <1>1. mem[p] \in Seq(Issued) /\ Issued \subseteq Nat
    BY OpenIs DEF Issued
  <1>2. mem[p] \in Seq(Nat) /\ Len(mem[p]) \in Nat
    BY <1>1, Wider, LenProperties
  <1>3. CASE call[p].at = "written"
    <2>1. call[p].leaf \in Issued /\ LeavesOf(file) = Append(mem[p], call[p].leaf)
      BY <1>3 DEF FileTypes, Alone, InFile
    <2>2. /\ Len(Append(mem[p], call[p].leaf)) = Len(mem[p]) + 1
          /\ \A k \in 1..Len(mem[p]) : Append(mem[p], call[p].leaf)[k] = mem[p][k]
      BY <1>1, <2>1, AppendKeeps
    <2>3. Len(mem[p]) <= Len(LeavesOf(file)) /\ \A k \in 1..Len(mem[p]) : mem[p][k] = LeavesOf(file)[k]
      BY <1>2, <2>1, <2>2
    <2> QED BY <1>2, <2>3 DEF Begins
  <1>4. CASE call[p].at # "written"
    BY <1>2, <1>4 DEF Alone, InFile, Begins
  <1> QED BY <1>3, <1>4

(* A head is of the memory, and pages follow each other without a gap      *)
(* although the file grows between them, is pruned, or is opened by        *)
(* another process after the first has left.                               *)
LEMMA ExportNext ==
    ASSUME FileTypes, FileTypes', PruneTruthful, CopyTypes, [FileNext]_fileVars, apart', apart, Alone, ExportStands
    PROVE  ExportStands'
  <1>a. /\ export.head \in Seq(Nat) /\ export.got \in Seq(Nat)
        /\ Len(export.head) \in Nat /\ Len(export.got) \in Nat
    <2>1. Issued \subseteq Nat /\ export.head \in Seq(Issued) /\ export.got \in Seq(Issued)
      BY DEF Issued, CopyTypes
    <2> QED BY <2>1, Wider, LenProperties
  <1>b. /\ LeavesOf(file) \in Seq(Nat) /\ LeavesOf(file') \in Seq(Nat) /\ Begins(LeavesOf(file), LeavesOf(file'))
    <2>1. file \in Seq(Lines) /\ file' \in Seq(Lines')
      BY DEF FileTypes
    <2> QED BY <2>1, LeavesNat, LeavesGrow DEF Lines, Issued
  <1>1. CASE export'.at = export.at /\ export'.head = export.head /\ export'.got = export.got
    <2>1. Begins(export.head, LeavesOf(file)) => Begins(export.head, LeavesOf(file'))
      BY <1>a, <1>b, BeginsOn
    <2> QED BY <1>1, <2>1 DEF ExportStands
  <1>2. CASE Rotate
    <2>1. export'.at = export.at /\ export'.head = export.head /\ export'.got = export.got
      BY <1>2 DEF Rotate, CopyTypes
    <2> QED BY <1>1, <2>1
  <1>3. CASE export'.at \in {"none", "keys"}
    BY <1>3 DEF ExportStands
  <1>4. ASSUME NEW p \in Procs, ExportHead(p) PROVE ExportStands'
    <2>1. file' = file /\ Open(p)
      BY <1>4 DEF ExportHead, exportVars, fileLogVars
    <2>2. CASE export' = NoExport
      <3>1. export'.at = "none"
        BY <2>2 DEF NoExport
      <3> QED BY <1>3, <3>1
    <2>3. CASE export' = [at |-> "paging", listed |-> FALSE, head |-> mem[p], got |-> <<>>]
      <3>1. export'.at = "paging" /\ export'.head = mem[p] /\ export'.got = <<>>
        BY <2>3
      <3>2. mem[p] \in Seq(Nat) /\ Begins(mem[p], LeavesOf(file'))
        BY <2>1, MemoryBegins
      <3>3. Begins(<<>>, mem[p])
        BY <3>2, LenProperties DEF Begins
      <3> QED BY <3>1, <3>2, <3>3 DEF ExportStands
    <2> QED BY <1>4, <2>2, <2>3 DEF ExportHead
  <1>5. ASSUME NEW p \in Procs, ExportPage(p) PROVE ExportStands'
    <2> DEFINE from == Len(export.got)
               room == Len(export.head) - from
               page == CutToHead(PageOf(p, from), room)
               got == export.got \o page
               m == mem[p]
    <2>1. /\ Open(p) /\ export.at = "paging" /\ file' = file
          /\ \E at \in {export.at, "written"} :
                /\ export' = [export EXCEPT !.got = got, !.at = at]
                /\ at = "written" => ~(Len(got) < Len(export.head))
      BY <1>5 DEF ExportPage, exportVars, fileLogVars
    <2>2. Begins(export.got, export.head) /\ Begins(export.head, LeavesOf(file))
      BY <2>1 DEF ExportStands
    <2>3. room \in Nat
      BY <1>a, <2>2 DEF Begins
    <2>4. m \in Seq(Nat) /\ Begins(m, LeavesOf(file))
      BY <2>1, MemoryBegins
    <2>5. /\ page \in Seq(Issued) /\ Len(page) <= room
          /\ \A i \in 1..Len(page) : from + i \in 1..Len(m) /\ page[i] = m[from + i]
      <3> HIDE DEF from, room
      <3>1. PICK f \in Nat : f = from
        BY <1>a DEF from
      <3>2. PICK r \in Int : r = room /\ 0 <= r
        BY <2>3
      <3>3. PageOfMemory(p, CutToHead(PageOf(p, f), r), f, r)
        BY <2>1, PageIs
      <3> QED BY <3>1, <3>2, <3>3 DEF PageOfMemory, from, room
    <2>6. page \in Seq(Nat)
      <3>1. Issued \subseteq Nat
        BY DEF Issued
      <3> QED BY <2>5, <3>1, Wider
    <2> HIDE DEF page, m
    <2>7. /\ got \in Seq(Nat) /\ Len(got) = from + Len(page) /\ Len(page) \in Nat
          /\ \A i \in 1..from + Len(page) : got[i] = IF i <= from THEN export.got[i] ELSE page[i - from]
      BY <1>a, <2>6, ConcatProperties, LenProperties
    <2>8. Len(got) <= Len(export.head)
      BY <1>a, <2>3, <2>5, <2>7
    <2> HIDE DEF got
    <2>9. ASSUME NEW i \in 1..Len(got) PROVE got[i] = export.head[i]
      <3>1. i \in 1..Len(export.head)
        BY <1>a, <2>7, <2>8
      <3>2. CASE i <= from
        BY <1>a, <2>2, <2>7, <3>1, <3>2 DEF Begins
      <3>3. CASE i > from
        <4>1. i - from \in 1..Len(page) /\ from + (i - from) = i
          BY <1>a, <2>7, <3>3
        <4>2. i \in 1..Len(m) /\ page[i - from] = m[i]
          BY <2>5, <4>1
        <4>3. m[i] = LeavesOf(file)[i] /\ export.head[i] = LeavesOf(file)[i]
          BY <2>2, <2>4, <3>1, <4>2 DEF Begins
        <4>4. got[i] = page[i - from]
          BY <1>a, <2>7, <3>3
        <4> QED BY <4>2, <4>3, <4>4
      <3> QED BY <1>a, <3>2, <3>3
    <2>10. Begins(got, export.head)
      BY <2>8, <2>9 DEF Begins
    <2>11. PICK at \in {export.at, "written"} :
              /\ export' = [export EXCEPT !.got = got, !.at = at]
              /\ at = "written" => ~(Len(got) < Len(export.head))
      BY <2>1
    <2>12. export'.got = got /\ export'.head = export.head /\ export'.at = at
      BY <2>11 DEF CopyTypes
    <2>13. export'.at = "written" => Len(got) = Len(export.head)
      <3>1. Len(got) \in Nat
        BY <2>7, LenProperties
      <3> QED BY <1>a, <2>8, <2>11, <2>12, <3>1
    <2> QED BY <2>1, <2>2, <2>10, <2>12, <2>13 DEF ExportStands
  <1>6. CASE export' = export
    BY <1>1, <1>6
  <1> QED BY <1>2, <1>3, <1>4, <1>5, <1>6, ExportMoves

(* Every reachable state has both invariants.                              *)
LEMMA RootInvariant == FileSpec => [](FileInv /\ RootInv)
  <1>1. FileInit => RootInv
    <2> SUFFICES ASSUME FileInit PROVE RootInv
      OBVIOUS
    <2>1. CopyTypes
      BY EmptySeq DEF FileInit, NoExport, CopyTypes
    <2>2. Alone /\ TreesStand /\ ExportStands
      BY DEF FileInit, NoExport, Alone, Open, TreesStand, ExportStands
    <2> QED BY <2>1, <2>2 DEF RootInv
  <1>2. FileInv /\ FileInv' /\ RootInv /\ [FileNext]_fileVars => RootInv'
    <2> SUFFICES ASSUME FileInv, FileInv', RootInv, [FileNext]_fileVars PROVE RootInv'
      OBVIOUS
    <2>1. FileTypes /\ FileTypes' /\ PruneTruthful /\ CopyTypes
      BY DEF FileInv, RootInv
    <2>2. CopyTypes'
      BY <2>1, CopyTypesNext
    <2>3. ASSUME apart' PROVE Alone' /\ TreesStand' /\ ExportStands'
      <3>1. apart /\ Alone /\ TreesStand /\ ExportStands
        BY <2>1, <2>3, LeavesGrow DEF RootInv
      <3> QED BY <2>1, <2>3, <3>1, AloneNext, TreesNext, ExportNext
    <2> QED BY <2>2, <2>3 DEF RootInv
  <1> QED BY <1>1, <1>2, FileInvariant, PTL DEF FileSpec

(* Hashes, leaf by leaf.                                                   *)
LEMMA HashesAre ==
    ASSUME NEW s \in Seq(Nat)
    PROVE  Len(Hashes(s)) = Len(s) /\ \A i \in 1..Len(s) : Hashes(s)[i] = LeafHash(s[i])
  <1>1. DOMAIN s = 1..Len(s) /\ Len(s) \in Nat
    BY LenProperties
  <1>2. Hashes(s) = [i \in 1..Len(s) |-> LeafHash(s[i])]
    BY <1>1 DEF Hashes
  <1> DEFINE A == {LeafHash(s[i]) : i \in 1..Len(s)}
  <1>a. \A i \in 1..Len(s) : LeafHash(s[i]) \in A
    OBVIOUS
  <1> HIDE DEF A
  <1>3. Hashes(s) \in [1..Len(s) -> A] /\ DOMAIN Hashes(s) = 1..Len(s)
    BY <1>2, <1>a
  <1>4. Hashes(s) \in Seq(A)
    BY <1>1, <1>3, SeqDef
  <1> QED BY <1>1, <1>2, <1>3, <1>4, LenProperties

(* A copy that begins with a receipt's tree gives its root.                *)
LEMMA CopyIsTheRoot ==
    ASSUME NEW s \in Seq(Nat), NEW t \in Seq(Nat), Begins(s, t)
    PROVE  Mth(Hashes(t), 0, Len(s)) = HeadOf(s).root
  <1>1. /\ Len(s) \in Nat /\ Len(t) \in Nat /\ Len(s) <= Len(t) /\ \A i \in 1..Len(s) : s[i] = t[i] /\ i \in 1..Len(t)
        /\ DOMAIN s = 1..Len(s) /\ DOMAIN t = 1..Len(t)
    BY LenProperties DEF Begins
  <1> DEFINE a == Hashes(s)
             b == Hashes(t)
  <1>2. /\ Len(a) = Len(s) /\ Len(b) = Len(t)
        /\ \A i \in 1..Len(s) : a[i] = LeafHash(s[i])
        /\ \A i \in 1..Len(t) : b[i] = LeafHash(t[i])
    BY HashesAre
  <1> HIDE DEF a, b
  <1>3. \A i \in 1..Len(s) : a[i] = b[i]
    BY <1>1, <1>2
  <1>4. Mth(a, 0, Len(s)) = Mth(b, 0, Len(s))
    BY <1>1, <1>2, <1>3, SameRoot
  <1> QED BY <1>2, <1>4 DEF HeadOf, Root, a, b

(* What RootsKept says of a state.                                         *)
RootsHere ==
    /\ \A a \in answers : HasTheRoot(file, a)
    /\ export.at = "written" =>
          /\ WebRootOf(Hashes(export.got), Len(export.head)) = HeadOf(export.head).root
          /\ \A a \in answers : Len(a.tree) <= Len(export.head) =>
                WebRootOf(Hashes(export.got), Len(a.tree)) = HeadOf(a.tree).root

(* The invariants say it.                                                  *)
LEMMA RootsAreHere == FileInv /\ RootInv => (apart => RootsHere)
  <1> SUFFICES ASSUME FileInv, RootInv, apart PROVE RootsHere
    OBVIOUS
  <1>1. FileTypes /\ CopyTypes /\ Alone /\ TreesStand /\ ExportStands
    BY DEF FileInv, RootInv
  <1> DEFINE L == LeavesOf(file)
  <1>2. L \in Seq(Nat) /\ Len(L) = Len(file)
    <2>1. file \in Seq(Lines)
      BY <1>1 DEF FileTypes
    <2> QED BY <2>1, LeavesAre, LeavesNat DEF Lines, Issued
  <1>3. /\ \A a \in answers : a.tree \in Seq(Nat)
        /\ export.head \in Seq(Nat) /\ export.got \in Seq(Nat)
    <2>1. Issued \subseteq Nat
      BY DEF Issued
    <2> QED BY <1>1, <2>1, Wider DEF CopyTypes
  <1> HIDE DEF L
  <1>4. \A a \in answers : Begins(a.tree, L)
    BY <1>1 DEF TreesStand, L
  <1>5. ASSUME NEW a \in answers PROVE HasTheRoot(file, a)
    <2>1. Len(a.tree) <= Len(file)
      BY <1>2, <1>4 DEF Begins
    <2>2. Mth(Hashes(L), 0, Len(a.tree)) = HeadOf(a.tree).root
      BY <1>2, <1>3, <1>4, CopyIsTheRoot
    <2> QED BY <2>1, <2>2 DEF HasTheRoot, RootFromFile, L
  <1>6. ASSUME export.at = "written"
        PROVE  /\ WebRootOf(Hashes(export.got), Len(export.head)) = HeadOf(export.head).root
               /\ \A a \in answers : Len(a.tree) <= Len(export.head) =>
                     WebRootOf(Hashes(export.got), Len(a.tree)) = HeadOf(a.tree).root
    <2>1. PICK h \in Seq(Nat) : h = export.head
      BY <1>3
    <2>2. PICK g \in Seq(Nat) : g = export.got
      BY <1>3
    <2>3. Begins(h, L) /\ Begins(g, h) /\ Len(g) = Len(h) /\ Len(h) \in Nat /\ Len(L) \in Nat
      BY <1>1, <1>2, <1>6, <2>1, <2>2, LenProperties DEF ExportStands, L
    <2>4. Begins(h, g)
      BY <2>3 DEF Begins
    <2>5. ASSUME NEW a \in answers, Len(a.tree) <= Len(h) PROVE Begins(a.tree, g)
      <3>1. Len(a.tree) \in Nat /\ Len(a.tree) <= Len(g) /\ Begins(a.tree, L)
        BY <1>3, <1>4, <2>3, <2>5, LenProperties
      <3>2. ASSUME NEW i \in 1..Len(a.tree) PROVE a.tree[i] = g[i]
        <4>1. i \in 1..Len(h) /\ i \in 1..Len(g)
          BY <2>3, <3>1
        <4>2. a.tree[i] = L[i] /\ h[i] = L[i] /\ g[i] = h[i]
          BY <2>3, <3>1, <4>1 DEF Begins
        <4> QED BY <4>2
      <3> QED BY <3>1, <3>2 DEF Begins
    <2>6. Mth(Hashes(g), 0, Len(h)) = HeadOf(h).root
      BY <2>4, CopyIsTheRoot
    <2>7. ASSUME NEW a \in answers, Len(a.tree) <= Len(h) PROVE Mth(Hashes(g), 0, Len(a.tree)) = HeadOf(a.tree).root
      BY <1>3, <2>5, <2>7, CopyIsTheRoot
    <2> QED BY <2>1, <2>2, <2>6, <2>7 DEF WebRootOf
  <1> QED BY <1>5, <1>6 DEF RootsHere

(* A log taken elsewhere has the roots that were signed (MerkleLog,        *)
(* pruneLog, exportTenantLog): while nobody meets on the file, a copy of   *)
(* it gives the root of every receipt, and an export the root of its head  *)
(* and of every checkpoint, whatever was pruned, stopped or appended in    *)
(* between.                                                                *)
THEOREM CopiesHaveTheRoots == FileSpec => RootsKept
  <1>1. FileInv /\ (apart => RootsHere)' /\ [FileNext]_fileVars => [CopyHasTheRoots /\ ExportAddsUp]_fileVars
    <2> SUFFICES ASSUME FileInv, (apart => RootsHere)', [FileNext]_fileVars
                 PROVE  CopyHasTheRoots /\ ExportAddsUp
      OBVIOUS
    <2>1. CopyHasTheRoots
      BY DEF CopyHasTheRoots, RootsHere, HasTheRoot, RootFromFile
    <2>2. answers \subseteq answers'
      BY AnswerMoves DEF FileInv
    <2>3. ASSUME apart', export'.at = "written"
          PROVE  /\ WebRootOf(Hashes(export'.got), Len(export'.head)) = HeadOf(export'.head).root
                 /\ CheckpointProblems(export'.got, export'.head) = {}
      <3>1. /\ WebRootOf(Hashes(export'.got), Len(export'.head)) = HeadOf(export'.head).root
            /\ \A a \in answers' : Len(a.tree) <= Len(export'.head) =>
                  WebRootOf(Hashes(export'.got), Len(a.tree)) = HeadOf(a.tree).root
        BY <2>3 DEF RootsHere
      <3>2. \A tree \in Checkpoints : Len(tree) <= Len(export'.head) =>
               WebRootOf(Hashes(export'.got), Len(tree)) = HeadOf(tree).root
        BY <2>2, <3>1 DEF Checkpoints
      <3> QED BY <3>1, <3>2 DEF CheckpointProblems
    <2> QED BY <2>1, <2>3 DEF ExportAddsUp
  <1> QED BY <1>1, RootInvariant, RootsAreHere, PTL DEF RootsKept, FileSpec

-------------------------------------------------------------------------------
(* What a root says of the leaves under it.                                *)

(* Entry, by the number of leaves.                                         *)
LEMMA EntryIs ==
    \A s, h, lo : \A n \in Nat :
        /\ n = 0 => Entry(s, n, h, lo) = Empty
        /\ n = 1 => Entry(s, n, h, lo) = s[lo + 1]
        /\ n > 1 => Entry(s, n, h, lo) = NodeHash(h[Split(n)][lo], h[n - Split(n)][lo + Split(n)])
  BY DEF Entry

(* Equal hashes are of equal ranges.                                       *)
SameRanges(s, t) ==
    \A a \in 0..Len(s), b \in 0..Len(t) : \A u \in 0..Len(s) - a, v \in 0..Len(t) - b :
        Hashed(s)[a][u] = Hashed(t)[b][v] => a = b /\ \A i \in 1..a : s[u + i] = t[v + i]

(* Two ranges of leaves under one hash are of the same leaves, wherever    *)
(* they are.                                                               *)
LEMMA SameLeaves ==
    ASSUME NEW s, NEW t, Len(s) \in Nat, Len(t) \in Nat,
           \A i \in 1..Len(s) : \E x : s[i] = LeafHash(x),
           \A i \in 1..Len(t) : \E x : t[i] = LeafHash(x)
    PROVE  SameRanges(s, t)
  <1> DEFINE g == Hashed(s)
             h == Hashed(t)
             Fixed(n, lo, m, l) == g[n][lo] = h[m][l] => n = m /\ \A i \in 1..n : s[lo + i] = t[l + i]
             Fixes(n) == \A lo \in 0..Len(s) - n, m \in 0..Len(t) : \A l \in 0..Len(t) - m : Fixed(n, lo, m, l)
             S == {n \in Nat : n <= Len(s) => \A k \in 0..n : Fixes(k)}
  <1>1. ASSUME NEW n \in 0..Len(s), \A k \in 1..n - 1 : Fixes(k) PROVE Fixes(n)
    <2> SUFFICES ASSUME NEW lo \in 0..Len(s) - n, NEW m \in 0..Len(t), NEW l \in 0..Len(t) - m,
                        g[n][lo] = h[m][l]
                 PROVE  n = m /\ \A i \in 1..n : s[lo + i] = t[l + i]
      OBVIOUS
    <2>1. Entry(s, n, g, lo) = Entry(t, m, h, l)
      BY SubtreeIs
    <2>a. \A k \in 1..n - 1 : Fixes(k)
      BY <1>1
    <2> HIDE DEF g, h, Fixes
    <2>2. /\ n = 0 => Entry(s, n, g, lo) = Empty
          /\ m = 0 => Entry(t, m, h, l) = Empty
          /\ n = 1 => Entry(s, n, g, lo) = s[lo + 1] /\ \E x : s[lo + 1] = LeafHash(x)
          /\ m = 1 => Entry(t, m, h, l) = t[l + 1] /\ \E x : t[l + 1] = LeafHash(x)
      <3>1. (n = 1 => lo + 1 \in 1..Len(s)) /\ (m = 1 => l + 1 \in 1..Len(t))
        OBVIOUS
      <3> QED BY <3>1, EntryIs
    <2>3. /\ n > 1 => Entry(s, n, g, lo) = NodeHash(g[Split(n)][lo], g[n - Split(n)][lo + Split(n)])
          /\ m > 1 => Entry(t, m, h, l) = NodeHash(h[Split(m)][l], h[m - Split(m)][l + Split(m)])
      BY EntryIs
    <2>4. CASE n = 0
      <3>1. ~(m = 1) /\ ~(m > 1)
        BY <2>1, <2>2, <2>3, <2>4, HashesDiffer
      <3> QED BY <2>4, <3>1
    <2>5. CASE n = 1
      <3>1. m = 1
        BY <2>1, <2>2, <2>3, <2>5, HashesDiffer
      <3>2. s[lo + 1] = t[l + 1]
        BY <2>1, <2>2, <2>5, <3>1
      <3>3. \A i \in 1..n : i = 1
        BY <2>5
      <3> QED BY <2>5, <3>1, <3>2, <3>3
    <2>6. CASE n > 1
      <3>1. m > 1
        BY <2>1, <2>2, <2>3, <2>6, HashesDiffer
      <3>2. PICK k \in 1..n - 1 : k = Split(n)
        BY <2>6, SplitIs
      <3>3. PICK j \in 1..m - 1 : j = Split(m)
        BY <3>1, SplitIs
      <3>4. g[k][lo] = h[j][l] /\ g[n - k][lo + k] = h[m - j][l + j]
        BY <2>1, <2>3, <2>6, <3>1, <3>2, <3>3, HashesDiffer
      <3>5. k = j /\ \A i \in 1..k : s[lo + i] = t[l + i]
        <4>1. Fixes(k)
          BY <2>a
        <4>2. lo \in 0..Len(s) - k /\ j \in 0..Len(t) /\ l \in 0..Len(t) - j
          OBVIOUS
        <4> QED BY <3>4, <4>1, <4>2 DEF Fixes
      <3>6. n - k = m - j /\ \A i \in 1..n - k : s[(lo + k) + i] = t[(l + j) + i]
        <4>1. Fixes(n - k)
          <5>1. n - k \in 1..n - 1
            OBVIOUS
          <5> QED BY <2>a, <5>1
        <4>2. /\ n - k \in Nat /\ lo + k \in 0..Len(s) - (n - k)
              /\ m - j \in 0..Len(t) /\ l + j \in 0..Len(t) - (m - j)
          OBVIOUS
        <4> QED BY <3>4, <4>1, <4>2 DEF Fixes
      <3>7. ASSUME NEW i \in 1..n PROVE s[lo + i] = t[l + i]
        <4>1. CASE i <= k
          BY <3>5, <4>1
        <4>2. CASE i > k
          <5>1. k = j
            BY <3>5
          <5>2. i - k \in 1..n - k /\ (lo + k) + (i - k) = lo + i /\ (l + k) + (i - k) = l + i
            BY <4>2
          <5> QED BY <3>6, <5>1, <5>2
        <4> QED BY <4>1, <4>2
      <3> QED BY <3>5, <3>6, <3>7
    <2> QED BY <2>4, <2>5, <2>6
  <1> HIDE DEF Fixes
  <1>2. 0 \in S
    BY <1>1
  <1>3. ASSUME NEW n \in Nat, n \in S PROVE n + 1 \in S
    <2> SUFFICES ASSUME n + 1 <= Len(s) PROVE \A k \in 0..n + 1 : Fixes(k)
      OBVIOUS
    <2>1. \A k \in 0..n : Fixes(k)
      BY <1>3
    <2>2. Fixes(n + 1)
      BY <1>1, <2>1
    <2>3. \A k \in 0..n + 1 : k \in 0..n \/ k = n + 1
      OBVIOUS
    <2> QED BY <2>1, <2>2, <2>3
  <1>4. Len(s) \in S
    <2> HIDE DEF S
    <2> QED BY <1>2, <1>3, UpFromZero
  <1>5. \A k \in 0..Len(s) : Fixes(k)
    <2> HIDE DEF Fixes
    <2> QED BY <1>4
  <1> HIDE DEF g, h
  <1> SUFFICES ASSUME NEW a \in 0..Len(s), NEW b \in 0..Len(t), NEW u \in 0..Len(s) - a, NEW v \in 0..Len(t) - b,
                      g[a][u] = h[b][v]
               PROVE  a = b /\ \A i \in 1..a : s[u + i] = t[v + i]
    BY DEF g, h, SameRanges
  <1>6. Fixes(a)
    <2> HIDE DEF Fixes
    <2> QED BY <1>5
  <1> QED BY <1>6 DEF Fixes

(* A root commits to every leaf and to their number: two logs with the     *)
(* same root are the same log (leafHash, nodeHash, mth), which is what a   *)
(* signed head of a root is worth.                                         *)
THEOREM RootsCommit ==
    \A s, t \in Seq(Nat) : HeadOf(s).root = HeadOf(t).root => s = t
  <1> SUFFICES ASSUME NEW s \in Seq(Nat), NEW t \in Seq(Nat), HeadOf(s).root = HeadOf(t).root PROVE s = t
    OBVIOUS
  <1> DEFINE a == Hashes(s)
             b == Hashes(t)
  <1>1. Root(a) = Root(b)
    BY DEF HeadOf
  <1>2. /\ Len(a) = Len(s) /\ Len(b) = Len(t) /\ Len(s) \in Nat /\ Len(t) \in Nat
        /\ \A i \in 1..Len(s) : a[i] = LeafHash(s[i])
        /\ \A i \in 1..Len(t) : b[i] = LeafHash(t[i])
    BY HashesAre, LenProperties
  <1> HIDE DEF a, b
  <1>3. Len(a) = Len(b) /\ \A i \in 1..Len(a) : a[i] = b[i]
    <2>1. Len(a) \in Nat /\ Len(b) \in Nat
      BY <1>2
    <2>2. /\ \A i \in 1..Len(a) : \E x : a[i] = LeafHash(x)
          /\ \A i \in 1..Len(b) : \E x : b[i] = LeafHash(x)
      BY <1>2
    <2>3. Hashed(a)[Len(a)][0] = Hashed(b)[Len(b)][0]
      <3>1. Len(a) - 0 = Len(a) /\ Len(b) - 0 = Len(b)
        BY <2>1
      <3> QED BY <1>1, <3>1 DEF Root, Mth
    <2>4. Len(a) = Len(b) /\ \A i \in 1..Len(a) : a[0 + i] = b[0 + i]
      <3>1. Len(a) \in 0..Len(a) /\ Len(b) \in 0..Len(b) /\ 0 \in 0..Len(a) - Len(a) /\ 0 \in 0..Len(b) - Len(b)
        BY <2>1
      <3>2. SameRanges(a, b)
        BY <2>1, <2>2, SameLeaves
      <3>3. \A u \in 0..Len(a) - Len(a), v \in 0..Len(b) - Len(b) :
               Hashed(a)[Len(a)][u] = Hashed(b)[Len(b)][v] =>
                   Len(a) = Len(b) /\ \A i \in 1..Len(a) : a[u + i] = b[v + i]
        BY Zenon, <3>1, <3>2 DEF SameRanges
      <3> QED BY Zenon, <2>3, <3>1, <3>3
    <2> QED BY <2>1, <2>4
  <1>4. \A i \in 1..Len(s) : s[i] = t[i]
    BY <1>2, <1>3, HashesDiffer
  <1> QED BY <1>2, <1>3, <1>4, SeqEqual

-------------------------------------------------------------------------------
(* The proofs a file log gives: ProofsHold.                                *)

(* No leaf twice.                                                          *)
AllDifferent(s) == \A i, j \in 1..Len(s) : s[i] = s[j] => i = j

(* Two sequences with one entry more are one exactly when they were and    *)
(* the entries are.                                                        *)
LEMMA LastTold ==
    ASSUME NEW q, NEW r, IsList(q), IsList(r), NEW x, NEW y, Append(q, x) = Append(r, y)
    PROVE  q = r /\ x = y
  <1>1. /\ Len(Append(q, x)) = Len(q) + 1 /\ Append(q, x)[Len(q) + 1] = x
        /\ \A i \in 1..Len(q) : Append(q, x)[i] = q[i]
    BY AppendToList
  <1>2. /\ Len(Append(r, y)) = Len(r) + 1 /\ Append(r, y)[Len(r) + 1] = y
        /\ \A i \in 1..Len(r) : Append(r, y)[i] = r[i]
    BY AppendToList
  <1>3. Len(q) \in Nat /\ Len(r) \in Nat
    BY ListIs
  <1>4. Len(q) = Len(r)
    BY <1>1, <1>2, <1>3
  <1>5. \A i \in 1..Len(q) : q[i] = r[i]
    BY <1>1, <1>2, <1>4
  <1> QED BY <1>1, <1>2, <1>4, <1>5, SameList

(* Where no leaf is twice, two halves have two hashes.                     *)
LEMMA HalvesDiffer ==
    ASSUME NEW s, Len(s) \in Nat, SameRanges(s, s), AllDifferent(s),
           NEW n \in Nat, NEW lo \in Nat, lo + n <= Len(s), NEW k \in 1..n - 1
    PROVE  Mth(s, lo + k, lo + n) # Mth(s, lo, lo + k)
  <1> SUFFICES ASSUME Mth(s, lo + k, lo + n) = Mth(s, lo, lo + k) PROVE FALSE
    OBVIOUS
  <1>1. PICK m \in Nat : m = n - k
    OBVIOUS
  <1>2. PICK l \in Nat : l = lo + k
    OBVIOUS
  <1>3. /\ m \in 0..Len(s) /\ k \in 0..Len(s) /\ l \in 0..Len(s) - m /\ lo \in 0..Len(s) - k
        /\ lo + n - (lo + k) = m /\ lo + k - lo = k
    BY <1>1, <1>2
  <1>a. Hashed(s)[m][l] = Hashed(s)[k][lo]
    BY <1>2, <1>3 DEF Mth
  <1>b. \A i \in 1..m : s[l + i] = s[lo + i]
    <2>1. \A u \in 0..Len(s) - m, v \in 0..Len(s) - k :
              Hashed(s)[m][u] = Hashed(s)[k][v] => m = k /\ \A i \in 1..m : s[u + i] = s[v + i]
      BY Zenon, <1>3 DEF SameRanges
    <2> QED BY Zenon, <1>3, <1>a, <2>1
  <1>4. \A i \in 1..n - k : s[(lo + k) + i] = s[lo + i]
    BY <1>1, <1>2, <1>b
  <1>5. s[(lo + k) + 1] = s[lo + 1]
    BY <1>4
  <1>6. (lo + k) + 1 \in 1..Len(s) /\ lo + 1 \in 1..Len(s) /\ (lo + k) + 1 # lo + 1
    OBVIOUS
  <1> QED BY <1>5, <1>6 DEF AllDifferent

(* Where no leaf is twice, two leaves have two paths: where they part, one *)
(* has the hash of the left half and the other that of the right.          *)
LEMMA PathsDiffer ==
    ASSUME NEW s, Len(s) \in Nat, SameRanges(s, s), AllDifferent(s),
           NEW a \in 0..Len(s) - 1, NEW b \in 0..Len(s) - 1, Path(s, a) = Path(s, b)
    PROVE  a = b
  <1>1. PICK p : PathsTo(s, a, Len(s), p) /\ Path(s, a) = p[Len(s)][0]
    BY PathIs
  <1>2. PICK q : PathsTo(s, b, Len(s), q) /\ Path(s, b) = q[Len(s)][0]
    BY PathIs
  <1>3. \A n \in 0..Len(s) : \A lo \in 0..Len(s) - n : p[n][lo] = PathEntry(s, a, n, p, lo) /\ IsList(p[n][lo])
    BY <1>1, PathsAreLists
  <1>4. \A n \in 0..Len(s) : \A lo \in 0..Len(s) - n : q[n][lo] = PathEntry(s, b, n, q, lo) /\ IsList(q[n][lo])
    BY <1>2, PathsAreLists
  <1> DEFINE Fixes(n) == \A lo \in Nat :
                 lo + n <= Len(s) /\ a \in lo..lo + n - 1 /\ b \in lo..lo + n - 1 /\ p[n][lo] = q[n][lo] => a = b
             S == {n \in Nat : Fixes(n)}
  <1>5. ASSUME NEW n \in Nat, \A i \in 0..n - 1 : i \in S PROVE n \in S
    <2> SUFFICES ASSUME NEW lo \in Nat, lo + n <= Len(s), a \in lo..lo + n - 1, b \in lo..lo + n - 1,
                        p[n][lo] = q[n][lo]
                 PROVE  a = b
      OBVIOUS
    <2>1. n \in 0..Len(s) /\ lo \in 0..Len(s) - n
      OBVIOUS
    <2>2. PathEntry(s, a, n, p, lo) = PathEntry(s, b, n, q, lo)
      BY <1>3, <1>4, <2>1
    <2>3. CASE n <= 1
      BY <2>3
    <2>4. CASE n > 1
      <3>1. PICK k \in 1..n - 1 : k = Split(n)
        BY <2>4, SplitIs
      <3>0. PICK m \in Nat : m = n - k
        OBVIOUS
      <3>a. PICK l \in Nat : l = lo + k
        OBVIOUS
      <3> DEFINE right == Mth(s, lo + k, lo + n)
                 left  == Mth(s, lo, lo + k)
      <3>2. /\ a < lo + k => PathEntry(s, a, n, p, lo) = Append(p[k][lo], right)
            /\ ~(a < lo + k) => PathEntry(s, a, n, p, lo) = Append(p[m][l], left)
            /\ b < lo + k => PathEntry(s, b, n, q, lo) = Append(q[k][lo], right)
            /\ ~(b < lo + k) => PathEntry(s, b, n, q, lo) = Append(q[m][l], left)
        <4>1. ~(n <= 1) /\ Split(n) = k
          BY <2>4, <3>1
        <4> QED BY <3>0, <3>a, <4>1 DEF PathEntry
      <3>3. right # left
        BY HalvesDiffer
      <3>4. /\ IsList(p[k][lo]) /\ IsList(q[k][lo])
            /\ IsList(p[m][l]) /\ IsList(q[m][l])
        <4>1. /\ k \in 0..Len(s) /\ lo \in 0..Len(s) - k
              /\ m \in 0..Len(s) /\ l \in 0..Len(s) - m
          BY <3>0, <3>a
        <4> QED BY <1>3, <1>4, <4>1
      <3> HIDE DEF right, left
      <3>b. /\ \A u, v : IsList(u) /\ IsList(v) /\ Append(u, right) = Append(v, right) => u = v
            /\ \A u, v : IsList(u) /\ IsList(v) /\ Append(u, left) = Append(v, left) => u = v
            /\ \A u, v : IsList(u) /\ IsList(v) => Append(u, right) # Append(v, left)
        BY <3>3, LastTold
      <3>5. CASE a < lo + k /\ b < lo + k
        <4>1. p[k][lo] = q[k][lo]
          <5>1. Append(p[k][lo], right) = Append(q[k][lo], right)
            BY <2>2, <3>2, <3>5
          <5> QED BY <3>4, <3>b, <5>1
        <4>2. Fixes(k)
          <5>1. k \in 0..n - 1
            OBVIOUS
          <5> QED BY <1>5, <5>1
        <4> HIDE DEF S
        <4> QED BY <3>5, <4>1, <4>2
      <3>6. CASE ~(a < lo + k) /\ ~(b < lo + k)
        <4>1. p[m][l] = q[m][l]
          <5>1. Append(p[m][l], left) = Append(q[m][l], left)
            BY <2>2, <3>2, <3>6
          <5> QED BY <3>4, <3>b, <5>1
        <4>2. m \in 0..n - 1
          BY <3>0
        <4>3. l + m = lo + n
          BY <3>0, <3>a
        <4>4. Fixes(m)
          BY <1>5, <4>2
        <4>5. l + m <= Len(s) /\ a \in l..l + m - 1 /\ b \in l..l + m - 1
          <5>1. l <= a /\ l <= b
            BY <3>a, <3>6
          <5>2. a <= l + m - 1 /\ b <= l + m - 1
            BY <4>3
          <5> QED BY <4>3, <5>1, <5>2
        <4> QED BY <4>1, <4>4, <4>5
      <3>7. CASE a < lo + k /\ ~(b < lo + k)
        <4>1. Append(p[k][lo], right) = Append(q[m][l], left)
          BY <2>2, <3>2, <3>7
        <4> QED BY <3>4, <3>b, <4>1
      <3>8. CASE ~(a < lo + k) /\ b < lo + k
        <4>1. Append(p[m][l], left) = Append(q[k][lo], right)
          BY <2>2, <3>2, <3>8
        <4> QED BY <3>4, <3>b, <4>1
      <3> QED BY <3>5, <3>6, <3>7, <3>8
    <2> QED BY <2>3, <2>4
  <1>6. \A n \in Nat : n \in S
    <2> HIDE DEF S
    <2> QED BY <1>5, FromSmaller
  <1>7. Fixes(Len(s))
    BY <1>6
  <1>8. 0 \in Nat /\ 0 + Len(s) <= Len(s) /\ a \in 0..0 + Len(s) - 1 /\ b \in 0..0 + Len(s) - 1
    OBVIOUS
  <1> QED BY <1>1, <1>2, <1>7, <1>8

(* What a process that has the file open holds, and the line it has        *)
(* written, are all different.                                             *)
HeldDiffer(p) ==
    Open(p) => /\ AllDifferent(mem[p])
               /\ call[p].at = "written" => \A i \in 1..Len(mem[p]) : mem[p][i] # call[p].leaf

(* The inductive invariant of ProofsHold, beside FileInv and RootInv: no   *)
(* leaf is twice in the file, in what prune has read of it, or in a        *)
(* memory, and what is about to be pushed is not there yet. It does not    *)
(* need the two to keep apart.                                             *)
LeavesDiffer ==
    /\ AllDifferent(LeavesOf(file))
    /\ prune.at # "none" => AllDifferent(LeavesOf(prune.read))
    /\ \A p \in Procs : HeldDiffer(p)

(* A new leaf behind leaves that are all different.                        *)
LEMMA FreshAppended ==
    ASSUME NEW A, NEW s \in Seq(A), NEW x \in A, AllDifferent(s), \A i \in 1..Len(s) : s[i] # x
    PROVE  AllDifferent(Append(s, x))
  <1>1. /\ Len(s) \in Nat /\ Len(Append(s, x)) = Len(s) + 1
        /\ \A i \in 1..Len(s) : Append(s, x)[i] = s[i]
        /\ Append(s, x)[Len(s) + 1] = x
    BY AppendKeeps
  <1>2. \A i \in 1..Len(s) + 1 : i \in 1..Len(s) \/ i = Len(s) + 1
    BY <1>1
  <1> SUFFICES ASSUME NEW i \in 1..Len(s) + 1, NEW j \in 1..Len(s) + 1, Append(s, x)[i] = Append(s, x)[j]
               PROVE  i = j
    BY <1>1 DEF AllDifferent
  <1> QED BY <1>1, <1>2 DEF AllDifferent

(* A line is of a leaf that was just issued, and prune writes the leaves   *)
(* it has read.                                                            *)
LEMMA FileDiffersNext ==
    ASSUME FileTypes, PruneTruthful, LeavesDiffer, [FileNext]_fileVars
    PROVE  AllDifferent(LeavesOf(file'))
  <1>a. file \in Seq(Lines) /\ issued \in Nat
    BY DEF FileTypes
  <1>1. CASE file' = file
    BY <1>1 DEF LeavesDiffer
  <1>2. ASSUME NEW p \in Procs, NEW form \in {"text", "hash"}, Write(p, form), ~torn PROVE AllDifferent(LeavesOf(file'))
    <2> DEFINE line == [leaf |-> issued + 1, form |-> form]
               X == [leaf : 1..issued + 1, form : {"text", "hash", "pruned"}]
    <2>1. file' = Append(file, line)
      BY <1>2 DEF Write
    <2>2. line \in X /\ line.leaf = issued + 1 /\ Lines \subseteq X
      BY <1>a DEF Lines, Issued
    <2> HIDE DEF line, X
    <2>3. LeavesOf(Append(file, line)) = Append(LeavesOf(file), issued + 1)
      <3>1. file \in Seq(X)
        BY <1>a, <2>2, Wider
      <3>2. LeavesOf(Append(file, line)) = Append(LeavesOf(file), line.leaf)
        BY <2>2, <3>1, LeafAppended
      <3> QED BY <2>2, <3>2
    <2>4. LeavesOf(file) \in Seq(Issued)
      BY <1>a, LeavesAre
    <2>5. \A i \in 1..Len(LeavesOf(file)) : LeavesOf(file)[i] # issued + 1
      <3>1. \A i \in 1..Len(LeavesOf(file)) : LeavesOf(file)[i] \in Issued
        BY <2>4, ElementOfSeq
      <3> QED BY <1>a, <3>1 DEF Issued
    <2>6. LeavesOf(file) \in Seq(Nat) /\ issued + 1 \in Nat
      BY <1>a, <2>4, Wider DEF Issued
    <2> QED BY <2>1, <2>3, <2>5, <2>6, FreshAppended DEF LeavesDiffer
  <1>3. CASE PruneRename
    <2>1. prune.at # "none" /\ file' = Rewritten(prune)
      BY <1>3 DEF PruneRename
    <2>2. PICK t : t = Rewritten(prune)
      OBVIOUS
    <2>3. prune.read \in Seq(Lines)
      BY <2>1 DEF PruneTruthful
    <2>4. t \in Seq(Lines) /\ Len(prune.read) = Len(t) /\ \A i \in 1..Len(prune.read) : prune.read[i].leaf = t[i].leaf
      BY <2>2, <2>3, RewrittenIs
    <2>5. LeavesOf(prune.read) = LeavesOf(t)
      BY <2>3, <2>4, LeavesKept
    <2> QED BY <2>1, <2>2, <2>5 DEF LeavesDiffer
  <1>4. \/ file' = file \/ PruneRename
        \/ \E p \in Procs, form \in {"text", "hash"} : Write(p, form) /\ ~torn
    BY FileSteps DEF Start, Stop, Tear, PushHash, Unsigned, WriteBundle, Write, PruneBundle, fileLogVars
  <1> QED BY <1>1, <1>2, <1>3, <1>4

(* A memory is the file's leaves, and then what was written and is not in  *)
(* it yet.                                                                 *)
LEMMA MemoryDiffersNext ==
    ASSUME FileTypes, FileTypes', LeavesDiffer, [FileNext]_fileVars, NEW p \in Procs, Open(p)'
    PROVE  HeldDiffer(p)'
  <1>a. /\ mem \in [Procs -> Seq(Issued) \cup {Closed}] /\ call \in [Procs -> Callings] /\ issued \in Nat
        /\ file \in Seq(Lines)
    BY DEF FileTypes
  <1>n. NoCall \in Callings /\ NoCall.at = "idle"
    BY <1>a, NoCallIs
  <1>h. Open(p) => /\ AllDifferent(mem[p]) /\ mem[p] \in Seq(Issued)
                   /\ call[p].at = "written" => \A i \in 1..Len(mem[p]) : mem[p][i] # call[p].leaf
    BY OpenIs DEF LeavesDiffer, HeldDiffer
  <1>1. CASE mem'[p] = mem[p] /\ (call'[p] = call[p] \/ call'[p].at # "written")
    BY <1>h, <1>1 DEF HeldDiffer, Open
  <1>2. CASE Start(p)
    <2>1. mem'[p] = LeavesOf(file) /\ call' = call /\ ~Open(p)
      BY <1>a, <1>2 DEF Start
    <2>2. call[p].at = "idle"
      BY <2>1, OpenIs
    <2> QED BY <2>1, <2>2 DEF HeldDiffer, LeavesDiffer
  <1>3. CASE PushHash(p) \/ Unsigned(p)
    <2>1. call[p].at = "written" /\ mem'[p] = Append(mem[p], call[p].leaf) /\ call'[p].at # "written"
      BY <1>a, <1>3, <1>n DEF PushHash, Unsigned, Callings
    <2>2. Open(p) /\ call[p].leaf \in Issued
      BY <2>1, OpenIs DEF FileTypes
    <2>3. AllDifferent(Append(mem[p], call[p].leaf))
      BY <1>h, <2>1, <2>2, FreshAppended
    <2> QED BY <2>1, <2>3 DEF HeldDiffer
  <1>4. ASSUME NEW form \in {"text", "hash"}, Write(p, form) PROVE HeldDiffer(p)'
    <2>1. mem' = mem /\ Open(p) /\ call'[p] = [at |-> "written", leaf |-> issued + 1]
      BY <1>a, <1>4 DEF Write
    <2>2. \A i \in 1..Len(mem[p]) : mem[p][i] \in Issued
      BY <1>h, <2>1, ElementOfSeq
    <2>3. \A i \in 1..Len(mem[p]) : mem[p][i] # issued + 1
      BY <1>a, <2>2 DEF Issued
    <2> QED BY <1>h, <2>1, <2>3 DEF HeldDiffer
  <1>5. CASE Stop(p) \/ Tear(p)
    <2>1. mem'[p] = Closed
      BY <1>a, <1>5 DEF Stop, Tear
    <2> QED BY <2>1 DEF Open
  <1>6. CASE WriteBundle(p)
    <2>1. mem' = mem /\ call'[p] = NoCall
      BY <1>a, <1>6 DEF WriteBundle
    <2> QED BY <1>1, <1>n, <2>1
  <1>7. ASSUME NEW q \in Procs \ {p}, \/ Start(q) \/ Stop(q) \/ Tear(q) \/ PushHash(q) \/ Unsigned(q)
                                      \/ WriteBundle(q) \/ \E form \in {"text", "hash"} : Write(q, form)
        PROVE  HeldDiffer(p)'
    <2>1. mem'[p] = mem[p] /\ call'[p] = call[p]
      BY <1>a, <1>7 DEF Start, Stop, Tear, PushHash, Unsigned, WriteBundle, Write
    <2> QED BY <1>1, <2>1
  <1>8. CASE (\E l \in bundles : PruneBundle(l)) \/ PruneRename \/ UNCHANGED <<fileLogVars, apart>>
    <2>1. mem' = mem /\ call' = call
      BY <1>8 DEF PruneBundle, PruneRename, fileLogVars
    <2> QED BY <1>1, <2>1
  <1> QED BY <1>2, <1>3, <1>4, <1>5, <1>6, <1>7, <1>8, FileSteps

(* Every step keeps it.                                                    *)
LEMMA LeavesDifferNext ==
    ASSUME FileTypes, FileTypes', PruneTruthful, LeavesDiffer, [FileNext]_fileVars
    PROVE  LeavesDiffer'
  <1>1. AllDifferent(LeavesOf(file'))
    BY FileDiffersNext
  <1>2. ASSUME prune'.at # "none" PROVE AllDifferent(LeavesOf(prune'.read))
    <2>1. CASE prune' = prune
      BY <1>2, <2>1 DEF LeavesDiffer
    <2>2. CASE prune' = NoRun
      BY <1>2, <2>2 DEF NoRun
    <2>3. ASSUME NEW cutoff \in 2..MaxLeaves + 1, PruneRead(cutoff) PROVE AllDifferent(LeavesOf(prune'.read))
      <3>1. prune'.read = file
        BY <2>3 DEF PruneRead
      <3> QED BY <3>1 DEF LeavesDiffer
    <2> QED BY <2>1, <2>2, <2>3, PruneMoves
  <1>3. \A p \in Procs : HeldDiffer(p)'
    <2> SUFFICES ASSUME NEW p \in Procs PROVE HeldDiffer(p)'
      OBVIOUS
    <2>1. CASE Open(p)'
      BY <2>1, MemoryDiffersNext
    <2>2. CASE ~Open(p)'
      BY <2>2 DEF HeldDiffer
    <2> QED BY <2>1, <2>2
  <1> QED BY <1>1, <1>2, <1>3 DEF LeavesDiffer

(* Every reachable state has the three invariants.                         *)
LEMMA DifferInvariant == FileSpec => [](FileInv /\ RootInv /\ LeavesDiffer)
  <1>1. FileInit => LeavesDiffer
    <2> SUFFICES ASSUME FileInit PROVE LeavesDiffer
      OBVIOUS
    <2>1. LeavesOf(<<>>) = <<>> /\ AllDifferent(<<>>)
      BY DEF LeavesOf, AllDifferent
    <2> QED BY <2>1 DEF FileInit, NoRun, LeavesDiffer, HeldDiffer, Open
  <1>2. FileInv /\ FileInv' /\ LeavesDiffer /\ [FileNext]_fileVars => LeavesDiffer'
    BY LeavesDifferNext DEF FileInv
  <1> QED BY <1>1, <1>2, FileInvariant, RootInvariant, PTL DEF FileSpec

(* path and its verifiers, of a log in which no leaf is twice: the last    *)
(* leaf's proof.                                                           *)
LEMMA LastLeafVerifies ==
    ASSUME NEW t \in Seq(Nat), t # <<>>, AllDifferent(t), NEW l, NEW i \in 0..Len(t) - 1,
           NEW proof, proof = Path(Hashes(t), Len(t) - 1)
    PROVE  /\ VerifyInclusion(LeafHash(l), i, Len(t), proof, HeadOf(t).root) <=> l = t[Len(t)] /\ i = Len(t) - 1
           /\ WebVerifyInclusion(LeafHash(l), i, Len(t), proof, HeadOf(t).root) <=> l = t[Len(t)] /\ i = Len(t) - 1
  <1> DEFINE s == Hashes(t)
  <1>1. /\ Len(t) \in Nat \ {0} /\ Len(s) = Len(t) /\ HeadOf(t).root = Root(s)
        /\ \A j \in 1..Len(t) : s[j] = LeafHash(t[j])
    <2>1. Len(t) \in Nat /\ Len(t) # 0
      BY LenProperties, EmptySeq
    <2> QED BY <2>1, HashesAre DEF HeadOf
  <1> HIDE DEF s
  <1>2. SameRanges(s, s)
    <2>1. \A j \in 1..Len(s) : \E x : s[j] = LeafHash(x)
      BY <1>1
    <2> QED BY <1>1, <2>1, SameLeaves
  <1>3. AllDifferent(s)
    BY <1>1, HashesDiffer DEF AllDifferent
  <1>4. PICK n \in 0..Len(s) - 1 : n = Len(t) - 1
    BY <1>1
  <1>5. proof = Path(s, n)
    BY <1>4 DEF s
  <1>6. IsList(proof)
    BY <1>1, <1>4, <1>5, PathIsList
  <1>7. i \in 0..Len(s) - 1 /\ Len(s) \in Nat
    BY <1>1
  <1>8. /\ VerifyInclusion(LeafHash(l), i, Len(s), proof, Root(s)) <=> LeafHash(l) = s[i + 1] /\ proof = Path(s, i)
        /\ WebVerifyInclusion(LeafHash(l), i, Len(s), proof, Root(s)) <=> LeafHash(l) = s[i + 1] /\ proof = Path(s, i)
    BY <1>6, <1>7, InclusionOnly
  <1>9. proof = Path(s, i) <=> i = n
    BY <1>2, <1>3, <1>5, <1>7, PathsDiffer
  <1>10. LeafHash(l) = s[i + 1] <=> l = t[i + 1]
    <2>1. i + 1 \in 1..Len(t)
      BY <1>1
    <2> QED BY <1>1, <2>1, HashesDiffer
  <1>11. i = n => i + 1 = Len(t)
    BY <1>1, <1>4
  <1> QED BY <1>1, <1>4, <1>8, <1>9, <1>10, <1>11

(* pushHash: the proof in an answer is the last leaf's, of the tree it     *)
(* answers with.                                                           *)
LEMMA AnswersVerifyNext ==
    ASSUME FileTypes, FileTypes', RootInv', LeavesDiffer, [FileNext]_fileVars
    PROVE  AnswersVerify
  <1> SUFFICES ASSUME NEW a \in answers' \ answers PROVE
        \A n \in {Len(a.tree)}, root \in {HeadOf(a.tree).root} : \A proof \in {Path(Hashes(a.tree), n - 1)} :
        \A l \in Range(a.tree), i \in 0..n - 1 :
            /\ VerifyInclusion(LeafHash(l), i, n, proof, root) <=> l = a.leaf /\ i = n - 1
            /\ WebVerifyInclusion(LeafHash(l), i, n, proof, root) <=> l = a.leaf /\ i = n - 1
    BY DEF AnswersVerify
  <1>1. PICK p \in Procs : PushHash(p) /\ answers' = answers \cup {Answer(p)}
    BY AnswerMoves
  <1>2. a = Answer(p) /\ call[p].at = "written"
    BY <1>1 DEF PushHash
  <1>3. Open(p) /\ mem[p] \in Seq(Issued) /\ call[p].leaf \in Issued
    BY <1>2, OpenIs DEF FileTypes
  <1>4. PICK t : t = a.tree
    OBVIOUS
  <1>5. t = Append(mem[p], call[p].leaf) /\ a.leaf = call[p].leaf
    BY <1>2, <1>4 DEF Answer
  <1>6. AllDifferent(t)
    BY <1>2, <1>3, <1>5, FreshAppended DEF LeavesDiffer, HeldDiffer
  <1>7. /\ t \in Seq(Issued) /\ t[Len(t)] = a.leaf /\ Len(t) # 0
    BY <1>3, <1>5, AppendKeeps
  <1>8. t \in Seq(Nat) /\ t # <<>>
    <2>1. Issued \subseteq Nat
      BY DEF Issued
    <2> QED BY <1>7, <2>1, Wider, EmptySeq
  <1> SUFFICES ASSUME NEW proof, proof = Path(Hashes(t), Len(t) - 1), NEW l, NEW i \in 0..Len(t) - 1
               PROVE  /\ VerifyInclusion(LeafHash(l), i, Len(t), proof, HeadOf(t).root) <=> l = a.leaf /\ i = Len(t) - 1
                      /\ WebVerifyInclusion(LeafHash(l), i, Len(t), proof, HeadOf(t).root) <=> l = a.leaf /\ i = Len(t) - 1
    BY <1>4
  <1> QED BY <1>6, <1>7, <1>8, LastLeafVerifies

(* subproof and its verifiers, of a log that begins with an earlier tree.  *)
LEMMA OnlyThatTree ==
    ASSUME NEW t \in Seq(Nat), NEW r \in Seq(Nat), r # <<>>, Begins(r, t),
           NEW f \in Seq(Nat), Len(f) = Len(r), NEW proof, proof = Extension(Hashes(t), Len(r))
    PROVE  /\ AuditExtends(HeadOf(f), HeadOf(t), proof) <=> f = r
           /\ WebAuditExtends(HeadOf(f), HeadOf(t), proof) <=> f = r
  <1> DEFINE s == Hashes(t)
             root == HeadOf(f).root
  <1>1. /\ Len(s) = Len(t) /\ HeadOf(t).root = Root(s) /\ HeadOf(t).size = Len(t)
        /\ HeadOf(f).size = Len(f)
    BY HashesAre DEF HeadOf
  <1>2. Len(t) \in Nat /\ Len(r) \in Nat /\ Len(r) # 0 /\ Len(r) <= Len(t)
    BY LenProperties, EmptySeq DEF Begins
  <1>3. root = Mth(s, 0, Len(r)) <=> f = r
    <2>1. Mth(s, 0, Len(r)) = HeadOf(r).root
      BY CopyIsTheRoot
    <2> QED BY <2>1, RootsCommit
  <1> HIDE DEF s, root
  <1>4. PICK m \in 1..Len(s) : m = Len(r)
    BY <1>1, <1>2
  <1>5. proof = ConsistencyProof(s, m)
    <2>1. ~(m > Len(s))
      BY <1>1, <1>2, <1>4
    <2> QED BY <1>4, <2>1 DEF Extension, s
  <1>6. /\ VerifyConsistency(m, root, Len(s), Root(s), proof) <=> root = Mth(s, 0, m)
        /\ WebVerifyConsistency(m, root, Len(s), Root(s), proof) <=> root = Mth(s, 0, m)
    BY <1>1, <1>2, <1>4, <1>5, ConsistencyOnly
  <1> QED BY <1>1, <1>2, <1>3, <1>4, <1>6 DEF AuditExtends, WebAuditExtends, root

(* A tree with a leaf replaced is another tree of the same size.           *)
LEMMA ForgedTree ==
    ASSUME NEW n, NEW r \in Seq(1..n), NEW i \in 1..Len(r), NEW f, f = [r EXCEPT ![i] = 0]
    PROVE  f \in Seq(Nat) /\ Len(f) = Len(r) /\ f # r
  <1>1. Len(r) \in Nat /\ DOMAIN r = 1..Len(r) /\ \A j \in 1..Len(r) : r[j] \in 1..n
    BY LenProperties, ElementOfSeq
  <1>2. \A j \in 1..Len(r) : r[j] \in Nat /\ r[j] # 0
    BY <1>1
  <1>3. f = [j \in 1..Len(r) |-> IF j = i THEN 0 ELSE r[j]]
    <2>1. f = [[j \in 1..Len(r) |-> r[j]] EXCEPT ![i] = 0]
      BY <1>1
    <2> QED BY <2>1
  <1>4. f \in [1..Len(r) -> Nat] /\ DOMAIN f = 1..Len(r)
    BY <1>2, <1>3
  <1>5. f \in Seq(Nat)
    <2>1. f \in [1..Len(r) -> Nat] => f \in Seq(Nat)
      BY <1>1
    <2> QED BY <1>4, <2>1
  <1>6. f[i] = 0 /\ r[i] # 0
    BY <1>2, <1>3
  <1> QED BY <1>1, <1>4, <1>5, <1>6, LenProperties

(* What a process holds when its memory has changed is the file, which     *)
(* begins with the tree of every answer.                                   *)
LEMMA ExtensionIsProvedNext ==
    ASSUME FileTypes, FileTypes', RootInv', [FileNext]_fileVars
    PROVE  ExtensionIsProved
  <1> SUFFICES ASSUME apart', NEW p \in Procs, Open(p)', mem'[p] # mem[p], NEW a \in answers'
               PROVE  \A newer \in {HeadOf(mem'[p])} :
                      \A proof \in {Extension(Hashes(mem'[p]), Len(a.tree))} :
                         /\ AuditExtends(HeadOf(a.tree), newer, proof) /\ WebAuditExtends(HeadOf(a.tree), newer, proof)
                         /\ \A forged \in {HeadOf([a.tree EXCEPT ![i] = 0]) : i \in 1..Len(a.tree)} :
                                ~AuditExtends(forged, newer, proof) /\ ~WebAuditExtends(forged, newer, proof)
    BY DEF ExtensionIsProved
  <1>a. mem \in [Procs -> Seq(Issued) \cup {Closed}] /\ call \in [Procs -> Callings] /\ issued \in Nat
    BY DEF FileTypes
  <1>n. NoCall \in Callings /\ NoCall.at = "idle"
    BY <1>a, NoCallIs
  <1>1. call'[p].at # "written"
    <2>1. CASE Start(p)
      <3>1. ~Open(p) /\ call' = call
        BY <2>1 DEF Start
      <3> QED BY <3>1, OpenIs
    <2>2. CASE PushHash(p) \/ Unsigned(p)
      BY <1>a, <1>n, <2>2 DEF PushHash, Unsigned, Callings
    <2>3. CASE Stop(p) \/ Tear(p)
      <3>1. mem'[p] = Closed
        BY <1>a, <2>3 DEF Stop, Tear
      <3> QED BY <3>1 DEF Open
    <2>4. Start(p) \/ PushHash(p) \/ Unsigned(p) \/ Stop(p) \/ Tear(p)
      <3>1. \A q \in Procs \ {p} : (Start(q) \/ Stop(q) \/ Tear(q) \/ PushHash(q) \/ Unsigned(q)) => mem'[p] = mem[p]
        BY <1>a DEF Start, Stop, Tear, PushHash, Unsigned
      <3>2. \A q \in Procs : (WriteBundle(q) \/ \E form \in {"text", "hash"} : Write(q, form)) => mem' = mem
        BY DEF WriteBundle, Write
      <3>3. (\E l \in bundles : PruneBundle(l)) \/ PruneRename \/ UNCHANGED <<fileLogVars, apart>> => mem' = mem
        BY DEF PruneBundle, PruneRename, fileLogVars
      <3> QED BY <3>1, <3>2, <3>3, FileSteps
    <2> QED BY <2>1, <2>2, <2>3, <2>4
  <1>2. PICK t : t = mem'[p]
    OBVIOUS
  <1>3. t = LeavesOf(file') /\ TreesStand' /\ CopyTypes'
    BY <1>1, <1>2 DEF RootInv, Alone, InFile
  <1>4. t \in Seq(Nat)
    <2>1. file' \in Seq(Lines')
      BY DEF FileTypes
    <2> QED BY <1>3, <2>1, LeavesNat DEF Lines, Issued
  <1>5. PICK r : r = a.tree
    OBVIOUS
  <1>6. r \in Seq(Issued') /\ r # <<>> /\ Begins(r, t)
    BY <1>3, <1>5 DEF FileTypes, TreesStand, CopyTypes
  <1>7. r \in Seq(Nat)
    <2>1. Issued' \subseteq Nat
      BY DEF Issued
    <2> QED BY <1>6, <2>1, Wider
  <1> SUFFICES ASSUME NEW proof, proof = Extension(Hashes(t), Len(r))
               PROVE  /\ AuditExtends(HeadOf(r), HeadOf(t), proof) /\ WebAuditExtends(HeadOf(r), HeadOf(t), proof)
                      /\ \A i \in 1..Len(r) : /\ ~AuditExtends(HeadOf([r EXCEPT ![i] = 0]), HeadOf(t), proof)
                                              /\ ~WebAuditExtends(HeadOf([r EXCEPT ![i] = 0]), HeadOf(t), proof)
    BY <1>2, <1>5
  <1>8. AuditExtends(HeadOf(r), HeadOf(t), proof) /\ WebAuditExtends(HeadOf(r), HeadOf(t), proof)
    BY <1>4, <1>6, <1>7, OnlyThatTree
  <1>9. ASSUME NEW i \in 1..Len(r)
        PROVE  /\ ~AuditExtends(HeadOf([r EXCEPT ![i] = 0]), HeadOf(t), proof)
               /\ ~WebAuditExtends(HeadOf([r EXCEPT ![i] = 0]), HeadOf(t), proof)
    <2>1. PICK f : f = [r EXCEPT ![i] = 0]
      OBVIOUS
    <2>2. f \in Seq(Nat) /\ Len(f) = Len(r) /\ f # r
      <3>1. r \in Seq(1..issued')
        BY <1>6 DEF Issued
      <3> QED BY <2>1, <3>1, ForgedTree
    <2>3. ~AuditExtends(HeadOf(f), HeadOf(t), proof) /\ ~WebAuditExtends(HeadOf(f), HeadOf(t), proof)
      BY <1>4, <1>6, <1>7, <2>2, OnlyThatTree
    <2> QED BY <2>1, <2>3
  <1> QED BY <1>8, <1>9

(* Every proof the log gives proves what it says and nothing else          *)
(* (MerkleLog, verifyInclusion, verifyConsistency, auditExtends): an       *)
(* answer's proof verifies its leaf in its place and no other, and while   *)
(* nobody meets on the file, a log that has grown is proved to extend      *)
(* every earlier receipt's tree, and no tree in which a leaf was another.  *)
(* Pruned, torn, stopped or opened again in between, to the package and to *)
(* the page.                                                               *)
THEOREM ProofsAlwaysHold == FileSpec => ProofsHold
  <1> DEFINE Inv == FileInv /\ RootInv /\ LeavesDiffer
  <1>1. Inv /\ Inv' /\ [FileNext]_fileVars => [AnswersVerify /\ ExtensionIsProved]_fileVars
    BY AnswersVerifyNext, ExtensionIsProvedNext DEF FileInv
  <1> QED BY <1>1, DifferInvariant, PTL DEF ProofsHold, FileSpec

-------------------------------------------------------------------------------
(***************************************************************************)
(* The witness and the probe (Witness).                                    *)
(*                                                                         *)
(* What a head is - a history and a size, and up to ForkAt the same of     *)
(* either - makes Extends an order; the heads signed are a chain of it     *)
(* whose largest is the state, as long as no pass of the witness begins    *)
(* before the one before has ended.  That no honest log is accused also    *)
(* needs the log's own checkpoints to arrive in latest.json in order.      *)
(***************************************************************************)

(* Passes that take less than the interval: one at a time.                 *)
PassesApart == \A v, w \in Passes : v = w
PublicationsApart == \A p, q \in Publications : p = q

Main(h) == h # None /\ h.hist = "main"
InOrder(g, h) == Main(g) /\ Main(h) => g.size <= h.size

(* A pass under way has a head; one that waits for the proof waits for the *)
(* proof that this head extends the last one signed.                       *)
PassInv ==
    \A w \in Passes :
        /\ pass[w].phase # "idle" => pass[w].head # None
        /\ pass[w].phase = "proving" =>
              /\ pass[w].prev = state /\ state # None
              /\ state.size < pass[w].head.size

(* The state extends everything signed.                                    *)
Chain ==
    /\ state = None => signed = {}
    /\ state # None => \A h \in signed : Extends(state, h)

SignInv == WitnessTypeOK /\ PassInv /\ Chain

(* The log's own heads: signed, then fetched, then in latest.json, then    *)
(* being published, then the log.                                          *)
Ordered ==
    /\ InOrder(state, latest) /\ (Main(latest) => latest.size <= size)
    /\ Main(state) => state.size <= size
    /\ \A w \in Passes : pass[w].phase # "idle" =>
          /\ InOrder(state, pass[w].head) /\ InOrder(pass[w].head, latest)
          /\ Main(pass[w].head) => pass[w].head.size <= size
          /\ \A p \in Publications : pub[p].size > 0 /\ Main(pass[w].head) =>
                pass[w].head.size <= pub[p].size
    /\ \A p \in Publications : pub[p].size > 0 =>
          /\ Main(latest) => latest.size <= pub[p].size
          /\ Main(state) => state.size <= pub[p].size

Founded == \A a \in alarms : a.head.hist = "main" => a.prev.hist = "fork"

AlarmInv == SignInv /\ Ordered /\ Founded

-----------------------------------------------------------------------------
(* Heads, and the order of being a prefix.                                 *)
LEMMA HeadsAre ==
    \A h \in Heads : /\ h.size \in 1..MaxSize /\ h.hist \in {"main", "fork"}
                     /\ h = LogHead(h.hist, h.size)
                     /\ h.hist = "fork" => h.size > ForkAt
  <1> SUFFICES ASSUME NEW h \in Heads
               PROVE  /\ h.size \in 1..MaxSize /\ h.hist \in {"main", "fork"}
                      /\ h = LogHead(h.hist, h.size)
                      /\ h.hist = "fork" => h.size > ForkAt
    OBVIOUS
  <1>1. PICK hist \in {"main", "fork"}, n \in 1..MaxSize : h = LogHead(hist, n)
    BY DEF Heads
  <1>2. n \in Nat /\ ForkAt \in Nat
    BY WitnessAssumption
  <1> QED BY <1>1, <1>2 DEF LogHead

LEMMA HeadIn == \A hist \in {"main", "fork"}, n \in 1..MaxSize : LogHead(hist, n) \in Heads
  BY DEF Heads

LEMMA ExtendsReflexive == \A h \in Heads : Extends(h, h)
  BY HeadsAre, WitnessAssumption DEF Extends

LEMMA ExtendsTransitive ==
    \A g, h, k \in Heads : Extends(k, h) /\ Extends(h, g) => Extends(k, g)
  <1> SUFFICES ASSUME NEW g \in Heads, NEW h \in Heads, NEW k \in Heads,
                      Extends(k, h), Extends(h, g)
               PROVE  Extends(k, g)
    OBVIOUS
  <1>1. g.size \in Nat /\ h.size \in Nat /\ k.size \in Nat /\ ForkAt \in Nat
    BY HeadsAre, WitnessAssumption
  <1>2. g.size <= h.size /\ h.size <= k.size
    BY DEF Extends
  <1>3. g = LogHead(h.hist, g.size) /\ h = LogHead(k.hist, h.size)
    BY DEF Extends
  <1>4. CASE h.size <= ForkAt
    BY <1>1, <1>2, <1>3, <1>4 DEF Extends, LogHead
  <1>5. CASE h.size > ForkAt
    <2>1. h.hist = k.hist
      BY <1>1, <1>3, <1>5 DEF LogHead
    <2> QED BY <1>1, <1>2, <1>3, <2>1 DEF Extends
  <1> QED BY <1>1, <1>4, <1>5

(* Prefixes of one head are of one history, but for the common leaves.     *)
LEMMA PrefixesAgree ==
    \A g, h, k \in Heads : /\ Extends(k, g) /\ Extends(k, h)
                           /\ g.hist # h.hist
                           => g.size <= ForkAt \/ h.size <= ForkAt
  <1> SUFFICES ASSUME NEW g \in Heads, NEW h \in Heads, NEW k \in Heads,
                      Extends(k, g), Extends(k, h), ~(g.size <= ForkAt), ~(h.size <= ForkAt)
               PROVE  g.hist = h.hist
    OBVIOUS
  <1> QED BY DEF Extends, LogHead

(* Every head of the log extends every smaller one.                        *)
LEMMA MainExtends ==
    \A h \in Heads, n \in Nat :
        /\ h.hist = "main" /\ h.size <= n => Extends(LogHead("main", n), h)
        /\ Extends(LogHead("main", n), h) => h.hist = "main"
  BY HeadsAre DEF Extends, LogHead

-----------------------------------------------------------------------------
(* What the steps of a pass leave behind.                                  *)
PassStates == [phase : {"idle", "fetched", "proving"},
               head : Heads \cup {None}, prev : Heads \cup {None}]

LEMMA PassUpdates ==
    /\ NoPass \in PassStates /\ NoPass.phase = "idle"
    /\ \A q \in PassStates, h \in Heads :
          /\ [q EXCEPT !.phase = "fetched", !.head = h] \in PassStates
          /\ [q EXCEPT !.phase = "fetched", !.head = h].phase = "fetched"
          /\ [q EXCEPT !.phase = "fetched", !.head = h].head = h
          /\ [q EXCEPT !.phase = "proving", !.prev = h] \in PassStates
          /\ [q EXCEPT !.phase = "proving", !.prev = h].phase = "proving"
          /\ [q EXCEPT !.phase = "proving", !.prev = h].prev = h
          /\ [q EXCEPT !.phase = "proving", !.prev = h].head = q.head
  BY DEF PassStates, NoPass

(* A pass that ends, whatever came of it.                                  *)
LEMMA Ends ==
    ASSUME WitnessTypeOK, NEW w \in Passes, End(w)
    PROVE  /\ pass' \in [Passes -> PassStates] /\ pass'[w].phase = "idle"
           /\ \A v \in Passes : v # w => pass'[v] = pass[v]
  <1>1. pass \in [Passes -> PassStates] /\ pass[w] \in PassStates
    BY DEF WitnessTypeOK, PassStates
  <1>2. NoPass \in PassStates /\ NoPass.phase = "idle"
    BY PassUpdates
  <1> QED BY <1>1, <1>2 DEF End

(* Only of the passes that fetch or go on to the proof is more to say.     *)
LEMMA Fetches ==
    ASSUME WitnessTypeOK, NEW w \in Passes, Fetch(w)
    PROVE  /\ latest \in Heads
           /\ pass' \in [Passes -> PassStates]
           /\ pass'[w].phase = "fetched" /\ pass'[w].head = latest
           /\ \A v \in Passes : v # w => pass'[v] = pass[v]
  <1>1. pass \in [Passes -> PassStates] /\ pass[w] \in PassStates /\ latest \in Heads
    BY DEF WitnessTypeOK, PassStates, Fetch
  <1> DEFINE f == [pass[w] EXCEPT !.phase = "fetched", !.head = latest]
  <1>2. pass' = [pass EXCEPT ![w] = f]
    BY <1>1 DEF Fetch
  <1>3. f \in PassStates /\ f.phase = "fetched" /\ f.head = latest
    BY <1>1 DEF PassStates
  <1> HIDE DEF f
  <1> QED BY <1>1, <1>2, <1>3

AsksProof(w) ==
    /\ pass[w].phase = "fetched" /\ state # None /\ pass[w].head.size > state.size
    /\ pass' = [pass EXCEPT ![w].phase = "proving", ![w].prev = state]
    /\ UNCHANGED <<logVars, state, signed, alarms, probe>>

LEMMA Asks ==
    ASSUME WitnessTypeOK, NEW w \in Passes, AsksProof(w)
    PROVE  /\ state \in Heads
           /\ pass' \in [Passes -> PassStates]
           /\ pass'[w].phase = "proving" /\ pass'[w].prev = state /\ pass'[w].head = pass[w].head
           /\ \A v \in Passes : v # w => pass'[v] = pass[v]
  <1>1. pass \in [Passes -> PassStates] /\ pass[w] \in PassStates /\ state \in Heads
    BY DEF WitnessTypeOK, PassStates, AsksProof
  <1> DEFINE g == [pass[w] EXCEPT !.phase = "proving", !.prev = state]
  <1>2. pass' = [pass EXCEPT ![w] = g]
    BY DEF AsksProof
  <1>3. g \in PassStates /\ g.phase = "proving" /\ g.prev = state /\ g.head = pass[w].head
    BY <1>1, PassUpdates
  <1> HIDE DEF g
  <1> QED BY <1>1, <1>2, <1>3

(* What a step of the witness is: a fetch, a head to be proved, a pass     *)
(* that ends with nothing, with a signature, or with an alarm.             *)
LEMMA WitnessSteps ==
    ASSUME WitnessTypeOK, NEW w \in Passes, Fetch(w) \/ Decide(w) \/ Check(w) \/ Unavailable(w)
    PROVE  \/ Fetch(w)
           \/ AsksProof(w)
           \/ End(w) /\ UNCHANGED <<logVars, state, signed, alarms, probe>>
           \/ /\ Countersign(w)
              /\ \/ pass[w].phase = "fetched" /\ state = None
                 \/ pass[w].phase = "proving" /\ Extends(pass[w].head, pass[w].prev)
           \/ /\ pass[w].phase = "fetched" /\ state # None /\ Shrank(pass[w].head)
              /\ RefuseHead(w, state)
           \/ /\ pass[w].phase = "proving" /\ ~Extends(pass[w].head, pass[w].prev)
              /\ RefuseHead(w, pass[w].prev)
  BY DEF Decide, Check, Unavailable, AsksProof

-----------------------------------------------------------------------------
(* Types.  Nothing is assumed about passes that overlap.                   *)
HeadsHeld ==
    \A w \in Passes :
        /\ pass[w].phase # "idle" => pass[w].head # None
        /\ pass[w].phase = "proving" => pass[w].prev # None

LEMMA TypeInit == WitnessInit => WitnessTypeOK /\ HeadsHeld
  BY WitnessAssumption DEF WitnessInit, WitnessTypeOK, HeadsHeld, NoSave, NoPass

LEMMA TypeNext == WitnessTypeOK /\ HeadsHeld /\ [WitnessNext]_witnessVars => (WitnessTypeOK /\ HeadsHeld)'
  <1> SUFFICES ASSUME WitnessTypeOK, HeadsHeld, [WitnessNext]_witnessVars PROVE WitnessTypeOK' /\ HeadsHeld'
    OBVIOUS
  <1>1. ASSUME UNCHANGED witVars PROVE HeadsHeld'
    BY <1>1 DEF HeadsHeld, witVars
  <1>2. CASE Grow
    BY <1>1, <1>2, WitnessAssumption DEF Grow, WitnessTypeOK, witVars
  <1>3. ASSUME NEW p \in Publications, NEW stale \in BOOLEAN, PublishBegin(p, stale)
        PROVE  WitnessTypeOK' /\ HeadsHeld'
    BY <1>1, <1>3, WitnessAssumption DEF PublishBegin, WitnessTypeOK, witVars
  <1>4. ASSUME NEW p \in Publications, PublishRow(p) PROVE WitnessTypeOK' /\ HeadsHeld'
    BY <1>1, <1>4, WitnessAssumption DEF PublishRow, WitnessTypeOK, witVars
  <1>5. ASSUME NEW p \in Publications, PublishFile(p) PROVE WitnessTypeOK' /\ HeadsHeld'
    <2>1. pub[p].size \in 1..MaxSize
      BY <1>5, WitnessAssumption DEF PublishFile, WitnessTypeOK
    <2>2. latest' \in Heads /\ pub' \in [Publications -> [size : 0..size, to : {"table", "file"}]]
      BY <1>5, <2>1, HeadIn, WitnessAssumption DEF PublishFile, NoSave, WitnessTypeOK
    <2> QED BY <1>1, <1>5, <2>2 DEF PublishFile, WitnessTypeOK, witVars
  <1>6. ASSUME NEW p \in Publications, PublishFails(p) PROVE WitnessTypeOK' /\ HeadsHeld'
    BY <1>1, <1>6, WitnessAssumption DEF PublishFails, NoSave, WitnessTypeOK, witVars
  <1>7. ASSUME NEW n \in 1..MaxSize, Fork(n) PROVE WitnessTypeOK' /\ HeadsHeld'
    BY <1>1, <1>7, HeadIn DEF Fork, WitnessTypeOK, witVars
  <1>8. ASSUME NEW w \in Passes, Fetch(w) \/ Decide(w) \/ Check(w) \/ Unavailable(w)
        PROVE  WitnessTypeOK' /\ HeadsHeld'
    <2>1. /\ pass[w].head \in Heads \cup {None}
          /\ pass[w].prev \in Heads \cup {None}
      BY DEF WitnessTypeOK
    <2>h. /\ pass[w].phase # "idle" => pass[w].head # None
          /\ pass[w].phase = "proving" => pass[w].prev # None
      BY DEF HeadsHeld
    <2>2. ASSUME End(w) PROVE HeadsHeld' /\ pass' \in [Passes -> PassStates]
      BY <2>2, Ends DEF HeadsHeld
    <2>3. CASE Fetch(w)
      BY <2>3, Fetches DEF Fetch, logVars, WitnessTypeOK, HeadsHeld, PassStates
    <2>4. CASE AsksProof(w)
      <3>1. state' = state /\ signed' = signed /\ UNCHANGED <<logVars, alarms, probe>>
        BY <2>4 DEF AsksProof
      <3>2. pass[w].phase = "fetched" /\ state # None
        BY <2>4 DEF AsksProof
      <3> QED BY <2>4, <3>1, <3>2, Asks DEF logVars, WitnessTypeOK, HeadsHeld, PassStates
    <2>5. CASE End(w) /\ UNCHANGED <<logVars, state, signed, alarms, probe>>
      BY <2>2, <2>5 DEF logVars, WitnessTypeOK, PassStates
    <2>6. CASE Countersign(w) /\ pass[w].phase # "idle"
      <3>1. pass[w].head \in Heads
        BY <2>1, <2>6, <2>h
      <3> QED BY <2>2, <2>6, <3>1 DEF Countersign, logVars, WitnessTypeOK, PassStates
    <2>7. ASSUME NEW prev \in Heads, RefuseHead(w, prev), pass[w].phase # "idle"
          PROVE  WitnessTypeOK' /\ HeadsHeld'
      <3>1. pass[w].head \in Heads
        BY <2>1, <2>7, <2>h
      <3> QED BY <2>2, <2>7, <3>1 DEF RefuseHead, logVars, WitnessTypeOK, PassStates
    <2>8. state # None => state \in Heads
      BY DEF WitnessTypeOK
    <2>9. pass[w].phase = "proving" => pass[w].prev \in Heads
      BY <2>1, <2>h
    <2> QED BY <1>8, <2>3, <2>4, <2>5, <2>6, <2>7, <2>8, <2>9, WitnessSteps
  <1>9. CASE ProbeHead \/ ProbeEnd
    BY <1>1, <1>9 DEF ProbeHead, ProbeEnd, WitnessTypeOK, logVars, witVars
  <1>10. CASE UNCHANGED witnessVars
    BY <1>1, <1>10 DEF witnessVars, logVars, witVars, WitnessTypeOK
  <1> QED BY <1>2, <1>3, <1>4, <1>5, <1>6, <1>7, <1>8, <1>9, <1>10 DEF WitnessNext

(* A probe that calls the log healthy has seen one history                 *)
(* (log-check.ts:96-137), whatever the passes do.                          *)
THEOREM HealthyMeansOneHistory == WitnessSpec => [](WitnessTypeOK /\ HealthyIsOneHistory)
  <1>1. WitnessTypeOK => HealthyIsOneHistory
    <2> SUFFICES ASSUME WitnessTypeOK, NEW idle \in BOOLEAN, NEW old \in BOOLEAN, Healthy(idle, old)
                 PROVE  latest.hist = "main"
      BY DEF HealthyIsOneHistory, OneHistory
    <2>1. latest \in Heads /\ probe \in Nat
      BY WitnessAssumption DEF Healthy, WitnessTypeOK
    <2>2. latest.size \in Nat /\ latest.size <= probe
      BY <2>1, HeadsAre DEF Healthy, Trails
    <2>3. Extends(LogHead("main", probe), latest)
      BY <2>2 DEF Healthy, Changed
    <2> QED BY <2>1, <2>3, MainExtends
  <1>2. WitnessTypeOK /\ HeadsHeld => WitnessTypeOK
    OBVIOUS
  <1> QED BY TypeInit, TypeNext, <1>1, <1>2, PTL DEF WitnessSpec

-----------------------------------------------------------------------------
(* witness.ts:131-157, one pass at a time: the state a pass has read is    *)
(* still the state when it signs, so each head signed extends the last.    *)
LEMMA SignInvInit == WitnessInit => SignInv
  <1> SUFFICES ASSUME WitnessInit PROVE SignInv
    OBVIOUS
  <1>1. WitnessTypeOK
    BY TypeInit
  <1> QED BY <1>1 DEF WitnessInit, SignInv, PassInv, Chain, NoPass

LEMMA SignInvNext == PassesApart /\ SignInv /\ [WitnessNext]_witnessVars => SignInv'
  <1> SUFFICES ASSUME PassesApart, SignInv, [WitnessNext]_witnessVars PROVE SignInv'
    OBVIOUS
  <1>t. WitnessTypeOK /\ HeadsHeld /\ WitnessTypeOK'
    <2>1. WitnessTypeOK /\ HeadsHeld
      BY DEF SignInv, PassInv, HeadsHeld
    <2> QED BY <2>1, TypeNext
  <1>i. PassInv /\ Chain
    BY DEF SignInv
  <1>1. CASE UNCHANGED <<pass, state, signed>>
    BY <1>1, <1>t, <1>i DEF SignInv, PassInv, Chain
  <1>2. ASSUME NEW w \in Passes, Fetch(w) \/ Decide(w) \/ Check(w) \/ Unavailable(w)
        PROVE  SignInv'
    <2>1. \A v \in Passes : v = w
      BY DEF PassesApart
    <2>2. ASSUME End(w) PROVE PassInv'
      BY <1>t, <2>1, <2>2, Ends DEF PassInv
    <2>3. CASE Fetch(w)
      <3>1. latest # None /\ UNCHANGED <<state, signed>>
        BY <2>3 DEF Fetch
      <3>2. PassInv'
        BY <1>t, <2>1, <2>3, <3>1, Fetches DEF PassInv
      <3> QED BY <1>t, <1>i, <3>1, <3>2 DEF SignInv, Chain
    <2>4. CASE AsksProof(w)
      <3>1. /\ UNCHANGED <<state, signed>>
            /\ state # None /\ state.size < pass[w].head.size /\ pass[w].head # None
        <4>1. state \in Heads /\ pass[w].head \in Heads
          BY <1>t, <1>i, <2>4, Asks DEF WitnessTypeOK, PassInv, AsksProof
        <4> QED BY <1>i, <2>4, <4>1, HeadsAre DEF AsksProof, PassInv
      <3>2. PassInv'
        BY <1>t, <2>1, <2>4, <3>1, Asks DEF PassInv
      <3> QED BY <1>t, <1>i, <3>1, <3>2 DEF SignInv, Chain
    <2>5. CASE End(w) /\ UNCHANGED <<logVars, state, signed, alarms, probe>>
      BY <1>t, <1>i, <2>2, <2>5 DEF SignInv, Chain
    <2>6. CASE /\ Countersign(w)
               /\ \/ pass[w].phase = "fetched" /\ state = None
                  \/ pass[w].phase = "proving" /\ Extends(pass[w].head, pass[w].prev)
      <3>1. /\ End(w) /\ state' = pass[w].head /\ signed' = signed \cup {pass[w].head}
        BY <2>6 DEF Countersign
      <3>2. pass[w].head \in Heads /\ pass[w].head # None
        BY <1>t, <1>i, <2>6 DEF WitnessTypeOK, PassInv
      <3>3. \A h \in signed : Extends(pass[w].head, h)
        <4>1. CASE state = None
          BY <1>i, <4>1 DEF Chain
        <4>2. CASE state # None /\ pass[w].phase = "proving" /\ Extends(pass[w].head, pass[w].prev)
          <5>1. pass[w].prev = state /\ state \in Heads /\ signed \subseteq Heads
            BY <1>t, <1>i, <4>2 DEF PassInv, WitnessTypeOK
          <5>2. \A h \in signed : Extends(state, h)
            BY <1>i, <4>2 DEF Chain
          <5> QED BY <3>2, <4>2, <5>1, <5>2, ExtendsTransitive
        <4> QED BY <2>6, <4>1, <4>2
      <3>4. Chain'
        BY <3>1, <3>2, <3>3, ExtendsReflexive DEF Chain
      <3> QED BY <1>t, <2>2, <3>1, <3>4 DEF SignInv
    <2>7. ASSUME NEW prev, RefuseHead(w, prev) PROVE SignInv'
      BY <1>t, <1>i, <2>2, <2>7 DEF RefuseHead, SignInv, Chain
    <2> QED BY <1>t, <1>2, <2>3, <2>4, <2>5, <2>6, <2>7, WitnessSteps
  <1>3. CASE UNCHANGED witnessVars
    BY <1>1, <1>3 DEF witnessVars, witVars
  <1> QED BY <1>1, <1>2, <1>3 DEF WitnessNext, Grow, PublishBegin, PublishRow, PublishFile,
          PublishFails, Fork, ProbeHead, ProbeEnd, witVars

(* What the witness signed is one history, and what the probe calls        *)
(* healthy is: with passes that do not overlap.                            *)
THEOREM SignsOneHistory == ASSUME PassesApart PROVE WitnessSpec => []Consistent
  <1>1. SignInv => SignedConsistent
    <2> SUFFICES ASSUME SignInv, NEW g \in signed, NEW h \in signed, g.hist # h.hist
                 PROVE  g.size <= ForkAt \/ h.size <= ForkAt
      BY DEF SignedConsistent
    <2>1. state \in Heads /\ g \in Heads /\ h \in Heads /\ Extends(state, g) /\ Extends(state, h)
      BY DEF SignInv, Chain, WitnessTypeOK
    <2> QED BY <2>1, PrefixesAgree
  <1>2. SignInv /\ HealthyIsOneHistory /\ SignedConsistent => Consistent
    BY DEF SignInv, Consistent
  <1>3. WitnessSpec => []SignInv
    BY SignInvInit, SignInvNext, PTL DEF WitnessSpec
  <1>4. WitnessSpec => []HealthyIsOneHistory
    BY HealthyMeansOneHistory, PTL
  <1> QED BY <1>1, <1>2, <1>3, <1>4, PTL

-----------------------------------------------------------------------------
(* No honest log is accused.  Checkpoints arrive in latest.json in order   *)
(* when publications do not overlap either: a head of the log that is      *)
(* fetched is never smaller than the last one signed of the log.           *)
LEMMA AlarmInvInit == WitnessInit => AlarmInv
  BY SignInvInit DEF WitnessInit, AlarmInv, Ordered, Founded, InOrder, Main, NoPass, NoSave

(* An alarm about a head of the log names a head that the log never had.   *)
LEMMA AlarmFounded ==
    ASSUME WitnessTypeOK, NEW h \in Heads, NEW prev \in Heads, InOrder(prev, h),
           h # None, prev # None, ~Extends(h, prev) \/ h.size < prev.size, h.hist = "main"
    PROVE  prev.hist = "fork"
  <1> SUFFICES ASSUME prev.hist = "main" PROVE FALSE
    BY HeadsAre
  <1>1. prev.size <= h.size
    BY DEF InOrder, Main
  <1>2. h = LogHead("main", h.size) /\ prev = LogHead("main", prev.size)
        /\ h.size \in Nat /\ prev.size \in Nat
    BY HeadsAre
  <1> QED BY <1>1, <1>2 DEF Extends

LEMMA OrderedNext ==
    PassesApart /\ PublicationsApart /\ SignInv /\ SignInv' /\ Ordered /\ [WitnessNext]_witnessVars => Ordered'
  <1> SUFFICES ASSUME PassesApart, PublicationsApart, SignInv, SignInv', Ordered, [WitnessNext]_witnessVars
               PROVE  Ordered'
    OBVIOUS
  <1>t. WitnessTypeOK /\ WitnessTypeOK' /\ PassInv
    BY DEF SignInv
  <1>h. \A h \in Heads : Main(h) => h.size \in Nat
    BY HeadsAre
  <1>1. CASE Grow
    <2>1. size' = size + 1 /\ UNCHANGED <<latest, state, pass, pub>>
      BY <1>1 DEF Grow, witVars
    <2>2. \A h : Main(h)' <=> Main(h)
      BY DEF Main
    <2>3. \A h \in Heads : h.size \in Nat /\ (h.size <= size => h.size <= size')
      BY <1>t, <2>1, HeadsAre, WitnessAssumption DEF WitnessTypeOK
    <2>4. /\ Main(latest) => latest \in Heads
          /\ Main(state) => state \in Heads
          /\ \A w \in Passes : Main(pass[w].head) => pass[w].head \in Heads
      BY <1>t DEF WitnessTypeOK, Main
    <2> QED BY <2>1, <2>3, <2>4 DEF Ordered, InOrder, Main
  <1>2. ASSUME NEW p \in Publications, NEW stale \in BOOLEAN, PublishBegin(p, stale) PROVE Ordered'
    <2>1. /\ UNCHANGED <<size, latest, state, pass>>
          /\ \A q \in Publications : pub'[q].size = size
      BY <1>2, <1>t DEF PublishBegin, witVars, PublicationsApart, WitnessTypeOK
    <2> QED BY <2>1 DEF Ordered, InOrder, Main
  <1>3. ASSUME NEW p \in Publications, PublishRow(p) PROVE Ordered'
    <2>1. /\ UNCHANGED <<size, latest, state, pass>>
          /\ \A q \in Publications : pub'[q].size = pub[q].size
      BY <1>3, <1>t DEF PublishRow, witVars, WitnessTypeOK
    <2> QED BY <2>1 DEF Ordered, InOrder, Main
  <1>4. ASSUME NEW p \in Publications, PublishFile(p) PROVE Ordered'
    <2>1. /\ UNCHANGED <<size, state, pass>>
          /\ latest' = LogHead("main", pub[p].size) /\ pub[p].size > 0
          /\ \A q \in Publications : pub'[q].size = 0
      BY <1>4, <1>t DEF PublishFile, NoSave, witVars, PublicationsApart, WitnessTypeOK
    <2>2. /\ pub[p].size \in 0..size /\ latest'.size = pub[p].size
      BY <1>t, <2>1 DEF WitnessTypeOK, LogHead
    <2> QED BY <2>1, <2>2 DEF Ordered, InOrder, Main
  <1>5. ASSUME NEW p \in Publications, PublishFails(p) PROVE Ordered'
    <2>1. /\ UNCHANGED <<size, latest, state, pass>>
          /\ \A q \in Publications : pub'[q].size = 0
      BY <1>5, <1>t DEF PublishFails, NoSave, witVars, PublicationsApart, WitnessTypeOK
    <2> QED BY <2>1 DEF Ordered, InOrder, Main
  <1>6. ASSUME NEW n \in 1..MaxSize, Fork(n) PROVE Ordered'
    <2>1. UNCHANGED <<size, pub, state, pass>> /\ latest'.hist = "fork"
      BY <1>6, WitnessAssumption DEF Fork, LogHead, witVars
    <2> QED BY <2>1 DEF Ordered, InOrder, Main
  <1>7. ASSUME NEW w \in Passes, Fetch(w) \/ Decide(w) \/ Check(w) \/ Unavailable(w)
        PROVE  Ordered'
    <2>1. \A v \in Passes : v = w
      BY DEF PassesApart
    <2>2. UNCHANGED <<size, latest, pub>>
      BY <1>7 DEF Fetch, Decide, Check, Unavailable, Countersign, RefuseHead, logVars
    <2>3. CASE Fetch(w)
      <3>1. UNCHANGED state /\ pass'[w].head = latest /\ latest \in Heads
        BY <1>t, <2>3, Fetches DEF Fetch
      <3>2. Main(latest) => latest.size <= latest.size
        BY <3>1, <1>h
      <3> QED BY <2>1, <2>2, <3>1, <3>2 DEF Ordered, InOrder, Main
    <2>4. CASE AsksProof(w)
      <3>1. UNCHANGED state /\ pass'[w].head = pass[w].head /\ pass[w].phase = "fetched"
        BY <1>t, <2>4, Asks DEF AsksProof
      <3> QED BY <2>1, <2>2, <3>1 DEF Ordered, InOrder, Main
    <2>5. ASSUME End(w), UNCHANGED state PROVE Ordered'
      <3>1. pass'[w].phase = "idle"
        BY <1>t, <2>5, Ends
      <3> QED BY <2>1, <2>2, <2>5, <3>1 DEF Ordered, InOrder, Main
    <2>6. CASE Countersign(w) /\ pass[w].phase # "idle"
      <3>1. pass'[w].phase = "idle" /\ state' = pass[w].head
        BY <1>t, <2>6, Ends DEF Countersign
      <3> QED BY <2>1, <2>2, <2>6, <3>1 DEF Ordered, InOrder, Main
    <2> QED BY <1>t, <1>7, <2>3, <2>4, <2>5, <2>6, WitnessSteps DEF RefuseHead
  <1>8. CASE ProbeHead \/ ProbeEnd
    BY <1>8 DEF ProbeHead, ProbeEnd, logVars, witVars, Ordered, InOrder, Main
  <1>9. CASE UNCHANGED witnessVars
    BY <1>9 DEF witnessVars, logVars, witVars, Ordered, InOrder, Main
  <1> QED BY <1>1, <1>2, <1>3, <1>4, <1>5, <1>6, <1>7, <1>8, <1>9 DEF WitnessNext

LEMMA AlarmInvNext == PassesApart /\ PublicationsApart /\ AlarmInv /\ [WitnessNext]_witnessVars => AlarmInv'
  <1> SUFFICES ASSUME PassesApart, PublicationsApart, AlarmInv, [WitnessNext]_witnessVars PROVE AlarmInv'
    OBVIOUS
  <1>s. SignInv /\ Ordered /\ Founded /\ SignInv'
    BY SignInvNext DEF AlarmInv
  <1>o. Ordered'
    BY <1>s, OrderedNext
  <1>t. WitnessTypeOK /\ PassInv
    BY <1>s DEF SignInv
  <1>1. ASSUME UNCHANGED alarms PROVE Founded'
    BY <1>s, <1>1 DEF Founded
  <1>2. ASSUME NEW w \in Passes, NEW prev \in Heads, RefuseHead(w, prev), prev # None,
               pass[w].phase # "idle", state = prev,
               ~Extends(pass[w].head, prev) \/ Shrank(pass[w].head)
        PROVE  Founded'
    <2>1. pass[w].head \in Heads /\ pass[w].head # None /\ InOrder(prev, pass[w].head)
      BY <1>s, <1>t, <1>2 DEF PassInv, WitnessTypeOK, Ordered
    <2>2. alarms' = alarms \cup {[head |-> pass[w].head, prev |-> prev]}
      BY <1>2 DEF RefuseHead
    <2>3. ~Extends(pass[w].head, prev) \/ pass[w].head.size < prev.size
      <3> SUFFICES ASSUME Shrank(pass[w].head), Extends(pass[w].head, prev)
                   PROVE  pass[w].head.size < prev.size
        BY <1>2
      <3>1. prev = LogHead(pass[w].head.hist, prev.size)
        BY DEF Extends
      <3>2. pass[w].head = LogHead(pass[w].head.hist, pass[w].head.size)
        BY <2>1, HeadsAre
      <3> QED BY <1>2, <3>1, <3>2 DEF Shrank
    <2>4. pass[w].head.hist = "main" => prev.hist = "fork"
      BY <1>t, <1>2, <2>1, <2>3, AlarmFounded
    <2> QED BY <1>s, <2>2, <2>4 DEF Founded
  <1>3. ASSUME NEW w \in Passes, Fetch(w) \/ Decide(w) \/ Check(w) \/ Unavailable(w)
        PROVE  Founded'
    <2>1. state # None => state \in Heads
      BY <1>t DEF WitnessTypeOK
    <2>2. pass[w].phase = "proving" => pass[w].prev = state /\ state # None
      BY <1>t DEF PassInv
    <2> QED BY <1>t, <1>1, <1>2, <1>3, <2>1, <2>2, WitnessSteps
            DEF Fetch, AsksProof, Countersign
  <1> QED BY <1>s, <1>o, <1>1, <1>3
          DEF AlarmInv, WitnessNext, Grow, PublishBegin, PublishRow, PublishFile, PublishFails, Fork,
              ProbeHead, ProbeEnd, witVars, witnessVars

(* Whoever runs the log honestly is never accused, neither by the witness  *)
(* nor by the probe (deploy/RUNBOOK.md:126), when a pass of the witness    *)
(* and one of the publisher take less than their intervals.                *)
THEOREM NeverAccuses ==
    ASSUME PassesApart, PublicationsApart PROVE WitnessSpec => []NoFalseAlarm
  <1>1. AlarmInv => NoFalseAlarm
    <2> SUFFICES ASSUME AlarmInv PROVE NoFalseAlarm
      OBVIOUS
    <2>1. ASSUME probe > 0, latest # None, Changed PROVE ~OneHistory
      <3>1. latest \in Heads /\ probe \in Nat
        BY <2>1, WitnessAssumption DEF AlarmInv, SignInv, WitnessTypeOK
      <3> QED BY <2>1, <3>1, MainExtends DEF Changed, OneHistory
    <2> QED BY <2>1 DEF NoFalseAlarm, AlarmInv, Founded
  <1> QED BY AlarmInvInit, AlarmInvNext, <1>1, PTL DEF WitnessSpec

===============================================================================
