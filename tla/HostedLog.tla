------------------------------ MODULE HostedLog ------------------------------
(***************************************************************************)
(* One tenant's log in Postgres (receipts/src/log-store.ts, PostgresLog),  *)
(* served by several instances of the log server.                          *)
(*                                                                         *)
(* Each instance keeps the leaf hashes in memory.  Its appends run one at  *)
(* a time through `chain`, each in a transaction under the tenant's        *)
(* advisory lock; the memory is extended when the answer to COMMIT         *)
(* arrives.  Reads (heads for GET /head and the checkpoint publisher) do   *)
(* not go through `chain`: they count the rows, and reload the memory when *)
(* the count differs from it.  An action is what happens at one point in   *)
(* time: a query evaluated by the database, or its answer handled by the   *)
(* instance.  Row k of the table is the row with seq = k - 1.              *)
(***************************************************************************)
EXTENDS Naturals, Sequences, Functions

CONSTANTS
    Leaves,     \* the append requests, each with its leaf
    Instances,  \* log server processes on one database
    Appenders,  \* the instances appends are sent to
    Readers,    \* the instances heads are asked of
    Reads,      \* the requests for a head
    Crashes     \* bound: how many times an instance may die

ASSUME HostedLogAssumption ==
    /\ Instances # {}
    /\ Appenders \subseteq Instances
    /\ Readers \subseteq Instances
    /\ Crashes \in Nat

VARIABLES
    table,      \* the committed rows, by seq
    boot,       \* per instance, this.ready: cold | ready | broken
    hashes,     \* per instance, this.hashes
    queue,      \* per instance, the appends behind this.chain
    tx,         \* per instance, where the append at the head of queue stands
    seq,        \* per instance, the seq of the row inserted, not yet committed
    read,       \* per read: its phase, instance, count, rows and size
    acked,      \* what appends returned: [leaf, index]
    failed,     \* appends that were rejected
    heads,      \* every head signed, with an append or for a read
    crashed     \* how many crashes have happened

dbVars   == <<table, seq>>
instVars == <<boot, hashes, queue, tx>>
outVars  == <<acked, failed, heads>>
vars == <<dbVars, instVars, read, outVars, crashed>>

Idle == [phase |-> "idle", at |-> CHOOSE i \in Instances : TRUE, count |-> 0,
         rows |-> <<>>, round |-> 1, size |-> 0]

Init ==
    /\ table = <<>>
    /\ boot = [i \in Instances |-> "cold"]
    /\ hashes = [i \in Instances |-> <<>>]
    /\ queue = [i \in Instances |-> <<>>]
    /\ tx = [i \in Instances |-> "none"]
    /\ seq = [i \in Instances |-> 0]
    /\ read = [r \in Reads |-> Idle]
    /\ acked = {} /\ failed = {} /\ heads = {}
    /\ crashed = 0

------------------------------------------------------------------------------
(* The first use of an instance creates the table and loads it.  A         *)
(* rejected this.ready is kept: the instance refuses from then on.         *)

Boot(i) ==
    /\ boot[i] = "cold"
    /\ boot' = [boot EXCEPT ![i] = "ready"]
    /\ hashes' = [hashes EXCEPT ![i] = table]
    /\ UNCHANGED <<dbVars, queue, tx, read, outVars, crashed>>

BootFails(i) ==
    /\ boot[i] = "cold"
    /\ boot' = [boot EXCEPT ![i] = "broken"]
    /\ UNCHANGED <<dbVars, hashes, queue, tx, read, outVars, crashed>>

------------------------------------------------------------------------------
(* Appends.                                                                *)

Request(l, i) ==
    /\ i \in Appenders
    /\ \A j \in Instances : l \notin Range(queue[j])
    /\ l \notin failed /\ \A a \in acked : a.leaf # l
    /\ queue' = [queue EXCEPT ![i] = Append(@, l)]
    /\ UNCHANGED <<dbVars, boot, hashes, tx, read, outVars, crashed>>

Current(i) == Head(queue[i])
Dequeue(i) == queue' = [queue EXCEPT ![i] = Tail(@)]

Holding == {"locked", "inserted"}

(* BEGIN and pg_advisory_xact_lock.  Mutant: the lock is not taken.        *)
LockFreeIgnored(i) == TRUE
LockFree(i) == \A j \in Instances : tx[j] \notin Holding

Lock(i) ==
    /\ boot[i] = "ready" /\ queue[i] # <<>> /\ tx[i] = "none"
    /\ LockFree(i)
    /\ tx' = [tx EXCEPT ![i] = "locked"]
    /\ UNCHANGED <<dbVars, boot, hashes, queue, read, outVars, crashed>>

(* The count inside the lock, the reload when it differs, and the INSERT   *)
(* at seq = this.hashes.length.                                            *)
Insert(i) ==
    /\ tx[i] = "locked"
    /\ hashes' = [hashes EXCEPT ![i] = IF Len(table) # Len(@) THEN table ELSE @]
    /\ seq' = [seq EXCEPT ![i] = Len(hashes'[i]) + 1]
    /\ tx' = [tx EXCEPT ![i] = "inserted"]
    /\ UNCHANGED <<table, boot, queue, read, outVars, crashed>>

(* COMMIT evaluated: the row is visible and the lock free.  A row with the *)
(* same key makes the transaction fail instead.                            *)
Commit(i) ==
    /\ tx[i] = "inserted"
    /\ seq[i] = Len(table) + 1
    /\ table' = Append(table, Current(i))
    /\ tx' = [tx EXCEPT ![i] = "committed"]
    /\ UNCHANGED <<seq, boot, hashes, queue, read, outVars, crashed>>

(* Mutant: a failed append stays at the head of the chain.                 *)
FailStuck(i) ==
    /\ tx[i] \in {"locked", "inserted", "committed"}
    /\ tx' = [tx EXCEPT ![i] = "stuck"]
    /\ failed' = failed \cup {Current(i)}
    /\ UNCHANGED <<dbVars, boot, hashes, queue, read, acked, heads, crashed>>

(* A query or the COMMIT is refused, or its answer is lost: rolled back,   *)
(* or, after the COMMIT was evaluated, not.  The next in the chain runs.   *)
Fail(i) ==
    /\ tx[i] \in {"locked", "inserted", "committed"}
    /\ tx' = [tx EXCEPT ![i] = "none"]
    /\ failed' = failed \cup {Current(i)}
    /\ Dequeue(i)
    /\ UNCHANGED <<dbVars, boot, hashes, read, acked, heads, crashed>>

(* init rejected: every append does.                                       *)
Refuse(i) ==
    /\ boot[i] = "broken" /\ queue[i] # <<>>
    /\ failed' = failed \cup {Current(i)}
    /\ Dequeue(i)
    /\ UNCHANGED <<dbVars, boot, hashes, tx, read, acked, heads, crashed>>

(* The answer to COMMIT: this.hashes.push, and the proof and the signed    *)
(* head of the extended memory.  Mutant: the index of the next leaf.       *)
AckIndexNext(h) == Len(h) + 1
AckIndex(h) == Len(h)

Push(i) ==
    /\ tx[i] = "committed"
    /\ hashes' = [hashes EXCEPT ![i] = Append(@, Current(i))]
    /\ acked' = acked \cup {[leaf |-> Current(i), index |-> AckIndex(hashes'[i])]}
    /\ heads' = heads \cup {hashes'[i]}
    /\ tx' = [tx EXCEPT ![i] = "none"]
    /\ Dequeue(i)
    /\ UNCHANGED <<dbVars, boot, read, failed, crashed>>

------------------------------------------------------------------------------
(* GET /head and the publisher: size(), then root(size), each after a      *)
(* sync(): a count, and a reload when it differs from the memory.          *)

ReadStart(r, i) ==
    /\ read[r].phase = "idle"
    /\ i \in Readers /\ boot[i] = "ready"
    /\ read' = [read EXCEPT ![r] = [@ EXCEPT !.phase = "asking", !.at = i]]
    /\ UNCHANGED <<dbVars, instVars, outVars, crashed>>

ReadCount(r) ==
    /\ read[r].phase = "asking"
    /\ read' = [read EXCEPT ![r] = [@ EXCEPT !.phase = "counted", !.count = Len(table)]]
    /\ UNCHANGED <<dbVars, instVars, outVars, crashed>>

(* What a sync that ends with memory h leads to.  A memory that has become *)
(* shorter than the size asked for is an error.                            *)
Synced(r, h) ==
    IF read[r].round = 1
    THEN /\ read' = [read EXCEPT ![r] =
                [@ EXCEPT !.phase = "asking", !.round = 2, !.size = Len(h)]]
         /\ UNCHANGED heads
    ELSE /\ read' = [read EXCEPT ![r] = [@ EXCEPT !.phase = "done"]]
         /\ heads' = IF read[r].size <= Len(h)
                     THEN heads \cup {SubSeq(h, 1, read[r].size)} ELSE heads

ReadFresh(r) ==
    /\ read[r].phase = "counted"
    /\ read[r].count = Len(hashes[read[r].at])
    /\ Synced(r, hashes[read[r].at])
    /\ UNCHANGED <<dbVars, instVars, acked, failed, crashed>>

ReadStale(r) ==
    /\ read[r].phase = "counted"
    /\ read[r].count # Len(hashes[read[r].at])
    /\ read' = [read EXCEPT ![r] = [@ EXCEPT !.phase = "selecting"]]
    /\ UNCHANGED <<dbVars, instVars, outVars, crashed>>

ReadSelect(r) ==
    /\ read[r].phase = "selecting"
    /\ read' = [read EXCEPT ![r] = [@ EXCEPT !.phase = "selected", !.rows = table]]
    /\ UNCHANGED <<dbVars, instVars, outVars, crashed>>

ReadReload(r) ==
    /\ read[r].phase = "selected"
    /\ hashes' = [hashes EXCEPT ![read[r].at] = read[r].rows]
    /\ Synced(r, read[r].rows)
    /\ UNCHANGED <<dbVars, boot, queue, tx, acked, failed, crashed>>

------------------------------------------------------------------------------
(* An instance dies; its open transaction is rolled back, its memory and   *)
(* its queue are gone, and it starts cold.                                 *)
Crash(i) ==
    /\ crashed < Crashes
    /\ crashed' = crashed + 1
    /\ boot' = [boot EXCEPT ![i] = "cold"]
    /\ hashes' = [hashes EXCEPT ![i] = <<>>]
    /\ failed' = failed \cup Range(queue[i])
    /\ queue' = [queue EXCEPT ![i] = <<>>]
    /\ tx' = [tx EXCEPT ![i] = "none"]
    /\ read' = [r \in Reads |-> IF read[r].at = i /\ read[r].phase # "idle"
                                THEN [read[r] EXCEPT !.phase = "done"] ELSE read[r]]
    /\ UNCHANGED <<dbVars, acked, heads>>

AppendStep(i) ==
    \/ Boot(i) \/ BootFails(i) \/ Refuse(i)
    \/ Lock(i) \/ Insert(i) \/ Commit(i) \/ Fail(i) \/ Push(i)

ReadStep(r) ==
    ReadCount(r) \/ ReadFresh(r) \/ ReadStale(r) \/ ReadSelect(r) \/ ReadReload(r)

Next ==
    \/ \E i \in Instances : AppendStep(i) \/ Crash(i)
    \/ \E l \in Leaves, i \in Instances : Request(l, i)
    \/ \E r \in Reads : ReadStep(r) \/ \E i \in Instances : ReadStart(r, i)

Spec == Init /\ [][Next]_vars

(* The database answers or the connection breaks, and the advisory lock is *)
(* granted in turn.                                                        *)
FairSpec == Spec /\ \A i \in Instances : WF_vars(AppendStep(i))

------------------------------------------------------------------------------
ReadStates ==
    [phase : {"idle", "asking", "counted", "selecting", "selected", "done"},
     at : Instances, count : Nat, rows : Seq(Leaves), round : {1, 2}, size : Nat]

TypeOK ==
    /\ table \in Seq(Leaves)
    /\ boot \in [Instances -> {"cold", "ready", "broken"}]
    /\ hashes \in [Instances -> Seq(Leaves)]
    /\ queue \in [Instances -> Seq(Leaves)]
    /\ tx \in [Instances -> {"none", "locked", "inserted", "committed"}]
    /\ \A i \in Instances : tx[i] # "none" => queue[i] # <<>> /\ boot[i] = "ready"
    /\ seq \in [Instances -> Nat]
    /\ read \in [Reads -> ReadStates]
    /\ acked \subseteq [leaf : Leaves, index : Nat]
    /\ failed \subseteq Leaves
    /\ heads \subseteq Seq(Leaves)
    /\ crashed \in 0..Crashes

(* log-store.ts:164-171: under the lock, and with the memory recounted     *)
(* inside it, an INSERT takes the seq right after the last row whatever    *)
(* the other instances have appended: no append fails on another's row,    *)
(* and no seq is skipped.                                                  *)
NextSeqInserted ==
    \A i \in Instances : tx[i] = "inserted" => seq[i] = Len(table) + 1

(* log-store.ts:1-5, "one writer per tenant enforced by an advisory lock   *)
(* so a second instance is safe": every head ever signed, by any instance, *)
(* is a head of the table, so any two of them are heads of one history.    *)
HeadsAgree ==
    \A h \in heads : Len(h) <= Len(table) /\ h = SubSeq(table, 1, Len(h))

(* log-store.ts:174: the index an append returned is its leaf's, for good. *)
AcksStand ==
    \A a \in acked : a.index \in DOMAIN table /\ table[a.index] = a.leaf

(* The table, what was acknowledged of it and what was signed of it are of *)
(* one history (log-store.ts:1-5, 164-174).                                *)
OneLog == TypeOK /\ NextSeqInserted /\ HeadsAgree /\ AcksStand

(* log-store.ts:176-178: an append that fails does not hold up those       *)
(* behind it; every append is answered or lost with its instance.          *)
QueueDrains ==
    \A i \in Instances, l \in Leaves : l \in Range(queue[i]) ~> l \notin Range(queue[i])

(* The hosted log is an append-only log to everyone who holds its answers. *)
Log == INSTANCE AppendOnlyLog WITH entries <- table, acks <- acked
LogKept == Log!Spec
==============================================================================
