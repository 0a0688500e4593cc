------------------------------ MODULE Witness ------------------------------
(***************************************************************************)
(* Checkpoints, their witness and the outside probe (receipts/src/         *)
(* log-sink.ts, publishOnce; checkpoints.ts; witness.ts; log-check.ts).    *)
(*                                                                         *)
(* The log's operator publishes signed heads in two stores, a table and    *)
(* latest.json; the witness fetches latest.json, and countersigns the head *)
(* when it extends the last one it countersigned, which it keeps in        *)
(* state.json.  The probe compares the log's head with latest.json and the *)
(* witness.  All three run a pass every interval, publisher and witness    *)
(* whether or not the pass before has ended, and wait on the network       *)
(* between their steps.                                                    *)
(*                                                                         *)
(* The operator may show a second history, which agrees with the log up to *)
(* ForkAt leaves.  A head is a history and a size; up to ForkAt the two    *)
(* histories have the same heads.  A consistency proof verifies exactly    *)
(* when the one head is a prefix of the other.                             *)
(***************************************************************************)
EXTENDS Naturals

CONSTANTS
    Publications,   \* the publisher's passes that may run at once
    Passes,         \* the witness's passes that may run at once
    ForkAt,         \* where the second history leaves the log
    MaxSize,        \* bound: the log's largest size
    None            \* no head

ASSUME WitnessAssumption == ForkAt \in Nat /\ MaxSize \in Nat

VARIABLES
    size,       \* the log's size
    rows,       \* the largest size in the table, or 0
    latest,     \* the head in latest.json, or None
    pub,        \* per publication, the size it saves, or 0, and where
    pass,       \* per pass, its phase, the head fetched and the one signed
    state,      \* the head in state.json, or None
    signed,     \* every head countersigned
    alarms,     \* every refusal: the head, and the one signed before
    probe       \* the size of the head the probe was given, or 0

logVars == <<size, rows, latest, pub>>
witVars == <<pass, state, signed, alarms>>
witnessVars == <<logVars, witVars, probe>>

LogHead(hist, n) == [hist |-> IF n <= ForkAt THEN "main" ELSE hist, size |-> n]
Heads == {LogHead(hist, n) : hist \in {"main", "fork"}, n \in 1..MaxSize}

(* Mutant: only the sizes are compared.                                    *)
ExtendsBySize(h, g) == g.size <= h.size

(* verifyConsistency: g is a prefix of h.                                  *)
Extends(h, g) == g.size <= h.size /\ g = LogHead(h.hist, g.size)

NoPass == [phase |-> "idle", head |-> None, prev |-> None]
NoSave == [size |-> 0, to |-> "table"]

WitnessInit ==
    /\ size = 0 /\ rows = 0 /\ latest = None
    /\ pub = [p \in Publications |-> NoSave]
    /\ pass = [w \in Passes |-> NoPass]
    /\ state = None /\ signed = {} /\ alarms = {}
    /\ probe = 0

-----------------------------------------------------------------------------
(* The log and its publisher.                                              *)

Grow == size < MaxSize /\ size' = size + 1 /\ UNCHANGED <<rows, latest, pub, witVars, probe>>

(* Mutant: only the first store is asked what was published last.          *)
BehindFirst == IF rows = 0 THEN 0 ELSE rows

(* bothCheckpoints: the size of the last checkpoint in the store that is   *)
(* furthest behind; 0 when one has none.                                   *)
Behind == IF latest = None THEN 0 ELSE IF rows < latest.size THEN rows ELSE latest.size

(* Not when the checkpoint is as large as the log, unless it is old.       *)
Due(stale) == Behind = 0 \/ Behind < size \/ stale

PublishBegin(p, stale) ==
    /\ pub[p].size = 0 /\ size > 0
    /\ Due(stale)
    /\ pub' = [pub EXCEPT ![p].size = size]
    /\ UNCHANGED <<size, rows, latest, witVars, probe>>

(* postgresCheckpoints: one row per size; the last is the largest.         *)
PublishRow(p) ==
    /\ pub[p].size > 0 /\ pub[p].to = "table"
    /\ rows' = IF pub[p].size > rows THEN pub[p].size ELSE rows
    /\ pub' = [pub EXCEPT ![p].to = "file"]
    /\ UNCHANGED <<size, latest, witVars, probe>>

(* dirCheckpoints: latest.json is what was written last.                   *)
PublishFile(p) ==
    /\ pub[p].size > 0 /\ pub[p].to = "file"
    /\ latest' = LogHead("main", pub[p].size)
    /\ pub' = [pub EXCEPT ![p] = NoSave]
    /\ UNCHANGED <<size, rows, witVars, probe>>

(* The root, the signature or a write fails; the next pass tries again.    *)
PublishFails(p) ==
    /\ pub[p].size > 0
    /\ pub' = [pub EXCEPT ![p] = NoSave]
    /\ UNCHANGED <<size, rows, latest, witVars, probe>>

(* The operator shows the second history.                                  *)
Fork(n) ==
    /\ n > ForkAt
    /\ latest' = LogHead("fork", n)
    /\ UNCHANGED <<size, rows, pub, witVars, probe>>

-----------------------------------------------------------------------------
(* The witness.                                                            *)

Fetch(w) ==
    /\ pass[w].phase = "idle" /\ latest # None
    /\ pass' = [pass EXCEPT ![w].phase = "fetched", ![w].head = latest]
    /\ UNCHANGED <<logVars, state, signed, alarms, probe>>

End(w) == pass' = [pass EXCEPT ![w] = NoPass]

(* The alarm is written; the state stays at the last head signed.          *)
RefuseHead(w, prev) ==
    /\ alarms' = alarms \cup {[head |-> pass[w].head, prev |-> prev]}
    /\ End(w)
    /\ UNCHANGED <<logVars, state, signed, probe>>

(* The three files are written without an await between them.              *)
Countersign(w) ==
    /\ signed' = signed \cup {pass[w].head}
    /\ state' = pass[w].head
    /\ End(w)
    /\ UNCHANGED <<logVars, alarms, probe>>

(* Smaller than the last one signed, or the same size with another root.   *)
Shrank(h) == h.size < state.size \/ (h.size = state.size /\ h # state)

(* The state is read when the checkpoint has arrived.                      *)
Decide(w) ==
    /\ pass[w].phase = "fetched"
    /\ LET h == pass[w].head IN
        \/ state = None /\ Countersign(w)
        \/ state # None /\ Shrank(h) /\ RefuseHead(w, state)
        \/ state # None /\ h = state /\ End(w) /\ UNCHANGED <<logVars, state, signed, alarms, probe>>
        \/ /\ state # None /\ h.size > state.size
           /\ pass' = [pass EXCEPT ![w].phase = "proving", ![w].prev = state]
           /\ UNCHANGED <<logVars, state, signed, alarms, probe>>

(* The proof has arrived.                                                  *)
Check(w) ==
    /\ pass[w].phase = "proving"
    /\ IF Extends(pass[w].head, pass[w].prev) THEN Countersign(w) ELSE RefuseHead(w, pass[w].prev)

(* A request fails, or latest.json is read half written: "unavailable".    *)
Unavailable(w) ==
    /\ pass[w].phase # "idle"
    /\ End(w)
    /\ UNCHANGED <<logVars, state, signed, alarms, probe>>

-----------------------------------------------------------------------------
(* The probe, checkLog: the log's head, signed as it answers; then         *)
(* latest.json, and the log's proof that the head extends it; then the     *)
(* witness's last head and its alarm.  The checks are of what it would     *)
(* read now.                                                               *)

ProbeHead == probe = 0 /\ probe' = size /\ UNCHANGED <<logVars, witVars>>

(* Mutant: the proof is asked for whichever of the two is larger.          *)
ChangedEitherWay == ~Extends(LogHead("main", probe), latest)

(* "head extends the checkpoint" fails; not asked of a larger checkpoint.  *)
Changed == latest.size <= probe /\ ~Extends(LogHead("main", probe), latest)

(* "checkpoint keeps up with the head" fails.  A head is signed when it is *)
(* asked for, so one that is ahead of the checkpoint never is too old;     *)
(* `idle` is a checkpoint at the head that is older than maxIdle.          *)
Trails(idle) == latest.size > probe \/ (latest.size = probe /\ idle)

(* Every check passes; `old` is a checkpoint that is older than maxLag.    *)
Healthy(idle, old) ==
    /\ latest # None /\ ~Changed /\ ~Trails(idle)
    /\ state # None /\ (old => state.size >= latest.size)
    /\ alarms = {}

(* The verdict is printed, or a request has failed.                        *)
ProbeEnd == probe > 0 /\ probe' = 0 /\ UNCHANGED <<logVars, witVars>>

WitnessNext ==
    \/ Grow
    \/ \E p \in Publications : \/ \E stale \in BOOLEAN : PublishBegin(p, stale)
                               \/ PublishRow(p) \/ PublishFile(p) \/ PublishFails(p)
    \/ \E n \in 1..MaxSize : Fork(n)
    \/ \E w \in Passes : Fetch(w) \/ Decide(w) \/ Check(w) \/ Unavailable(w)
    \/ ProbeHead \/ ProbeEnd

WitnessSpec == WitnessInit /\ [][WitnessNext]_witnessVars

(* start: setInterval begins pass after pass, whatever became of the one   *)
(* before; publishing and witnessing do not fail forever.                  *)
KeepsPublishing(p) == WF_witnessVars(PublishBegin(p, FALSE)) /\ SF_witnessVars(PublishRow(p)) /\ SF_witnessVars(PublishFile(p))
KeepsWitnessing(w) == WF_witnessVars(Fetch(w)) /\ SF_witnessVars(Decide(w)) /\ SF_witnessVars(Check(w))

WitnessFairSpec ==
    WitnessSpec /\ (\A p \in Publications : KeepsPublishing(p)) /\ (\A w \in Passes : KeepsWitnessing(w))

-----------------------------------------------------------------------------
(* Properties.                                                             *)

OneHistory == latest = None \/ latest.hist = "main"

(* The state is well formed, and state.json names a head that was signed.  *)
WitnessTypeOK ==
    /\ size \in 0..MaxSize /\ rows \in 0..size /\ latest \in Heads \cup {None}
    /\ pub \in [Publications -> [size : 0..size, to : {"table", "file"}]]
    /\ pass \in [Passes -> [phase : {"idle", "fetched", "proving"},
                            head : Heads \cup {None}, prev : Heads \cup {None}]]
    /\ state \in signed \cup {None} /\ signed \subseteq Heads
    /\ alarms \subseteq [head : Heads, prev : Heads]
    /\ probe \in 0..size

(* Two heads the witness has countersigned are never of two histories: at  *)
(* least one is of the leaves the two have in common.                      *)
SignedConsistent ==
    \A g, h \in signed : g.hist # h.hist => g.size <= ForkAt \/ h.size <= ForkAt

(* A log whose checkpoint is of another history than its head is never     *)
(* healthy, however the two have moved while the probe asked.              *)
HealthyIsOneHistory ==
    probe > 0 => \A idle, old \in BOOLEAN : Healthy(idle, old) => OneHistory

(* What the witness has signed is one history, its state is of it, and so  *)
(* is what the probe calls healthy (witness.ts:131-157, log-check.ts).     *)
Consistent == WitnessTypeOK /\ SignedConsistent /\ HealthyIsOneHistory

(* A head the log really had is refused only when the last one signed was  *)
(* of the other history: the witness never accuses an honest log.  Nor     *)
(* does the probe: given the proof, "head extends the checkpoint" fails    *)
(* only when the operator shows the other history (deploy/RUNBOOK.md:126). *)
NoFalseAlarm ==
    /\ \A a \in alarms : a.head.hist = "main" => a.prev.hist = "fork"
    /\ probe > 0 /\ latest # None /\ Changed => ~OneHistory

(* The log's head, or a larger one, is in the table in the end, and while  *)
(* the operator shows one history in latest.json, it is countersigned: a   *)
(* store that missed a write is caught up (checkpoints.ts:90-94).          *)
Witnessed ==
    \A n \in 1..MaxSize :
        (size >= n) ~> /\ rows >= n
                       /\ \/ \E h \in signed : h.size >= n
                          \/ alarms # {}
                          \/ ~OneHistory

=============================================================================
