------------------------------ MODULE FileLog ------------------------------
(***************************************************************************)
(* A log kept in a file (receipts/src/log.ts, MerkleLog; log-sink.ts,      *)
(* fileLog; issue.ts; retention.ts; log-store.ts, fileBackend and          *)
(* importLogFile; log-export.ts), and the signer of its heads (signer.ts). *)
(*                                                                         *)
(* A process reads the file when it opens the log, and from then on goes   *)
(* by its memory: an append writes a line and adds to the memory of the    *)
(* process that made it.  `prune` reads the file and renames its rewrite   *)
(* over it; nothing keeps the two, or two processes, apart.  The model     *)
(* lets them meet, and remembers that they did.                            *)
(*                                                                         *)
(* A leaf is the number of the call that issued it, and older leaves have  *)
(* smaller numbers.  Of the signer's keys the model keeps whether the one  *)
(* it signs with now is in the document an export has fetched.             *)
(***************************************************************************)
EXTENDS Merkle, FiniteSets

CONSTANTS
    Procs,       \* processes that open the file: the gateway, the log server
    Page,        \* leaves in one answer to an export
    MaxLeaves    \* bound: how many leaves are ever issued

ASSUME FileLogAssumption == Page \in Nat \ {0} /\ MaxLeaves \in Nat

VARIABLES
    file,      \* the lines: the leaf, and whether its text, its hash, or only its hash by pruning
    torn,      \* the file ends in part of a line
    mem,       \* the leaves a process holds, or Closed
    call,      \* what a process has under way: nothing, a line written, an answer given
    issued,    \* the number of leaves issued
    answers,   \* appends answered: the leaf, and the tree the proof and the root were of
    bundles,   \* receipts in the receipts directory
    prune,     \* a run of prune: nothing, or the file as it was read
    backend,   \* the log an import fills
    import,    \* a run of importLogFile: the leaves still to append
    export,    \* a run of log-export: is the signing key in its document, the head, the leaves so far
    apart      \* history: no two of these have met on the file

fileLogVars == <<file, torn, mem, call, issued, answers, bundles>>
copies  == <<backend, import, export>>
fileVars == <<fileLogVars, prune, copies, apart>>

Closed == <<0>>   \* no leaf has the number 0
NoCall == [at |-> "idle", leaf |-> 0]
NoRun  == [at |-> "none", read |-> <<>>, cutoff |-> 0]
NoExport == [at |-> "none", listed |-> FALSE, head |-> <<>>, got |-> <<>>]

LeavesOf(lines) == [i \in DOMAIN lines |-> lines[i].leaf]
Hashes(leaves) == [i \in DOMAIN leaves |-> LeafHash(leaves[i])]
\* What an auditor who holds a copy of the file finds as its root at an earlier size.
RootFromFile(lines, size) == Mth(Hashes(LeavesOf(lines)), 0, size)
Open(p) == mem[p] # Closed
NoJob == prune = NoRun /\ import = <<>> /\ export = NoExport   \* bound: an operator runs one at a time

FileInit ==
    /\ file = <<>> /\ torn = FALSE /\ issued = 0 /\ answers = {} /\ bundles = {}
    /\ mem = [p \in Procs |-> Closed] /\ call = [p \in Procs |-> NoCall]
    /\ prune = NoRun /\ backend = <<>> /\ import = <<>> /\ export = NoExport
    /\ apart = TRUE

-----------------------------------------------------------------------------
(* A process and its log.                                                  *)

\* The constructor: every line is read; a line that is no JSON is an error.
Start(p) ==
    /\ ~Open(p) /\ ~torn
    /\ mem' = [mem EXCEPT ![p] = LeavesOf(file)]
    /\ apart' = (apart /\ \A q \in Procs : ~Open(q))
    /\ UNCHANGED <<file, torn, call, issued, answers, bundles, prune, copies>>

Stop(p) ==
    /\ Open(p)
    /\ mem' = [mem EXCEPT ![p] = Closed] /\ call' = [call EXCEPT ![p] = NoCall]
    /\ UNCHANGED <<file, torn, issued, answers, bundles, prune, copies, apart>>

\* append, or appendHash: first the line, then the memory.  A line that continues a torn one makes
\* one line that is no JSON, and what follows it is not read either.
Write(p, form) ==
    /\ Open(p) /\ call[p].at = "idle" /\ issued < MaxLeaves
    /\ issued' = issued + 1
    /\ file' = IF torn THEN file ELSE Append(file, [leaf |-> issued', form |-> form])
    /\ call' = [call EXCEPT ![p] = [at |-> "written", leaf |-> issued']]
    /\ UNCHANGED <<torn, mem, answers, bundles, prune, copies, apart>>

\* The process ends within the write: part of the line is in the file.
Tear(p) ==
    /\ Open(p) /\ call[p].at = "idle" /\ issued < MaxLeaves /\ ~torn
    /\ issued' = issued + 1 /\ torn' = TRUE
    /\ mem' = [mem EXCEPT ![p] = Closed]
    /\ UNCHANGED <<file, call, answers, bundles, prune, copies, apart>>

\* pushHash: the answer is of the memory with the leaf in it.
Answer(p) == [leaf |-> call[p].leaf, tree |-> Append(mem[p], call[p].leaf)]

PushHash(p) ==
    /\ call[p].at = "written"
    /\ mem' = [mem EXCEPT ![p] = Append(@, call[p].leaf)]
    /\ answers' = answers \cup {Answer(p)}
    /\ call' = [call EXCEPT ![p].at = "answered"]
    /\ UNCHANGED <<file, torn, issued, bundles, prune, copies, apart>>

\* signHead: the signer refuses, is away or answers with something else than an envelope.  The leaf
\* is in the log, and whoever sent it is told that it is not.
Unsigned(p) ==
    /\ call[p].at = "written"
    /\ mem' = [mem EXCEPT ![p] = Append(@, call[p].leaf)] /\ call' = [call EXCEPT ![p] = NoCall]
    /\ UNCHANGED <<file, torn, issued, answers, bundles, prune, copies, apart>>

\* issue: the bundle is written when the log has answered.
WriteBundle(p) ==
    /\ call[p].at = "answered"
    /\ bundles' = bundles \cup {call[p].leaf} /\ call' = [call EXCEPT ![p] = NoCall]
    /\ UNCHANGED <<file, torn, mem, issued, answers, prune, copies, apart>>

\* /consistency: sizes the log has not had yet are refused.
Extension(s, old) == IF old > Len(s) THEN <<>> ELSE ConsistencyProof(s, old)

\* auditExtends, of two heads: every head here is signed and names this log; a witness's signature
\* on the newer one is Witness.tla's.
HeadOf(tree) == [size |-> Len(tree), root |-> Root(Hashes(tree))]
AuditExtends(older, newer, proof) ==
    older.size <= newer.size /\ VerifyConsistency(older.size, older.root, newer.size, newer.root, proof)
WebAuditExtends(older, newer, proof) ==
    older.size <= newer.size /\ WebVerifyConsistency(older.size, older.root, newer.size, newer.root, proof)

-----------------------------------------------------------------------------
(* pruneLog.                                                               *)

\* What it prunes: receipts before the cutoff whose text is in the log.
Old(line, cutoff) == line.form = "text" /\ line.leaf < cutoff
OldLeaves(run) == {run.read[i].leaf : i \in {j \in DOMAIN run.read : Old(run.read[j], run.cutoff)}}

\* The cutoff is a date, and no call that is under way is that old.
PruneRead(cutoff) ==
    /\ NoJob /\ ~torn
    /\ \A p \in Procs : call[p].at = "idle" \/ cutoff <= call[p].leaf
    /\ prune' = [at |-> "read", read |-> file, cutoff |-> cutoff]
    /\ UNCHANGED <<fileLogVars, copies, apart>>

PruneBundle(l) ==
    /\ prune.at = "read"
    /\ l \in OldLeaves(prune) \cap bundles /\ bundles' = bundles \ {l}
    /\ UNCHANGED <<file, torn, mem, call, issued, answers, prune, copies, apart>>

\* A leaf that is old is left out of the file.
Dropped(run) == SelectSeq(run.read, LAMBDA line : ~Old(line, run.cutoff))
\* It is left as its hash.
Rewritten(run) == [i \in DOMAIN run.read |->
    IF Old(run.read[i], run.cutoff) THEN [run.read[i] EXCEPT !.form = "pruned"] ELSE run.read[i]]

\* The file is rewritten whatever bundles are still there.
RenameFirst ==
    /\ prune.at = "read"
    /\ file' = Rewritten(prune) /\ torn' = FALSE
    /\ apart' = (apart /\ prune.read = file /\ ~torn)
    /\ prune' = NoRun
    /\ UNCHANGED <<mem, call, issued, answers, bundles, copies>>

\* When the bundles are gone.
PruneRename ==
    /\ prune.at = "read" /\ OldLeaves(prune) \cap bundles = {}
    /\ file' = Rewritten(prune) /\ torn' = FALSE
    /\ apart' = (apart /\ prune.read = file /\ ~torn)
    /\ prune' = NoRun
    /\ UNCHANGED <<mem, call, issued, answers, bundles, copies>>

PruneStops == prune # NoRun /\ prune' = NoRun /\ UNCHANGED <<fileLogVars, copies, apart>>

-----------------------------------------------------------------------------
(* Copies: importLogFile into another log, and a tenant's export.          *)

LeftToImportFromTheStart(leaves) == leaves
LeftToImport(leaves) == SubSeq(leaves, Len(backend) + 1, Len(leaves))

ImportStart ==
    /\ NoJob /\ ~torn
    /\ import' = LeftToImport(LeavesOf(file))
    /\ UNCHANGED <<fileLogVars, prune, backend, export, apart>>

ImportNext ==
    /\ import # <<>>
    /\ backend' = Append(backend, Head(import)) /\ import' = Tail(import)
    /\ UNCHANGED <<fileLogVars, prune, export, apart>>

ImportStops == import # <<>> /\ import' = <<>> /\ UNCHANGED <<fileLogVars, prune, backend, export, apart>>

exportVars == <<fileLogVars, prune, backend, import, apart>>

\* fetchLogKeys: the document, which the log serves as its signer has it: the key it signs with
\* and those retired before.
ExportKeys(p) ==
    /\ NoJob /\ Open(p)
    /\ export' = [NoExport EXCEPT !.at = "keys", !.listed = TRUE]
    /\ UNCHANGED exportVars

\* The signer comes back with another key, and lists the one it had as retired: what it signed
\* before verifies as it did, what it signs from now on only by a document fetched from now on.
Rotate ==
    /\ export.listed /\ export' = [export EXCEPT !.listed = FALSE]
    /\ UNCHANGED exportVars

\* Does a head signed now verify with the keys that were fetched?
Verifies == export.listed

\* The signed head next, then pages of leaves as of its size; appends go on meanwhile.  A head
\* that does not verify ends the export, and an empty one leaves nothing to fetch.
ExportHead(p) ==
    /\ export.at = "keys" /\ Open(p)
    /\ export' = IF Verifies /\ mem[p] # <<>>
                 THEN [at |-> "paging", listed |-> FALSE, head |-> mem[p], got |-> <<>>] ELSE NoExport
    /\ UNCHANGED exportVars

\* leafHashes: a slice of what the log holds.
Smaller(a, b) == IF a < b THEN a ELSE b
PageOf(p, from) == SubSeq(mem[p], from + 1, Smaller(from + Page, Len(mem[p])))
CutToHead(page, room) == SubSeq(page, 1, Smaller(room, Len(page)))

\* The checkpoints last: those no larger than the head are held against the leaves.
Checkpoints == {a.tree : a \in answers}
CheckpointProblems(got, head) ==
    {tree \in Checkpoints : Len(tree) <= Len(head) /\ WebRootOf(Hashes(got), Len(tree)) # HeadOf(tree).root}

ExportPage(p) ==
    LET from == Len(export.got)
        got  == export.got \o CutToHead(PageOf(p, from), Len(export.head) - from)
    IN  /\ Open(p) /\ export.at = "paging" /\ PageOf(p, from) # <<>>
        /\ export' = [export EXCEPT !.got = got, !.at = IF Len(got) < Len(export.head) THEN @ ELSE "written"]
        /\ UNCHANGED exportVars

\* A request is refused, or the log returns no leaves where there should be some.
ExportStops == export.at # "none" /\ export' = NoExport /\ UNCHANGED exportVars

-----------------------------------------------------------------------------
FileNext ==
    \/ \E p \in Procs : \/ Start(p) \/ Stop(p) \/ Tear(p) \/ PushHash(p) \/ Unsigned(p) \/ WriteBundle(p)
                        \/ \E form \in {"text", "hash"} : Write(p, form)
                        \/ ExportKeys(p) \/ ExportHead(p) \/ ExportPage(p)
    \/ \E cutoff \in 2..MaxLeaves + 1 : PruneRead(cutoff)
    \/ \E l \in bundles : PruneBundle(l)
    \/ PruneRename \/ PruneStops
    \/ ImportStart \/ ImportNext \/ ImportStops \/ ExportStops \/ Rotate

FileSpec == FileInit /\ [][FileNext]_fileVars

-----------------------------------------------------------------------------
(* Properties.                                                             *)

\* Types.
FileTypeOK ==
    /\ \A i \in DOMAIN file : file[i] \in [leaf : 1..MaxLeaves, form : {"text", "hash", "pruned"}]
    /\ torn \in BOOLEAN /\ apart \in BOOLEAN /\ issued \in 0..MaxLeaves
    /\ \A p \in Procs : Open(p) => Range(mem[p]) \subseteq 1..issued
    /\ \A a \in answers : a.tree # <<>> /\ Last(a.tree) = a.leaf
    /\ bundles \subseteq 1..issued

\* A receipt's proof, as it is given, verifies its leaf against the root it comes with, at its own
\* place and no other (pushHash, path, verifyInclusion).
AnswersVerify ==
    \A a \in answers' \ answers :
        \A n \in {Len(a.tree)}, root \in {HeadOf(a.tree).root} : \A proof \in {Path(Hashes(a.tree), n - 1)} :
        \A l \in Range(a.tree), i \in 0..n - 1 :
            /\ VerifyInclusion(LeafHash(l), i, n, proof, root) <=> l = a.leaf /\ i = n - 1
            /\ WebVerifyInclusion(LeafHash(l), i, n, proof, root) <=> l = a.leaf /\ i = n - 1

\* "Every root, every inclusion proof, and every consistency proof is unchanged" (verification.md:204):
\* while prune and one process keep apart on the file, what becomes of it, a copy of it gives the
\* root of every receipt.
HasTheRoot(lines, a) ==
    Len(a.tree) <= Len(lines) /\ RootFromFile(lines, Len(a.tree)) = HeadOf(a.tree).root
CopyHasTheRoots ==
    apart' /\ <<file, answers>>' # <<file, answers>> => \A a \in answers' : HasTheRoot(file', a)

\* A log that has grown proves that it extends the tree of every earlier receipt, to the package's
\* audit and to the page's, and the same proof fails for a tree in which any one leaf was another
\* (subproof, verifyConsistency, auditExtends).
ExtensionIsProved ==
    apart' => \A p \in Procs : Open(p)' /\ mem'[p] # mem[p] =>
        \A newer \in {HeadOf(mem'[p])}, a \in answers' :
            \A proof \in {Extension(Hashes(mem'[p]), Len(a.tree))} :
                /\ AuditExtends(HeadOf(a.tree), newer, proof) /\ WebAuditExtends(HeadOf(a.tree), newer, proof)
                /\ \A forged \in {HeadOf([a.tree EXCEPT ![i] = 0]) : i \in 1..Len(a.tree)} :
                       ~AuditExtends(forged, newer, proof) /\ ~WebAuditExtends(forged, newer, proof)

\* Every proof the log gives, of a leaf or of an extension, proves what it says and nothing else.
ProofsHold == [][AnswersVerify /\ ExtensionIsProved]_fileVars

\* Pruned is gone: a receipt whose content has left the log has no bundle either, wherever a run
\* of prune stopped, so that running it again has nothing to find.
PrunedIsGone ==
    \A i \in DOMAIN file : file[i].form = "pruned" => file[i].leaf \notin bundles
FileConsistent == FileTypeOK /\ PrunedIsGone

\* An import, stopped and run again at any point while the file grows and is pruned, adds each
\* leaf once and in its place.
ImportIsACopy ==
    apart => IsPrefix(backend, LeavesOf(file))

\* The leaves of an export are those its head commits to, and every checkpoint the log had signed
\* before, although the log has grown since.
ExportAddsUp ==
    apart' /\ export' # export /\ export'.at = "written" =>
        /\ WebRootOf(Hashes(export'.got), Len(export'.head)) = HeadOf(export'.head).root
        /\ CheckpointProblems(export'.got, export'.head) = {}

\* A log taken elsewhere, as a copy of the file or as an export, has the roots that were signed.
RootsKept == [][CopyHasTheRoots /\ ExportAddsUp]_fileVars

=============================================================================
