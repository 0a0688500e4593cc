------------------------------ MODULE Reports -------------------------------
(***************************************************************************)
(* What is told of a fact or a call afterwards, from the ledger and a      *)
(* directory of receipts: its blast radius (state/src/blast.ts), the       *)
(* custody pack (pack.ts), the action pack and its open beliefs            *)
(* (explain.ts), the index of a review (review.ts).                        *)
(*                                                                         *)
(* The k-th event of the log was appended by the k-th call, and names      *)
(* receipt k as its source, unless the call came around the gateway.  An   *)
(* archive A is the other half of the evidence:                            *)
(*   shown    per call, the facts its agent had been shown before it       *)
(*   direct   the calls made around the gateway                            *)
(*   swept    the calls that were sweeps, or left a store holding a value  *)
(*   files    <<call, kind>>: the files of the receipts directory; a call  *)
(*            may have an authorization there beside its receipt           *)
(***************************************************************************)
EXTENDS Ledger

FactsOf(E) == {f \in Facts : AssertedIn(E, f)}

Writes(E) == {k \in DOMAIN E : E[k].kind = "assert"}

\* The receipt an event names, as a set: none of a direct call.
Source(A, k) == {k} \ A.direct
SourceOf(E, A, f) == Source(A, AssertOf(E, f))

-----------------------------------------------------------------------------
(* loadReceipts, loadBundles: by the receipt id in a file, which an        *)
(* authorization and its receipt share.                                    *)

Summaries(A) == {p[1] : p \in A.files}
HasReceipt(A, k) == <<k, "receipt">> \in A.files

\* The index of a review leaves the authorizations out.
ListReceipts(A) == {k \in Summaries(A) : HasReceipt(A, k)}

-----------------------------------------------------------------------------
(* blastRadius: passes over the receipts, then over the facts, until one   *)
(* adds nothing.                                                           *)

Hits(A, seen) == {k \in Summaries(A) : A.shown[k] \cap seen # {}}
Written(E, A, hit) == {f \in FactsOf(E) : SourceOf(E, A, f) \cap hit # {}}

\* Mutant: the facts found are not looked for in the receipts again.
BlastOnce(E, A, root) ==
    LET hit == Hits(A, {root}) IN [hit |-> hit, derived |-> Written(E, A, hit) \ {root}]

BlastRadius(E, A, root) ==
    LET pass[n \in 0..Len(E)] ==
            LET hit == Hits(A, {root} \cup (IF n = 0 THEN {} ELSE pass[n-1].derived))
            IN  [hit |-> hit, derived |-> Written(E, A, hit) \ {root}]
    IN  pass[Len(E)]

Now(t) == Asked(t, t, Whatever)
StillBelieved(derived, E, t) == derived \cap Reference(E, Now(t))

-----------------------------------------------------------------------------
(* buildPack and verifyPack.                                               *)

History(E, f) == {k \in DOMAIN E : E[k].fact = f \/ E[k].supersedes = f}
Wanted(E, A, f) ==
    LET b == BlastRadius(E, A, f)
    IN  UNION ({Source(A, k) : k \in History(E, f)} \cup {b.hit}
               \cup {SourceOf(E, A, g) : g \in b.derived})

\* The first forget in the history, whose receipt must say that this fact was erased.
FirstForget(E, f) ==
    LET G == {k \in History(E, f) : E[k].kind = "forget"} IN IF G = {} THEN {} ELSE {Min(G)}
ForgetNamed(E, A, f) ==
    \A k \in FirstForget(E, f) : HasReceipt(A, k) /\ k \notin A.swept

\* Nothing is missing, what is there verifies - an authorization is no receipt, and does not - and
\* the erasure is named.
PackVerifies(E, A, f) ==
    /\ \A k \in Wanted(E, A, f) : k \in Summaries(A) /\ HasReceipt(A, k)
    /\ ForgetNamed(E, A, f)

-----------------------------------------------------------------------------
(* buildActionPack: the facts written in a call, what became of them, and  *)
(* what came after; formatExplain: what is open.                           *)

Status(E, f) ==
    CASE ForgottenIn(E, f) -> "forgotten"
      [] RetractedIn(E, f) -> "retracted"
      [] SupersededIn(E, f) -> "superseded"
      [] OTHER -> "believed"

WrittenBy(E, A, k) == Written(E, A, {k})
Downstream(E, A, k) == UNION {BlastRadius(E, A, f).derived : f \in WrittenBy(E, A, k)}

\* verifyActionPack, of a pack that loads bundles by the name of their file.
ActionPackVerifies(E, A, k) ==
    \A j \in {k} \cup UNION {BlastRadius(E, A, f).hit : f \in WrittenBy(E, A, k)} : HasReceipt(A, j)

OpenBeliefs(E, A, k, t) ==
    {f \in WrittenBy(E, A, k) : Status(E, f) = "believed"}
        \cup StillBelieved(Downstream(E, A, k), E, t)

-----------------------------------------------------------------------------
(* The evaluation harness (evals.ts, evals-ledger.ts).  The events of a    *)
(* log are a scenario's operations; a read follows the last.  A value is   *)
(* the fact that has it.                                                   *)

\* runScenario: what a read that returns `values` counts for.
Score(values, expect, bad) ==
    [correct |-> values = expect,
     stale   |-> /\ values # expect /\ values # {}
                 /\ values \cap expect = {} \/ Cardinality(values) > 1,
     contradiction |-> Cardinality(values) > 1,
     blast   |-> values \cap bad # {}]

\* The two systems: the ledger, and a store that overwrites and deletes.
LedgerRead(E, t) == Reference(E, Now(t))
OverwriteRead(E) ==
    LET row[k \in 0..Len(E)] ==
            CASE k = 0 -> {}
              [] k > 0 /\ E[k].kind = "assert" -> {E[k].fact}
              [] OTHER -> row[k - 1] \ {E[k].fact}
    IN  row[Len(E)]

\* What an author expects after the first k operations: the last write that was not taken back.  A
\* scenario supersedes what is believed, takes back what is believed, and sets no validFrom.
Expected(E, k) ==
    LET P == SubSeq(E, 1, k)
        W == {j \in Writes(P) : ~RetractedIn(P, P[j].fact)}
    IN  IF W = {} THEN {} ELSE {P[Max(W)].fact}
Scenario(E) ==
    \A k \in DOMAIN E :
        \/ /\ E[k].kind = "assert" /\ E[k].from = E[k].tx
           /\ {E[k].supersedes} \ {None} = Expected(E, k - 1)
        \/ E[k].kind = "retract" /\ {E[k].fact} = Expected(E, k - 1)

-----------------------------------------------------------------------------
(* The archives a log may have.                                            *)

\* What a call can have been shown: asserted before it, at no later instant.
Showable(E, k) ==
    {E[j].fact : j \in {i \in 1..(k - 1) : \A h \in 1..i : E[h].tx <= E[k].tx}}
        \cap FactsOf(E)

\* Any showing to the calls that write; the others have seen all there was.  At most one call is
\* out of the ordinary.
Shown(E) ==
    {[k \in DOMAIN E |-> IF k \in Writes(E) THEN {f \in Showable(E, k) : <<k, f>> \in R} ELSE Showable(E, k)] :
        R \in SUBSET {p \in Writes(E) \X FactsOf(E) : p[2] \in Showable(E, p[1])}}
Plain(E) == [direct |-> {}, swept |-> {}, files |-> (DOMAIN E) \X {"receipt"}]
Odd(E, k) == {[Plain(E) EXCEPT !.direct = {k}, !.files = @ \ {<<k, "receipt">>}],
              [Plain(E) EXCEPT !.swept = {k}],
              [Plain(E) EXCEPT !.files = @ \ {<<k, "receipt">>}],
              [Plain(E) EXCEPT !.files = (@ \ {<<k, "receipt">>}) \cup {<<k, "authorization">>}],
              [Plain(E) EXCEPT !.files = @ \cup {<<k, "authorization">>}]}
Shows(E, s, odd) == [shown |-> s, direct |-> odd.direct, swept |-> odd.swept, files |-> odd.files]
AllKept(E)  == {Shows(E, s, Plain(E)) : s \in Shown(E)}
Archives(E) == AllKept(E) \cup {Shows(E, s, o) : s \in Shown(E), o \in UNION {Odd(E, k) : k \in DOMAIN E}}

-----------------------------------------------------------------------------
(* Properties.                                                             *)

\* What descends from root: in every set that has root and all that was written by a call whose
\* file is kept and whose agent had been shown some of the set.
ClosedUnder(E, A, S) ==
    \A f \in FactsOf(E) :
        (\E k \in SourceOf(E, A, f) \cap Summaries(A) : A.shown[k] \cap S # {}) => f \in S
Descendants(E, A, root) ==
    {f \in FactsOf(E) : \A S \in SUBSET FactsOf(E) : root \in S /\ ClosedUnder(E, A, S) => f \in S}

\* The walk finds exactly the descendants and the calls made after one of them was shown, whatever
\* the order of files and facts, and whatever was retracted since (blast.ts:54-66).
BlastIsComplete(E, A, f, b) ==
    /\ b.derived = Descendants(E, A, f) \ {f}
    /\ b.hit = {k \in Summaries(A) : A.shown[k] \cap Descendants(E, A, f) # {}}

\* A custody pack verifies exactly when the receipt of every event of the fact that names one, and
\* of every call it led to, is there, and it was not forgotten around the gateway or by a sweep
\* (verifyPack looks for the fact's id at the top of a result that is a list of facts).  The action
\* pack of the call that wrote the fact then verifies too.
PackIsHonest(E, A, f, b) ==
    LET ok == PackVerifies(E, A, f) IN
    /\ ok <=>
           /\ \A k \in (History(E, f) \ A.direct) \cup b.hit : HasReceipt(A, k)
           /\ FirstForget(E, f) \cap (A.direct \cup A.swept) = {}
    /\ ok => \A k \in SourceOf(E, A, f) : ActionPackVerifies(E, A, k)

\* "nothing still believed; every belief from this call and after it is retracted, forgotten, or
\* superseded" (explain.ts:197) is so now; apart from a belief of this very call whose replacement
\* has not begun.
OpenIsComplete(E, A, k, t) ==
    OpenBeliefs(E, A, k, t) = {} =>
        \A f \in Reference(E, Now(t)) \cap (WrittenBy(E, A, k) \cup Downstream(E, A, k)) :
            f \in WrittenBy(E, A, k) /\ t < ValidTo(E, f) /\ SupersededIn(E, f)

\* Subjects and the order of the stamps are nothing to these reports, and instants only to what is
\* open: one subject, in order, asked when the last event is stamped.
Plainly(E) ==
    /\ \A k \in DOMAIN E : E[k].kind = "assert" => E[k].subject = E[1].subject
    /\ \A k \in 2..Len(E) : E[k - 1].tx <= E[k].tx
    /\ E # <<>> /\ E[Len(E)].tx = clock
Timeless(E) == \A k \in DOMAIN E : E[k].tx = 1 /\ E[k].from = 1

\* The ledger scores in full on every scenario, and the store that overwrites misses exactly the
\* reads of what a retraction brings back (evals.ts, "scores badly for the right reasons").
EvalsDiscriminate(E, t) ==
    Scenario(E) =>
        LET expect == Expected(E, Len(E))
            bad == {f \in FactsOf(E) : RetractedIn(E, f)}
        IN  /\ Score(LedgerRead(E, t), expect, bad)
                   = [correct |-> TRUE, stale |-> FALSE, contradiction |-> FALSE, blast |-> FALSE]
            /\ Score(OverwriteRead(E), expect, bad).correct
                   <=> ~(E[Len(E)].kind = "retract" /\ expect # {})

\* What is told of a fact and of a call is so, whatever the agents had been shown and whichever
\* file is lost (blast.ts, pack.ts, explain.ts).
ReportsAccount ==
    Quiet /\ Plainly(log) =>
        /\ Timeless(log) => \A A \in Archives(log), f \in FactsOf(log) :
               LET b == BlastRadius(log, A, f)
               IN  BlastIsComplete(log, A, f, b) /\ PackIsHonest(log, A, f, b)
        /\ EvalsDiscriminate(log, clock)
        /\ \A A \in AllKept(log) : \A k \in ListReceipts(A) : OpenIsComplete(log, A, k, clock)

=============================================================================
