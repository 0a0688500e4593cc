------------------------------- MODULE Ledger -------------------------------
(***************************************************************************)
(* The bitemporal queries of the fact ledger (state/src/ledger.ts), with   *)
(* the selection of events its stores agree on (state/src/storage.ts,      *)
(* selectAbout); EventStores has the stores.  A fact holds from its        *)
(* validFrom until the replacement that stands begins; the ledger learns   *)
(* of an event at its txTime, which a writer stamps before the event is    *)
(* appended.  The ledger keeps no state but the log: the properties relate *)
(* the answers of different queries, and of one query at different times.  *)
(*                                                                         *)
(* What a query selects of the log is the log restricted to some of its    *)
(* places, so that the order of what was selected is the log's.            *)
(*                                                                         *)
(* One attribute, `subject`, stands for subject, predicate and space: all  *)
(* three only filter.  Facts are numbered in the order they are created.   *)
(***************************************************************************)
EXTENDS LedgerEvents, FiniteSetsExt, Functions

CONSTANTS
    Writers,    \* callers that append to the log
    Subjects,   \* what facts are about
    Whatever,   \* a query that names no subject
    MaxTime,    \* bound: the last instant
    MaxFacts,   \* bound: how many facts are asserted
    MaxEvents   \* bound: how many events are appended

Times == 1..MaxTime
Facts == 1..MaxFacts

ASSUME LedgerAssumption ==
    /\ MaxTime \in Nat \ {0} /\ MaxFacts \in Nat /\ MaxEvents \in Nat
    /\ Whatever \notin Subjects /\ None \notin Facts /\ None \notin Subjects

VARIABLES
    log,        \* the events, in the order they were appended
    pending,    \* per writer, the event stamped but not appended, or None
    clock       \* now

vars == <<log, pending, clock>>

Init == log = <<>> /\ pending = [w \in Writers |-> None] /\ clock = 1

-----------------------------------------------------------------------------
(* Queries.  q.tx and q.valid are the two instants, q.subject the filter;  *)
(* only a sweep's has another cut, q.before, which excludes its instant.   *)

Queries == [tx : Times, before : {MaxTime + 1}, valid : Times, subject : Subjects \cup {Whatever}]
Asked(tx, valid, subject) == [tx |-> tx, before |-> MaxTime + 1, valid |-> valid, subject |-> subject]
Matches(q, subject) == q.subject \in {Whatever, subject}
Within(q, tx) == tx <= q.tx /\ tx < q.before

MatchedIn(E, q) ==
    {e.fact : e \in {E[k] : k \in {j \in DOMAIN E :
        E[j].kind = "assert" /\ Within(q, E[j].tx) /\ Matches(q, E[j].subject)}}}

(* The JSONL store, whose semantics is the reference: one pass over the    *)
(* events adds a fact that supersedes any fact already found.              *)
SelectIds(E, q) ==
    LET end == Max({0} \cup DOMAIN E)
        ids[k \in 0..end] ==
            IF k = 0 THEN MatchedIn(E, q)
            ELSE LET found == ids[k-1]
                 IN  found \cup {E[j].fact : j \in {i \in DOMAIN E : /\ i = k /\ E[i].kind = "assert"
                                                                    /\ E[i].supersedes \in found}}
    IN  ids[end]

(* Mutant: the events of the facts found are returned whatever their time. *)
AboutAnyTime(E, ids, q) == Restrict(E, {k \in DOMAIN E : E[k].fact \in ids})

About(E, ids, q) == Restrict(E, {k \in DOMAIN E : E[k].fact \in ids /\ E[k].tx <= q.tx})

(* Mutant: a replacement that was retracted still ends the fact.           *)
EndsByAny(E, f) ==
    LET R == {k \in DOMAIN E : E[k].kind = "assert" /\ E[k].supersedes = f}
    IN  IF R = {} THEN MaxTime + 1 ELSE E[Max(R)].from

(* validTo: the last replacement that stands decides.  MaxTime + 1: never. *)
ValidTo(E, f) ==
    LET R == ReplacementsIn(E, f) IN IF R = {} THEN MaxTime + 1 ELSE E[Max(R)].from

AsOf(known, q) ==
    {e.fact : e \in {known[k] : k \in {j \in DOMAIN known :
        /\ known[j].kind = "assert"
        /\ ~RetractedIn(known, known[j].fact)
        /\ Matches(q, known[j].subject)
        /\ known[j].from <= q.valid
        /\ q.valid < ValidTo(known, known[j].fact)}}}

Reference(E, q) == AsOf(About(E, SelectIds(E, q), q), q)

(* memory.get and history, one fact at a time: no query but the fact's own *)
(* events.                                                                 *)
For(E, f) == Restrict(E, {k \in DOMAIN E : E[k].fact = f \/ E[k].supersedes = f})
AssertOf(E, f) == CHOOSE k \in DOMAIN E : E[k].kind = "assert" /\ E[k].fact = f
GetHolds(E, f, t) ==
    /\ AssertedIn(E, f) /\ ~RetractedIn(E, f)
    /\ E[AssertOf(E, f)].from <= t
    /\ LET R == {k \in DOMAIN For(E, f) : /\ For(E, f)[k].supersedes = f
                                          /\ ~RetractedIn(E, For(E, f)[k].fact)}
       IN  R = {} \/ t < For(E, f)[Max(R)].from

-----------------------------------------------------------------------------
(* Writers: the checks and the stamp, then the append.                     *)

Used == {log[k].fact : k \in DOMAIN log} \cup
        {pending[w].fact : w \in {v \in Writers : pending[v] # None}}
Stamped == {w \in Writers : pending[w] # None}

Stamp(w, event) ==
    /\ pending[w] = None
    /\ Len(log) + Cardinality(Stamped) < MaxEvents
    /\ pending' = [pending EXCEPT ![w] = event]
    /\ UNCHANGED <<log, clock>>

Supersedable(old, from) ==
    \/ old = None
    \/ /\ AssertedIn(log, old)
       /\ ~SupersededIn(log, old) /\ ~RetractedIn(log, old)
       /\ log[AssertOf(log, old)].from <= from

AssertFact(w, old, subject, from) ==
    /\ Used # Facts
    /\ Supersedable(old, from)
    /\ Stamp(w, [kind |-> "assert", fact |-> Min(Facts \ Used), supersedes |-> old,
                 subject |-> subject, from |-> from, tx |-> clock])

TakeBack(w, kind, f) ==
    /\ AssertedIn(log, f) /\ ~RetractedIn(log, f)
    /\ Stamp(w, [kind |-> kind, fact |-> f, supersedes |-> None,
                 subject |-> Whatever, from |-> clock, tx |-> clock])

Retract(w, f) == TakeBack(w, "retract", f)

(* Forgetting a retracted fact is allowed; its value is not modelled here. *)
Forget(w, f) ==
    /\ AssertedIn(log, f) /\ ~ForgottenIn(log, f)
    /\ Stamp(w, [kind |-> "forget", fact |-> f, supersedes |-> None,
                 subject |-> Whatever, from |-> clock, tx |-> clock])

AppendEvent(w) ==
    /\ pending[w] # None
    /\ log' = Append(log, pending[w])
    /\ pending' = [pending EXCEPT ![w] = None]
    /\ UNCHANGED clock

(* The append is refused, or the process dies.                             *)
Drop(w) ==
    /\ pending[w] # None
    /\ pending' = [pending EXCEPT ![w] = None]
    /\ UNCHANGED <<log, clock>>

Tick == clock < MaxTime /\ clock' = clock + 1 /\ UNCHANGED <<log, pending>>

Next ==
    \/ \E w \in Writers :
        \/ \E old \in Facts \cup {None}, s \in Subjects, from \in Times :
               AssertFact(w, old, s, from)
        \/ \E f \in Facts : Retract(w, f) \/ Forget(w, f)
        \/ AppendEvent(w) \/ Drop(w)
    \/ Tick

Spec == Init /\ [][Next]_vars

-----------------------------------------------------------------------------
(* Properties.                                                             *)

(* The state is well formed; nothing is stamped later than now, and a      *)
(* replacement follows the fact it replaces in the log and in the world.   *)
Event == [kind : {"assert", "retract", "forget"}, fact : Facts,
          supersedes : Facts \cup {None}, subject : Subjects \cup {Whatever},
          from : Times, tx : Times]
TypeOK ==
    /\ \A k \in DOMAIN log :
        /\ log[k] \in Event /\ log[k].tx <= clock
        /\ log[k].supersedes # None =>
            \E j \in 1..(k - 1) : /\ log[j].kind = "assert"
                                  /\ log[j].fact = log[k].supersedes
                                  /\ log[j].from <= log[k].from
    /\ \A w \in Stamped : pending[w] \in Event /\ pending[w].tx <= clock
    /\ clock \in Times

(* The answers depend on the log and the clock alone, and every log is     *)
(* reached at every instant with nothing in flight: it is asked then.      *)
Quiet == Stamped = {}

(* A query about now believes a fact exactly when the fact's own record    *)
(* says that it holds: asOf and get never disagree.                        *)
ViewsAgree ==
    Quiet => \A v \in Times :
        Reference(log, Asked(clock, v, Whatever)) = {f \in Facts : GetHolds(log, f, v)}

(* A retraction undoes the fact: every query answers as it would had the   *)
(* fact never been asserted, so what it superseded is believed again.      *)
Without(E, f) == Restrict(E, {k \in DOMAIN E : E[k].fact # f})
RetractUndoes ==
    Quiet => \A f \in Facts : RetractedIn(log, f) =>
        \A v \in Times, s \in Subjects \cup {Whatever} :
            LET q == Asked(clock, v, s)
            IN  Reference(log, q) = Reference(Without(log, f), q)

(* What was believed as of an instant never changes once that instant is   *)
(* past and no stamped event before it is still to be appended.            *)
Settled(t) == t < clock /\ \A w \in Stamped : pending[w].tx > t
PastStands ==
    [][log' # log => \A q \in Queries : Settled(q.tx) => Reference(log', q) = Reference(log, q)]_vars

=============================================================================
