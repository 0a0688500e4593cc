---------------------------- MODULE MemoryServer ----------------------------
(***************************************************************************)
(* The memory server (state/src/server.ts) over a fact ledger and the      *)
(* retrieval stores facts are written through to.                          *)
(*                                                                         *)
(* Calls run concurrently: each is a chain of awaited queries, and another *)
(* call's step may come between any two.  An action is one call's step     *)
(* from one await to the next: a query the ledger or a store evaluates,    *)
(* and what the server does with the answer.  The checks a call makes on   *)
(* one fact (factById, retractedAt, confirmedAt) are one step; the         *)
(* question whether a hold stands is a step of its own, as is every write. *)
(*                                                                         *)
(* A write's fact is named by the call that writes it.  Any step may fail, *)
(* with the query evaluated or not; the call is then answered with an      *)
(* error, or its process is gone.                                          *)
(***************************************************************************)
EXTENDS LedgerEvents

CONSTANTS
    Calls,      \* the calls, each with a receipt id of its own
    Direct,     \* the calls made around the gateway, which attests nothing
    Past,       \* a claimed fact the ledger already holds
    NumStores,  \* how many retrieval stores there are
    Attempts,   \* how often a store's search is asked after a removal
    Shared      \* one server for all calls (stdio), or one per call (HTTP)

Facts == Calls \cup {Past}
Stores == 1..NumStores

ASSUME MemoryAssumption ==
    /\ Past \notin Calls /\ None \notin Facts
    /\ Direct \subseteq Calls
    /\ NumStores \in Nat /\ Attempts \in Nat \ {0}
    /\ Shared \in BOOLEAN

VARIABLES
    events,     \* the ledger's log; `call` is the call that appended
    erased,     \* the facts whose value replaceAssert has removed
    copies,     \* per store, the facts it has a row of
    indexed,    \* per store, the facts its search returns
    call,       \* per call, where it stands and its local variables
    current,    \* the call currentActor and currentReceipt are of
    certified   \* <<fact, store>> reported "verified"

ledgerVars == <<events, erased>>
storeVars  == <<copies, indexed>>
vars == <<ledgerVars, storeVars, call, current, certified>>

Ops == {"write", "retract", "confirm", "forget", "hold", "release", "sweep"}
Ended == {"done", "partly", "refused"}

(* `fact` is what the call works on, `old` what its fact supersedes, `by`  *)
(* the call named as actor and receipt, `left` what a sweep has to do,     *)
(* `kept` the stores that failed to remove, `began` the log's length then. *)
NewCall(pc, op, f, old, by, n) ==
    [pc |-> pc, op |-> op, fact |-> f, old |-> old, by |-> by, at |-> 1,
     tries |-> 0, left |-> {}, kept |-> {}, began |-> n]
Idle == NewCall("idle", "none", None, None, None, 0)

Init ==
    /\ events = <<[kind |-> "assert", fact |-> Past, supersedes |-> None,
                   by |-> Past, call |-> Past]>>
    /\ erased = {}
    /\ copies = [s \in Stores |-> {Past}]
    /\ indexed = [s \in Stores |-> {Past}]
    /\ call = [c \in Calls |-> Idle]
    /\ current = None
    /\ certified = {}

-----------------------------------------------------------------------------
(* handle(): the current actor and receipt are set, and the operation      *)
(* begins.                                                                 *)

Begin(c, op, pc, f, old) ==
    /\ call[c].pc = "idle"
    /\ call' = [call EXCEPT ![c] = NewCall(pc, op, f, old, c, Len(events))]
    /\ current' = c
    /\ UNCHANGED <<ledgerVars, storeVars, certified>>

Write(c, old) == Begin(c, "write", "validate", c, old)
Retract(c, f) == Begin(c, "retract", "look", f, None)
Confirm(c, f) == c \notin Direct /\ Begin(c, "confirm", "look", f, None)
Forget(c, f)  == Begin(c, "forget", "get", f, None)
Hold(c, f)    == Begin(c, "hold", "look", f, None)
Release(c, f) == Begin(c, "release", "held?", f, None)
Sweep(c)      == Begin(c, "sweep", "collect", None, None)

At(c, pc)  == call[c].pc = pc
Goto(c, pc) == call' = [call EXCEPT ![c].pc = pc]
Fact(c) == call[c].fact

(* A throw out of the handler: the rest of the call, and of a sweep, is    *)
(* not done.                                                               *)
Refused(c) ==
    /\ Goto(c, "refused")
    /\ UNCHANGED <<ledgerVars, storeVars, current, certified>>

Proceed(c, pc) ==
    /\ Goto(c, pc)
    /\ UNCHANGED <<ledgerVars, storeVars, current, certified>>

-----------------------------------------------------------------------------
(* memory.write: the ledger's checks, each store, the checks again, and    *)
(* the append.                                                             *)

(* Mutant: a fact that is already superseded may be superseded again.      *)
SupersedableAgain(f) ==
    f = None \/ (AssertedIn(events, f) /\ ~RetractedIn(events, f))

Supersedable(f) ==
    \/ f = None
    \/ /\ AssertedIn(events, f)
       /\ ~SupersededIn(events, f)
       /\ ~RetractedIn(events, f)

ValidateAssert(c) ==
    /\ At(c, "validate")
    /\ IF Supersedable(call[c].old) THEN Proceed(c, "put") ELSE Refused(c)

Put(c) ==
    /\ At(c, "put") /\ call[c].at \in Stores
    /\ copies' = [copies EXCEPT ![call[c].at] = @ \cup {Fact(c)}]
    /\ call' = [call EXCEPT ![c].at = @ + 1]
    /\ UNCHANGED <<ledgerVars, indexed, current, certified>>

(* Mutant: a store that refuses the fact is passed over.                   *)
PutFailsPassedOver(c) ==
    /\ At(c, "put") /\ call[c].at \in Stores
    /\ call' = [call EXCEPT ![c].at = @ + 1]
    /\ UNCHANGED <<ledgerVars, storeVars, current, certified>>

(* A store refuses the fact, or takes it and its answer is lost.           *)
PutFails(c) ==
    /\ At(c, "put") /\ call[c].at \in Stores
    /\ copies' \in {copies, [copies EXCEPT ![call[c].at] = @ \cup {Fact(c)}]}
    /\ Goto(c, "refused")
    /\ UNCHANGED <<ledgerVars, indexed, current, certified>>

AssertFact(c) ==
    /\ At(c, "put") /\ call[c].at \notin Stores
    /\ IF Supersedable(call[c].old) THEN Proceed(c, "append") ELSE Refused(c)

-----------------------------------------------------------------------------
(* The ledger's checks of the other operations.                            *)

(* forgetOne reads the fact, then names the current actor and receipt.     *)
Get(c) ==
    /\ At(c, "get")
    /\ call' = [call EXCEPT ![c].pc = "look",
                            ![c].by = IF Shared THEN current ELSE c]
    /\ UNCHANGED <<ledgerVars, storeVars, current, certified>>

Claimed(f) == f \in Direct \cup {Past}

Allowed(op, f) ==
    /\ AssertedIn(events, f)
    /\ op \in {"retract", "confirm"} => ~RetractedIn(events, f)
    /\ op = "confirm" => Claimed(f) /\ ~ConfirmedIn(events, f)
    /\ op \in {"forget", "hold", "sweep"} => f \notin erased

Look(c) ==
    /\ At(c, "look")
    /\ IF ~Allowed(call[c].op, Fact(c))
       THEN Refused(c)
       ELSE Proceed(c, IF call[c].op \in {"retract", "confirm"} THEN "append"
                                                                ELSE "held?")

(* Mutant: a forget does not ask whether the fact is on hold.              *)
HeldAllowsForgetAnyway(op, f) ==
    IF op = "release" THEN HeldIn(events, f)
    ELSE op \in {"forget", "sweep"} \/ ~HeldIn(events, f)

HeldAllows(op, f) == HeldIn(events, f) <=> op = "release"

AskHeld(c) ==
    /\ At(c, "held?")
    /\ IF ~HeldAllows(call[c].op, Fact(c))
       THEN Refused(c)
       ELSE Proceed(c, IF call[c].op \in {"hold", "release"} THEN "append"
                                                             ELSE "erase")

(* replaceAssert: the value leaves the ledger.                             *)
Erase(c) ==
    /\ At(c, "erase")
    /\ erased' = erased \cup {Fact(c)}
    /\ Goto(c, "append")
    /\ UNCHANGED <<events, storeVars, current, certified>>

-----------------------------------------------------------------------------
(* The append, the last step of the ledger's part.                         *)

Event(c) ==
    [kind |-> CASE call[c].op = "write" -> "assert"
                [] call[c].op = "sweep" -> "forget"
                [] OTHER -> call[c].op,
     fact |-> Fact(c), supersedes |-> call[c].old, by |-> call[c].by, call |-> c]

AppendEvent(c) ==
    /\ At(c, "append")
    /\ events' = Append(events, Event(c))
    /\ IF call[c].op \in {"retract", "forget", "sweep"}
       THEN call' = [call EXCEPT ![c].pc = "remove", ![c].at = 1]
       ELSE Goto(c, "done")
    /\ UNCHANGED <<erased, storeVars, current, certified>>

(* A query is refused or its answer lost, or the process dies.  The        *)
(* query, if it was a write, may have been evaluated.                      *)
Fails(c) ==
    /\ call[c].pc \notin Ended \cup {"idle"}
    /\ events' \in {events} \cup IF At(c, "append") THEN {Append(events, Event(c))} ELSE {}
    /\ erased' \in {erased} \cup IF At(c, "erase") THEN {erased \cup {Fact(c)}} ELSE {}
    /\ Goto(c, "refused")
    /\ UNCHANGED <<storeVars, current, certified>>

-----------------------------------------------------------------------------
(* removeFromStores: each store in turn is told to remove the fact, and    *)
(* its search asked whether it is gone.                                    *)

Removing(c) == At(c, "remove") /\ call[c].at \in Stores

Remove(c) ==
    /\ Removing(c)
    /\ copies' = [copies EXCEPT ![call[c].at] = @ \ {Fact(c)}]
    /\ call' = [call EXCEPT ![c].pc = "verify", ![c].tries = 0]
    /\ UNCHANGED <<ledgerVars, indexed, current, certified>>

(* Mutant: a removal that failed is not reported.                          *)
RemoveFailsUnreported(c) ==
    /\ Removing(c)
    /\ copies' \in {copies, [copies EXCEPT ![call[c].at] = @ \ {Fact(c)}]}
    /\ call' = [call EXCEPT ![c].at = @ + 1]
    /\ UNCHANGED <<ledgerVars, indexed, current, certified>>

(* "failed", whether or not the store removed it.                          *)
RemoveFails(c) ==
    /\ Removing(c)
    /\ copies' \in {copies, [copies EXCEPT ![call[c].at] = @ \ {Fact(c)}]}
    /\ call' = [call EXCEPT ![c].at = @ + 1, ![c].kept = @ \cup {call[c].at}]
    /\ UNCHANGED <<ledgerVars, indexed, current, certified>>

NextStore(c) == call' = [call EXCEPT ![c].pc = "remove", ![c].at = @ + 1]

VerifyGone(c) ==
    /\ At(c, "verify")
    /\ Fact(c) \notin indexed[call[c].at]
    /\ NextStore(c)
    /\ certified' = certified \cup {<<Fact(c), call[c].at>>}
    /\ UNCHANGED <<ledgerVars, storeVars, current>>

(* Still found: asked again, up to Attempts times, then "stillIndexed".    *)
VerifyFound(c) ==
    /\ At(c, "verify")
    /\ Fact(c) \in indexed[call[c].at]
    /\ IF call[c].tries + 1 < Attempts
       THEN call' = [call EXCEPT ![c].tries = @ + 1]
       ELSE NextStore(c)
    /\ UNCHANGED <<ledgerVars, storeVars, current, certified>>

(* Mutant: a search that cannot be asked counts as the value being gone.   *)
VerifyFailsGone(c) ==
    /\ At(c, "verify")
    /\ NextStore(c)
    /\ certified' = certified \cup {<<Fact(c), call[c].at>>}
    /\ UNCHANGED <<ledgerVars, storeVars, current>>

(* The search cannot be asked: "unverified".                               *)
VerifyFails(c) ==
    /\ At(c, "verify")
    /\ NextStore(c)
    /\ UNCHANGED <<ledgerVars, storeVars, current, certified>>

(* Whether a store still has what was to be removed.                       *)
Outcome(c) == IF call[c].kept = {} THEN "done" ELSE "partly"

Removed(c) ==
    /\ At(c, "remove") /\ call[c].at \notin Stores
    /\ Proceed(c, IF call[c].op = "sweep" THEN "sweep" ELSE Outcome(c))

-----------------------------------------------------------------------------
(* memory.sweep: the facts learned before the cutoff, each forgotten       *)
(* unless it is held.  The cutoff falls after some prefix of the log.      *)

Collect(c, k) ==
    /\ At(c, "collect")
    /\ call' = [call EXCEPT ![c].pc = "sweep",
                            ![c].left = {f \in Facts \ erased :
                                             AssertedIn(SubSeq(events, 1, k), f)}]
    /\ UNCHANGED <<ledgerVars, storeVars, current, certified>>

SweepOne(c, f) ==
    /\ At(c, "sweep") /\ f \in call[c].left
    /\ call' = [call EXCEPT ![c].left = @ \ {f},
                            ![c].fact = f,
                            ![c].pc = IF HeldIn(events, f) THEN "sweep" ELSE "get"]
    /\ UNCHANGED <<ledgerVars, storeVars, current, certified>>

Swept(c) ==
    /\ At(c, "sweep") /\ call[c].left = {}
    /\ Proceed(c, Outcome(c))

(* A store's search catches up with its rows.                              *)
IndexCatchesUp(s) ==
    /\ indexed' = [indexed EXCEPT ![s] = copies[s]]
    /\ UNCHANGED <<ledgerVars, copies, call, current, certified>>

Step(c) ==
    \/ \E f \in Facts : \/ Retract(c, f) \/ Confirm(c, f) \/ Forget(c, f)
                        \/ Hold(c, f) \/ Release(c, f)
    \/ \E f \in Facts \cup {None} : Write(c, f)
    \/ Sweep(c)
    \/ ValidateAssert(c) \/ Put(c) \/ PutFails(c) \/ AssertFact(c)
    \/ Get(c) \/ Look(c) \/ AskHeld(c) \/ Erase(c)
    \/ AppendEvent(c) \/ Fails(c)
    \/ Remove(c) \/ RemoveFails(c)
    \/ VerifyGone(c) \/ VerifyFound(c) \/ VerifyFails(c) \/ Removed(c)
    \/ \E k \in 0..Len(events) : Collect(c, k)
    \/ \E f \in Facts : SweepOne(c, f)
    \/ Swept(c)

Next == \/ \E c \in Calls : Step(c)
        \/ \E s \in Stores : IndexCatchesUp(s)

Spec == Init /\ [][Next]_vars

-----------------------------------------------------------------------------
(* Properties.                                                             *)

(* The state is well formed.                                               *)
Pcs == Ended \cup {"idle", "validate", "put", "get", "look", "held?", "erase",
                   "append", "remove", "verify", "collect", "sweep"}

TypeOK ==
    /\ events \in Seq([kind : Kinds, fact : Facts, supersedes : Facts \cup {None},
                       by : Facts, call : Facts])
    /\ erased \subseteq Facts
    /\ copies \in [Stores -> SUBSET Facts]
    /\ indexed \in [Stores -> SUBSET Facts]
    /\ call \in [Calls -> [pc : Pcs, op : Ops \cup {"none"}, fact : Facts \cup {None},
                           old : Facts \cup {None}, by : Calls \cup {None},
                           at : 1..(NumStores + 1), tries : 0..(Attempts - 1),
                           left : SUBSET Facts, kept : SUBSET Stores, began : Nat]]
    /\ current \in Calls \cup {None}
    /\ certified \subseteq Facts \X Stores

(* What a call answers without an error is so, whatever ran beside it: a   *)
(* forgotten fact's value is out of the ledger, the fact is believed no    *)
(* more, and no store has a row of it; the same, but for the value, of a   *)
(* retracted one.                                                          *)
AnswersTruthful ==
    \A c \in Calls : At(c, "done") /\ call[c].op \in {"retract", "forget"} =>
        /\ ~BelievedIn(events, Fact(c))
        /\ call[c].op = "forget" => Fact(c) \in erased
        /\ \A s \in Stores : Fact(c) \notin copies[s]

(* A removal certified as verified stays true: the store has no row, and   *)
(* its search does not return the fact again.                              *)
VerifiedIsGone ==
    \A p \in certified : p[1] \notin copies[p[2]] \cup indexed[p[2]]

(* A fact in the ledger is in every store, until its removal begins: a     *)
(* store that refuses a write fails the write, and nothing is recorded.    *)
WrittenThrough ==
    \A f \in Facts : AssertedIn(events, f) /\ ~RetractedIn(events, f) =>
        \A s \in Stores : f \in copies[s]

(* A forget in the log certifies the erasure: the value is not there.      *)
ForgottenIsErased ==
    \A f \in Facts : ForgottenIn(events, f) => f \in erased

(* Two standing replacements of one fact come only of writes that          *)
(* overlapped: the later began before the earlier was in the log.          *)
OneReplacement ==
    \A f \in Facts : \A j, k \in ReplacementsIn(events, f) :
        j < k => call[events[k].call].began < j

(* An event names the actor and receipt of the call that made it, unless   *)
(* the server is shared: then a forget may name a call that began beside   *)
(* it (forgetOne reads currentActor and currentReceipt after an await).    *)
Attributed ==
    \A k \in DOMAIN events :
        events[k].by # events[k].call => Shared /\ events[k].kind = "forget"

(* The ledger and the stores agree: what the ledger has taken is in every  *)
(* store, what it calls forgotten has no value, and each event is its own  *)
(* call's.                                                                 *)
Consistent == TypeOK /\ WrittenThrough /\ ForgottenIsErased /\ Attributed

(* A hold that has stood since before a call began bars that call from     *)
(* erasing the fact.                                                       *)
StoodThroughout(c, f) ==
    \A n \in call[c].began..Len(events) : HeldIn(SubSeq(events, 1, n), f)

HoldBars ==
    [][\A f \in erased' \ erased :
        \E c \in Calls : /\ At(c, "erase") /\ Fact(c) = f
                         /\ ~StoodThroughout(c, f)]_vars

=============================================================================
