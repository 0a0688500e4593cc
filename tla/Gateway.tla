------------------------------- MODULE Gateway -------------------------------
(***************************************************************************)
(* The gateway's call path (receipts/src/gateway.ts, issue.ts) with the    *)
(* HTTP sessions it runs in (gateway-http.ts) and the log client it        *)
(* commits evidence through (log-sink.ts, httpLog).                        *)
(*                                                                         *)
(* Many calls are in flight at once: an action is the code between two     *)
(* awaits of handleCall.  The log, the upstream and the network are the    *)
(* environment: an append may land although its answer is lost, or land    *)
(* after the gateway gave up on it; an upstream may act on a request       *)
(* although the gateway recorded an error for it.  The process may die     *)
(* between any two actions.                                                *)
(***************************************************************************)
EXTENDS Naturals, Sequences

CONSTANTS
    Calls,      \* the tools/call requests, each with its own receipt id
    Sessions,   \* MCP session ids; one is never used twice
    Tools,      \* the tool names a request may name
    Scopes,     \* delegation.scopes: the tools the grant allows
    Precommit,  \* cfg.precommit: the consequential tools
    Facts,      \* fact ids an upstream may declare it served
    Lapsing,    \* sessions whose grant's window may end within the horizon
    Attempts    \* httpLog's attempts per append

ASSUME GatewayAssumption ==
    /\ Scopes \subseteq Tools
    /\ Precommit \subseteq Tools
    /\ Lapsing \subseteq Sessions
    /\ Attempts \in Nat \ {0}

Status == {"denied", "withheld", "executed", "failed", "error"}

(* A leaf of the log names its call and what the signed statement says of  *)
(* it: that it was authorized, or how it ended.                            *)
Leaves == [call : Calls, says : Status \cup {"authorization"}]
Authorization(c) == [call |-> c, says |-> "authorization"]
Receipt(c, st)   == [call |-> c, says |-> st]

VARIABLES
    mode,       \* cfg.mode: enforce | observe, fixed at startup
    log,        \* the leaves, in log order
    late,       \* appends given up on and still on their way: [leaf, try]
    session,    \* Sessions -> none | open | closed
    lapsed,     \* sessions whose grant is past its validity window
    consumed,   \* per session, the fact ids its upstream results declared
    shown,      \* per session, the fact ids in results the agent was handed
    pc,         \* per call, where handleCall stands
    home,       \* per call, its session
    tool,       \* per call, params.name
    valid,      \* per call, the grant's window held at the receipt timestamp
    snapshot,   \* per call, consumedNow
    decision,   \* per call, policy.decision
    tries,      \* per call, the attempt number of the append in progress
    authIndex,  \* per call, leaf index of its authorization bundle, 0 if none
    execution,  \* per call, execution.status, "none" until it is set
    served,     \* per call, the fact ids in its result
    recIndex,   \* per call, leaf index of its receipt bundle, 0 if none
    sent,       \* calls handed to the upstream
    performed   \* calls the upstream acted on

logVars  == <<log, late>>
sessVars == <<session, lapsed, consumed, shown>>
headVars == <<home, tool, valid, snapshot>>
callVars == <<pc, decision, tries, authIndex, execution, served, recIndex>>
effVars  == <<sent, performed>>
vars == <<mode, logVars, sessVars, headVars, callVars, effVars>>

InFlight == {"deciding", "authorizing", "waiting", "issuing"}
Phases == InFlight \cup {"idle", "answered", "rejected", "lost"}

Init ==
    /\ mode \in {"enforce", "observe"}
    /\ log = <<>> /\ late = {}
    /\ session = [s \in Sessions |-> "none"]
    /\ lapsed = {}
    /\ consumed = [s \in Sessions |-> {}]
    /\ shown = [s \in Sessions |-> {}]
    /\ pc = [c \in Calls |-> "idle"]
    /\ home \in [Calls -> Sessions]
    /\ tool \in [Calls -> Tools]
    /\ valid = [c \in Calls |-> TRUE]
    /\ snapshot = [c \in Calls |-> {}]
    /\ decision = [c \in Calls |-> "deny"]
    /\ tries = [c \in Calls |-> 1]
    /\ authIndex = [c \in Calls |-> 0]
    /\ execution = [c \in Calls |-> "none"]
    /\ served = [c \in Calls |-> {}]
    /\ recIndex = [c \in Calls |-> 0]
    /\ sent = {} /\ performed = {}

------------------------------------------------------------------------------
(* Sessions.  host.open checks the window once; nothing checks it again.   *)

OpenSession(s) ==
    /\ session[s] = "none"
    /\ s \notin lapsed
    /\ session' = [session EXCEPT ![s] = "open"]
    /\ UNCHANGED <<mode, logVars, lapsed, consumed, shown, headVars, callVars, effVars>>

(* The idle reaper, or the client: calls in flight go on without a reader. *)
CloseSession(s) ==
    /\ session[s] = "open"
    /\ session' = [session EXCEPT ![s] = "closed"]
    /\ UNCHANGED <<mode, logVars, lapsed, consumed, shown, headVars, callVars, effVars>>

GrantLapses(s) ==
    /\ s \in Lapsing \ lapsed
    /\ lapsed' = lapsed \cup {s}
    /\ UNCHANGED <<mode, logVars, session, consumed, shown, headVars, callVars, effVars>>

------------------------------------------------------------------------------
(* handleCall, from a settled policy decision to its next await.  In       *)
(* observe mode a denial is recorded and not acted on.                     *)

Enforced == mode = "enforce"

InScope(c) == tool[c] \in Scopes

Proceed(c, d) ==
    /\ decision' = [decision EXCEPT ![c] = d]
    /\ \/ /\ d = "allow" /\ tool[c] \in Precommit
          /\ pc' = [pc EXCEPT ![c] = "authorizing"]
          /\ UNCHANGED <<sent, execution>>
       \/ /\ \/ d = "allow" /\ tool[c] \notin Precommit
             \/ d = "deny" /\ ~Enforced
          /\ pc' = [pc EXCEPT ![c] = "waiting"]
          /\ sent' = sent \cup {c}
          /\ UNCHANGED execution
       \/ /\ d = "deny" /\ Enforced
          /\ pc' = [pc EXCEPT ![c] = "issuing"]
          /\ execution' = [execution EXCEPT ![c] = "denied"]
          /\ UNCHANGED sent

Receive(c) ==
    /\ pc[c] = "idle"
    /\ session[home[c]] = "open"
    /\ valid' = [valid EXCEPT ![c] = home[c] \notin lapsed]
    /\ snapshot' = [snapshot EXCEPT ![c] = consumed[home[c]]]
    /\ \/ /\ ~InScope(c)
          /\ Proceed(c, "deny")
       \/ /\ InScope(c)
          /\ pc' = [pc EXCEPT ![c] = "deciding"]
          /\ UNCHANGED <<decision, sent, execution>>
    /\ UNCHANGED <<mode, logVars, sessVars, home, tool, tries, authIndex, served,
                   recIndex, performed>>

(* gatherFacts and evaluate; a failed lookup or an evaluation error denies. *)
Decide(c) ==
    /\ pc[c] = "deciding"
    /\ \E d \in {"allow", "deny"} : Proceed(c, d)
    /\ UNCHANGED <<mode, logVars, sessVars, headVars, tries, authIndex, served,
                   recIndex, performed>>

------------------------------------------------------------------------------
(* One attempt of sink.append that is not acknowledged: the leaf is in the *)
(* log, or not, or not yet; the client tries again, or gives up when the   *)
(* attempts are used or the failure is final (a 4xx, a malformed answer, a *)
(* bundle that cannot be written).                                         *)

Unacknowledged(c, leaf) ==
    \/ UNCHANGED <<log, late>>
    \/ log' = Append(log, leaf) /\ UNCHANGED late
    \/ late' = late \cup {[leaf |-> leaf, try |-> tries[c]]} /\ UNCHANGED log

Retry(c) ==
    /\ tries[c] < Attempts
    /\ tries' = [tries EXCEPT ![c] = @ + 1]

GiveUp(c) == tries' = [tries EXCEPT ![c] = 1]

(* The leaf index the log acknowledges.  Mutant: off by one.               *)
NextIndexOffByOne == Len(log)
NextIndex == Len(log) + 1

AuthorizeAcked(c) ==
    /\ pc[c] = "authorizing"
    /\ log' = Append(log, Authorization(c))
    /\ authIndex' = [authIndex EXCEPT ![c] = NextIndex]
    /\ GiveUp(c)
    /\ pc' = [pc EXCEPT ![c] = "waiting"]
    /\ sent' = sent \cup {c}
    /\ UNCHANGED <<mode, late, sessVars, headVars, decision, execution, served,
                   recIndex, performed>>

(* Mutant: the call goes out while the authorization is still on its way.  *)
AuthorizeRetriedEagerly(c) ==
    /\ pc[c] = "authorizing"
    /\ Unacknowledged(c, Authorization(c))
    /\ Retry(c)
    /\ sent' = sent \cup {c}
    /\ UNCHANGED <<mode, sessVars, headVars, pc, decision, authIndex, execution,
                   served, recIndex, performed>>

AuthorizeRetried(c) ==
    /\ pc[c] = "authorizing"
    /\ Unacknowledged(c, Authorization(c))
    /\ Retry(c)
    /\ UNCHANGED <<mode, sessVars, headVars, pc, decision, authIndex, execution,
                   served, recIndex, effVars>>

(* Mutant: a refused authorization does not stop the call.                 *)
AuthorizeFailedOpen(c) ==
    /\ pc[c] = "authorizing"
    /\ Unacknowledged(c, Authorization(c))
    /\ GiveUp(c)
    /\ pc' = [pc EXCEPT ![c] = "waiting"]
    /\ sent' = sent \cup {c}
    /\ UNCHANGED <<mode, sessVars, headVars, decision, authIndex, execution,
                   served, recIndex, performed>>

(* Mutant: the refusal is recorded and the call goes out all the same.     *)
AuthorizeFailedFallsThrough(c) ==
    /\ pc[c] = "authorizing"
    /\ Unacknowledged(c, Authorization(c))
    /\ GiveUp(c)
    /\ pc' = [pc EXCEPT ![c] = "issuing"]
    /\ execution' = [execution EXCEPT ![c] = "withheld"]
    /\ sent' = sent \cup {c}
    /\ UNCHANGED <<mode, sessVars, headVars, decision, authIndex, served,
                   recIndex, performed>>

(* issuer.authorize rejects: withheld, or in observe mode forwarded anyway. *)
AuthorizeFailed(c) ==
    /\ pc[c] = "authorizing"
    /\ Unacknowledged(c, Authorization(c))
    /\ GiveUp(c)
    /\ \/ /\ ~Enforced
          /\ pc' = [pc EXCEPT ![c] = "waiting"]
          /\ sent' = sent \cup {c}
          /\ UNCHANGED execution
       \/ /\ Enforced
          /\ pc' = [pc EXCEPT ![c] = "issuing"]
          /\ execution' = [execution EXCEPT ![c] = "withheld"]
          /\ UNCHANGED sent
    /\ UNCHANGED <<mode, sessVars, headVars, decision, authIndex, served, recIndex,
                   performed>>

------------------------------------------------------------------------------
(* The upstream, and what handleCall makes of its answer.                  *)

UpstreamActs(c) ==
    /\ c \in sent \ performed
    /\ performed' = performed \cup {c}
    /\ UNCHANGED <<mode, logVars, sessVars, headVars, callVars, sent>>

(* noteServedFacts.  Mutant: the facts in an error result are not noted.   *)
NoteServedIfExecuted(c, F) ==
    consumed' = IF execution'[c] = "executed"
                THEN [consumed EXCEPT ![home[c]] = @ \cup F] ELSE consumed
NoteServed(c, F) == consumed' = [consumed EXCEPT ![home[c]] = @ \cup F]

(* A result came back; the facts it declares count as consumed from here on. *)
UpstreamAnswers(c) ==
    /\ pc[c] = "waiting"
    /\ \E st \in {"executed", "failed"} :
          /\ st = "executed" => c \in performed
          /\ execution' = [execution EXCEPT ![c] = st]
    /\ \E F \in SUBSET Facts :
          /\ served' = [served EXCEPT ![c] = F]
          /\ NoteServed(c, F)
    /\ pc' = [pc EXCEPT ![c] = "issuing"]
    /\ UNCHANGED <<mode, logVars, session, lapsed, shown, headVars, decision, tries,
                   authIndex, recIndex, effVars>>

(* callUpstream threw: refused, timed out or cut off, acted on or not.     *)
UpstreamErrors(c) ==
    /\ pc[c] = "waiting"
    /\ execution' = [execution EXCEPT ![c] = "error"]
    /\ pc' = [pc EXCEPT ![c] = "issuing"]
    /\ UNCHANGED <<mode, logVars, sessVars, headVars, decision, tries, authIndex,
                   served, recIndex, effVars>>

------------------------------------------------------------------------------
(* issuer.issue, and the result handed to the agent if it still listens.   *)

IssueAcked(c) ==
    /\ pc[c] = "issuing"
    /\ log' = Append(log, Receipt(c, execution[c]))
    /\ recIndex' = [recIndex EXCEPT ![c] = NextIndex]
    /\ GiveUp(c)
    /\ pc' = [pc EXCEPT ![c] = "answered"]
    /\ shown' = IF session[home[c]] = "open"
                THEN [shown EXCEPT ![home[c]] = @ \cup served[c]] ELSE shown
    /\ UNCHANGED <<mode, late, session, lapsed, consumed, headVars, decision,
                   authIndex, execution, served, effVars>>

IssueRetried(c) ==
    /\ pc[c] = "issuing"
    /\ Unacknowledged(c, Receipt(c, execution[c]))
    /\ Retry(c)
    /\ UNCHANGED <<mode, sessVars, headVars, pc, decision, authIndex, execution,
                   served, recIndex, effVars>>

(* Mutant: the result is handed over although issue rejected.              *)
IssueFailedAnswers(c) ==
    /\ pc[c] = "issuing"
    /\ Unacknowledged(c, Receipt(c, execution[c]))
    /\ GiveUp(c)
    /\ pc' = [pc EXCEPT ![c] = "rejected"]
    /\ shown' = [shown EXCEPT ![home[c]] = @ \cup served[c]]
    /\ UNCHANGED <<mode, session, lapsed, consumed, headVars, decision,
                   authIndex, execution, served, recIndex, effVars>>

(* Mutant: the rejection is swallowed and nobody answers the agent.        *)
IssueFailedHangs(c) ==
    /\ pc[c] = "issuing"
    /\ Unacknowledged(c, Receipt(c, execution[c]))
    /\ GiveUp(c)
    /\ pc' = [pc EXCEPT ![c] = "hung"]
    /\ UNCHANGED <<mode, sessVars, headVars, decision, authIndex, execution,
                   served, recIndex, effVars>>

(* issue rejects, and handleCall with it: an error, and no receipt.        *)
IssueFailed(c) ==
    /\ pc[c] = "issuing"
    /\ Unacknowledged(c, Receipt(c, execution[c]))
    /\ GiveUp(c)
    /\ pc' = [pc EXCEPT ![c] = "rejected"]
    /\ UNCHANGED <<mode, sessVars, headVars, decision, authIndex, execution, served,
                   recIndex, effVars>>

------------------------------------------------------------------------------
LateLands(entry) ==
    /\ late' = late \ {entry}
    /\ log' = Append(log, entry.leaf)
    /\ UNCHANGED <<mode, sessVars, headVars, callVars, effVars>>

(* The process dies and is started again: its calls and sessions are gone. *)
Crash ==
    /\ \E c \in Calls : pc[c] \in InFlight
    /\ pc' = [c \in Calls |-> IF pc[c] \in InFlight THEN "lost" ELSE pc[c]]
    /\ session' = [s \in Sessions |-> IF session[s] = "open" THEN "closed" ELSE session[s]]
    /\ UNCHANGED <<mode, logVars, lapsed, consumed, shown, headVars, decision, tries,
                   authIndex, execution, served, recIndex, effVars>>

(* What the gateway itself does next for a call.                           *)
Step(c) ==
    \/ Decide(c)
    \/ AuthorizeAcked(c) \/ AuthorizeRetried(c) \/ AuthorizeFailed(c)
    \/ UpstreamAnswers(c) \/ UpstreamErrors(c)
    \/ IssueAcked(c) \/ IssueRetried(c) \/ IssueFailed(c)

Next ==
    \/ \E s \in Sessions : OpenSession(s) \/ CloseSession(s) \/ GrantLapses(s)
    \/ \E c \in Calls : Receive(c) \/ UpstreamActs(c) \/ Step(c)
    \/ \E entry \in late : LateLands(entry)
    \/ Crash

Spec == Init /\ [][Next]_vars

(* Every wait of handleCall ends: an append by its timeout (log-sink.ts),  *)
(* a REST upstream by its own (rest.ts), an MCP upstream by the client's   *)
(* default request timeout.  Nothing makes a session open or a crash stop. *)
FairSpec == Spec /\ \A c \in Calls : WF_vars(Step(c))

------------------------------------------------------------------------------
Logged(leaf) == \E i \in DOMAIN log : log[i] = leaf

(* The verifier's checks of a receipt bundle that the call path decides    *)
(* (verify.ts): the grant's scopes, the policy against the execution, and  *)
(* the authorization leaf before the receipt leaf.  The grant's window is  *)
(* `valid`: a session may outlive it.                                      *)
WithinScopes(c) == execution[c] \in {"executed", "failed"} => tool[c] \in Scopes
PolicyConsistent(c) ==
    IF decision[c] = "allow" \/ ~Enforced THEN execution[c] # "denied"
                                        ELSE execution[c] = "denied"
AuthorizedFirst(c) == authIndex[c] # 0 => authIndex[c] < recIndex[c]

TypeOK ==
    /\ mode \in {"enforce", "observe"}
    /\ log \in Seq(Leaves)
    /\ late \subseteq [leaf : Leaves, try : 1..Attempts]
    /\ session \in [Sessions -> {"none", "open", "closed"}]
    /\ lapsed \subseteq Sessions
    /\ consumed \in [Sessions -> SUBSET Facts]
    /\ shown \in [Sessions -> SUBSET Facts]
    /\ pc \in [Calls -> Phases]
    /\ home \in [Calls -> Sessions]
    /\ tool \in [Calls -> Tools]
    /\ valid \in [Calls -> BOOLEAN]
    /\ snapshot \in [Calls -> SUBSET Facts]
    /\ decision \in [Calls -> {"allow", "deny"}]
    /\ tries \in [Calls -> 1..Attempts]
    /\ authIndex \in [Calls -> Nat]
    /\ execution \in [Calls -> Status \cup {"none"}]
    /\ served \in [Calls -> SUBSET Facts]
    /\ recIndex \in [Calls -> Nat]
    /\ sent \subseteq Calls
    /\ performed \subseteq Calls

(* A leaf that is in the log, or may still reach it.                       *)
Stated(leaf) == Logged(leaf) \/ \E e \in late : e.leaf = leaf

(* gateway.ts:239-247, "evidence of the side effect exists before the side *)
(* effect does": in enforce mode a consequential call is handed to an      *)
(* upstream only when its authorization is in the log, at the index of the *)
(* authorization bundle on disk.                                           *)
EvidenceBeforeEffect ==
    \A c \in sent : tool[c] \in Precommit /\ Enforced =>
        /\ authIndex[c] \in DOMAIN log
        /\ log[authIndex[c]] = Authorization(c)

(* verification.md:105, "a withheld execution establishes that it never    *)
(* went out": whatever a receipt in the log, or one still on its way to    *)
(* it, says of a call is true of the upstream, and all the receipts of a   *)
(* call (retries log duplicates) say the same.                             *)
ReceiptsTruthful ==
    \A c \in Calls : \A st \in Status : Stated(Receipt(c, st)) =>
        /\ st = execution[c]
        /\ st \in {"denied", "withheld"} => c \notin sent
        /\ st = "executed" => c \in performed

(* A call goes out at most once, in enforce mode within the grant's scopes *)
(* and on an allow, and never once a receipt of it may reach the log: no   *)
(* retry, crash or late append makes the gateway forward a call whose      *)
(* story it has told.                                                      *)
SentOnceAndFirst ==
    [][\A c \in sent' \ sent :
          /\ Enforced => tool[c] \in Scopes /\ decision'[c] = "allow"
          /\ execution[c] = "none"
          /\ \A st \in Status : ~Stated(Receipt(c, st))]_vars

(* gateway.ts:182-197: when a call is received, its receipt's consumed     *)
(* list covers every fact in the results the agent was handed before it in *)
(* this session, whatever other calls are in flight.                       *)
ConsumedComplete ==
    [][\A c \in Calls : pc[c] = "idle" /\ pc'[c] # "idle" =>
          shown[home[c]] \subseteq snapshot'[c]]_vars

(* verify.ts:76-126: a receipt bundle the gateway hands out passes the     *)
(* verifier's scope, policy and ordering checks, and stands in the log at  *)
(* the index it names.  (Observe mode forwards calls out of scope, whose   *)
(* receipts then fail the verifier's scope check.)                         *)
HandedOutVerifies ==
    \A c \in Calls : recIndex[c] # 0 =>
        /\ (Enforced => WithinScopes(c)) /\ PolicyConsistent(c) /\ AuthorizedFirst(c)
        /\ recIndex[c] \in DOMAIN log
        /\ log[recIndex[c]] = Receipt(c, execution[c])

(* threat-model.md:99, "no receipt is handed out without an inclusion      *)
(* proof", from the agent's side: it is handed facts only in results whose *)
(* receipt is in the log.                                                  *)
ShownIsReceipted ==
    \A s \in Sessions : \A f \in shown[s] :
        \E c \in Calls : /\ home[c] = s /\ f \in served[c]
                         /\ Logged(Receipt(c, execution[c]))

(* What the agent has been shown is receipted, and every variable has its  *)
(* type.                                                                   *)
Consistent == TypeOK /\ ShownIsReceipted

(* A call the gateway received ends: with a receipt, with an error, or     *)
(* with the process that was handling it.                                  *)
CallsEnd ==
    \A c \in Calls : pc[c] \in InFlight ~> pc[c] \in {"answered", "rejected", "lost"}

(* The gateway implements the abstract promise of Custody.tla; in observe  *)
(* mode no call counts as consequential.                                   *)
Promise == INSTANCE Custody WITH
    grave     <- {c \in Calls : pc[c] # "idle" /\ tool[c] \in Precommit /\ Enforced},
    committed <- {c \in Calls : Logged(Authorization(c))},
    forwarded <- sent,
    performed <- performed,
    told      <- {p \in Calls \X Status : Logged(Receipt(p[1], p[2]))},
    answered  <- {c \in Calls : pc[c] = "answered"}
PromiseKept == Promise!Spec

==============================================================================
