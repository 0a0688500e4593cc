---------------------------- MODULE Gateway_proofs ----------------------------
(***************************************************************************)
(* What Gateway.tla guarantees for every set of calls, sessions, tools and *)
(* facts, every precommit list and every number of attempts.               *)
(***************************************************************************)
EXTENDS Gateway, TLAPS, SequenceTheorems

(* A log that takes one more leaf keeps the others where they are.         *)
LEMMA AppendKeeps ==
    ASSUME NEW S, NEW q \in Seq(S), NEW x \in S
    PROVE  /\ Append(q, x) \in Seq(S)
           /\ Len(q) \in Nat
           /\ DOMAIN q = 1..Len(q)
           /\ DOMAIN Append(q, x) = 1..(Len(q) + 1)
           /\ \A i \in DOMAIN q : i \in DOMAIN Append(q, x) /\ Append(q, x)[i] = q[i]
           /\ Append(q, x)[Len(q) + 1] = x
  BY SMT

(* The statements in a log after one more leaf.                            *)
LEMMA LoggedAfterAppend ==
    ASSUME TypeOK, NEW leaf \in Leaves, log' = Append(log, leaf)
    PROVE  /\ log' \in Seq(Leaves)
           /\ \A i \in DOMAIN log : i \in DOMAIN log' /\ log'[i] = log[i]
           /\ Len(log) \in Nat
           /\ Len(log) + 1 \in DOMAIN log' /\ log'[Len(log) + 1] = leaf
           /\ Len(log) + 1 \notin DOMAIN log
           /\ DOMAIN log = 1..Len(log)
           /\ \A x : Logged(x)' <=> Logged(x) \/ x = leaf
  <1>1. log \in Seq(Leaves)
    BY DEF TypeOK
  <1>2. /\ log' \in Seq(Leaves)
        /\ Len(log) \in Nat
        /\ DOMAIN log = 1..Len(log) /\ DOMAIN log' = 1..(Len(log) + 1)
        /\ \A i \in DOMAIN log : i \in DOMAIN log' /\ log'[i] = log[i]
        /\ log'[Len(log) + 1] = leaf
    BY <1>1, AppendKeeps
  <1>3. /\ Len(log) + 1 \in DOMAIN log' /\ Len(log) + 1 \notin DOMAIN log
        /\ \A i \in DOMAIN log' : i \in DOMAIN log \/ i = Len(log) + 1
    BY <1>2
  <1>4. \A x : Logged(x)' <=> Logged(x) \/ x = leaf
    BY <1>2, <1>3, Zenon DEF Logged
  <1> QED BY <1>2, <1>3, <1>4

LEMMA LeavesOfCalls ==
    ASSUME NEW c \in Calls
    PROVE  /\ Authorization(c) \in Leaves
           /\ \A st \in Status : Receipt(c, st) \in Leaves
           /\ \A d \in Calls, st \in Status :
                 /\ Receipt(d, st) # Authorization(c)
                 /\ \A u \in Status : Receipt(d, st) = Receipt(c, u) => d = c /\ st = u
           /\ \A d \in Calls : Authorization(d) = Authorization(c) => d = c
  BY DEF Leaves, Authorization, Receipt, Status

(* An attempt that is not acknowledged states at most its own leaf, and    *)
(* moves nothing in the log.                                               *)
LEMMA StatedAfterUnacknowledged ==
    ASSUME TypeOK, NEW c \in Calls, NEW leaf \in Leaves, Unacknowledged(c, leaf)
    PROVE  /\ log' \in Seq(Leaves)
           /\ late' \subseteq [leaf : Leaves, try : 1..Attempts]
           /\ \A i \in DOMAIN log : i \in DOMAIN log' /\ log'[i] = log[i]
           /\ \A x : Stated(x)' => Stated(x) \/ x = leaf
           /\ \A x : Logged(x) => Logged(x)'
           /\ \A x : Logged(x)' => Logged(x) \/ x = leaf
  <1>1. tries[c] \in 1..Attempts /\ log \in Seq(Leaves) /\ late \subseteq [leaf : Leaves, try : 1..Attempts]
    BY DEF TypeOK
  <1>2. CASE UNCHANGED <<log, late>>
    BY <1>1, <1>2 DEF Stated, Logged
  <1>3. CASE log' = Append(log, leaf) /\ UNCHANGED late
    <2>1. /\ log' \in Seq(Leaves)
          /\ \A i \in DOMAIN log : i \in DOMAIN log' /\ log'[i] = log[i]
          /\ \A x : Logged(x)' <=> Logged(x) \/ x = leaf
      BY <1>3, LoggedAfterAppend, Zenon
    <2> QED BY <2>1, <1>1, <1>3, Zenon DEF Stated
  <1>4. CASE late' = late \cup {[leaf |-> leaf, try |-> tries[c]]} /\ UNCHANGED log
    <2>1. \A e \in late' : e \in late \/ e.leaf = leaf
      BY <1>4
    <2>2. late' \subseteq [leaf : Leaves, try : 1..Attempts]
      BY <1>4, <1>1
    <2>3. \A x : Logged(x)' <=> Logged(x)
      BY <1>4 DEF Logged
    <2> QED BY <2>1, <2>2, <2>3, <1>1, <1>4, Zenon DEF Stated
  <1> QED BY <1>2, <1>3, <1>4 DEF Unacknowledged

-------------------------------------------------------------------------------
(* Type correctness.  A receipt is signed only once the outcome is settled. *)
Settled == \A c \in Calls : pc[c] = "issuing" => execution[c] \in Status

(* The types of what handleCall and the sessions keep.                     *)
THEOREM TypeCorrect == Spec => []TypeOK
  <1>1. Init => TypeOK /\ Settled
    BY GatewayAssumption DEF Init, TypeOK, Phases, Leaves, Settled
  <1>2. TypeOK /\ Settled /\ [Next]_vars => TypeOK' /\ Settled'
    <2> SUFFICES ASSUME TypeOK, Settled, [Next]_vars PROVE TypeOK' /\ Settled'
      OBVIOUS
    <2>a. ASSUME NEW c \in Calls
          PROVE  /\ Unacknowledged(c, Authorization(c)) =>
                      log' \in Seq(Leaves) /\ late' \subseteq [leaf : Leaves, try : 1..Attempts]
                 /\ pc[c] = "issuing" /\ Unacknowledged(c, Receipt(c, execution[c])) =>
                      log' \in Seq(Leaves) /\ late' \subseteq [leaf : Leaves, try : 1..Attempts]
      <3>1. /\ Authorization(c) \in Leaves
            /\ pc[c] = "issuing" => Receipt(c, execution[c]) \in Leaves
        BY LeavesOfCalls DEF Settled
      <3> QED BY <3>1, StatedAfterUnacknowledged, Zenon
    <2>b. ASSUME NEW leaf \in Leaves, log' = Append(log, leaf)
          PROVE  log' \in Seq(Leaves) /\ NextIndex \in Nat
      BY <2>b, LoggedAfterAppend DEF NextIndex
    <2>c. ASSUME NEW c \in Calls, Retry(c) \/ GiveUp(c) PROVE tries' \in [Calls -> 1..Attempts]
      <3>1. tries \in [Calls -> 1..Attempts] /\ Attempts \in Nat \ {0}
        BY GatewayAssumption DEF TypeOK
      <3>2. CASE Retry(c)
        <4>1. tries[c] + 1 \in 1..Attempts
          BY <3>1, <3>2 DEF Retry
        <4> QED BY <3>1, <3>2, <4>1 DEF Retry
      <3>3. CASE GiveUp(c)
        BY <3>1, <3>3 DEF GiveUp
      <3> QED BY <2>c, <3>2, <3>3
    <2> USE GatewayAssumption DEF TypeOK, Settled, Phases, InFlight, Status
    <2>1. ASSUME NEW s \in Sessions, OpenSession(s) \/ CloseSession(s) \/ GrantLapses(s)
          PROVE  TypeOK' /\ Settled'
      BY <2>1 DEF OpenSession, CloseSession, GrantLapses, headVars, callVars,
         effVars, logVars
    <2>p. ASSUME NEW c \in Calls, NEW d \in {"allow", "deny"}, Proceed(c, d)
          PROVE  /\ decision' \in [Calls -> {"allow", "deny"}]
                 /\ pc' \in [Calls -> Phases]
                 /\ execution' \in [Calls -> Status \cup {"none"}]
                 /\ sent' \subseteq Calls
                 /\ Settled'
      BY <2>p DEF Proceed
    <2>2. ASSUME NEW c \in Calls, Receive(c) PROVE TypeOK' /\ Settled'
      <3>1. /\ valid' \in [Calls -> BOOLEAN]
            /\ snapshot' \in [Calls -> SUBSET Facts]
        BY <2>2 DEF Receive
      <3>2. /\ decision' \in [Calls -> {"allow", "deny"}]
            /\ pc' \in [Calls -> Phases]
            /\ execution' \in [Calls -> Status \cup {"none"}]
            /\ sent' \subseteq Calls
            /\ Settled'
        <4>1. CASE ~InScope(c)
          BY <2>2, <2>p, <4>1 DEF Receive
        <4>2. CASE InScope(c)
          BY <2>2, <4>2 DEF Receive
        <4> QED BY <4>1, <4>2
      <3> QED BY <2>2, <3>1, <3>2 DEF Receive, logVars, sessVars
    <2>3. ASSUME NEW c \in Calls, Decide(c) PROVE TypeOK' /\ Settled'
      <3>1. PICK d \in {"allow", "deny"} : Proceed(c, d)
        BY <2>3 DEF Decide
      <3> QED BY <2>3, <2>p, <3>1 DEF Decide, logVars, sessVars, headVars
    <2>4. ASSUME NEW c \in Calls, AuthorizeAcked(c) PROVE TypeOK' /\ Settled'
      <3>1. log' \in Seq(Leaves) /\ NextIndex \in Nat
        BY <2>4, <2>b, LeavesOfCalls DEF AuthorizeAcked
      <3> QED BY <2>4, <3>1 DEF AuthorizeAcked, GiveUp, sessVars, headVars
    <2>5. ASSUME NEW c \in Calls, AuthorizeRetried(c) \/ AuthorizeFailed(c)
          PROVE  TypeOK' /\ Settled'
      <3>1. log' \in Seq(Leaves) /\ late' \subseteq [leaf : Leaves, try : 1..Attempts]
        BY <2>5, <2>a DEF AuthorizeRetried, AuthorizeFailed
      <3>2. tries' \in [Calls -> 1..Attempts]
        BY <2>5, <2>c DEF AuthorizeRetried, AuthorizeFailed
      <3> QED BY <2>5, <3>1, <3>2 DEF AuthorizeRetried, AuthorizeFailed, sessVars,
                 headVars, effVars
    <2>6. ASSUME NEW c \in Calls, UpstreamActs(c) \/ UpstreamAnswers(c) \/ UpstreamErrors(c)
          PROVE  TypeOK' /\ Settled'
      <3>1. CASE UpstreamActs(c)
        BY <3>1 DEF UpstreamActs, logVars, sessVars, headVars, callVars
      <3>2. CASE UpstreamAnswers(c)
        <4>1. /\ execution' \in [Calls -> Status \cup {"none"}]
              /\ pc' \in [Calls -> Phases]
              /\ Settled'
          BY <3>2 DEF UpstreamAnswers
        <4>2. /\ served' \in [Calls -> SUBSET Facts]
              /\ consumed' \in [Sessions -> SUBSET Facts]
          BY <3>2 DEF UpstreamAnswers, NoteServed
        <4> QED BY <3>2, <4>1, <4>2 DEF UpstreamAnswers, logVars, headVars, effVars
      <3>3. CASE UpstreamErrors(c)
        BY <3>3 DEF UpstreamErrors, logVars, sessVars, headVars, effVars
      <3> QED BY <2>6, <3>1, <3>2, <3>3
    <2>7. ASSUME NEW c \in Calls, IssueAcked(c) PROVE TypeOK' /\ Settled'
      <3>1. log' \in Seq(Leaves) /\ NextIndex \in Nat
        BY <2>7, <2>b, LeavesOfCalls DEF IssueAcked
      <3> QED BY <2>7, <3>1 DEF IssueAcked, GiveUp, headVars, effVars
    <2>8. ASSUME NEW c \in Calls, IssueRetried(c) \/ IssueFailed(c)
          PROVE  TypeOK' /\ Settled'
      <3>1. log' \in Seq(Leaves) /\ late' \subseteq [leaf : Leaves, try : 1..Attempts]
        BY <2>8, <2>a DEF IssueRetried, IssueFailed
      <3>2. tries' \in [Calls -> 1..Attempts]
        BY <2>8, <2>c DEF IssueRetried, IssueFailed
      <3> QED BY <2>8, <3>1, <3>2 DEF IssueRetried, IssueFailed, sessVars,
                 headVars, effVars
    <2>9. ASSUME NEW e \in late, LateLands(e) PROVE TypeOK' /\ Settled'
      <3>1. log' \in Seq(Leaves)
        BY <2>9, <2>b DEF LateLands
      <3> QED BY <2>9, <3>1 DEF LateLands, sessVars, headVars, callVars, effVars
    <2>10. CASE Crash
      BY <2>10 DEF Crash, logVars, headVars, effVars
    <2>11. CASE UNCHANGED vars
      BY <2>11 DEF vars, logVars, sessVars, headVars, callVars, effVars
    <2> QED BY <2>1, <2>2, <2>3, <2>4, <2>5, <2>6, <2>7, <2>8, <2>9, <2>10, <2>11
               DEF Next, Step
  <1> QED BY <1>1, <1>2, PTL DEF Spec

-------------------------------------------------------------------------------
(***************************************************************************)
(* The inductive invariant.  Phased ties the phase of a call to what was   *)
(* done for it; Evidenced ties the indices on disk to the log; Truthful    *)
(* ties the statements in the log, or on their way to it, to the phase;    *)
(* Carried follows a fact from a result to the session that saw it.        *)
(***************************************************************************)
Unsent == {"idle", "deciding", "authorizing"}
NotSent == {"denied", "withheld"}

Phased ==
    /\ performed \subseteq sent
    /\ \A c \in Calls :
        /\ pc[c] \in Unsent => c \notin sent /\ execution[c] = "none"
        /\ pc[c] = "waiting" => c \in sent /\ execution[c] = "none"
        /\ pc[c] \in {"issuing", "answered", "rejected"} => execution[c] # "none"
        /\ execution[c] \in NotSent => c \notin sent
        /\ execution[c] \in Status \ NotSent => c \in sent
        /\ execution[c] = "executed" => c \in performed
        /\ pc[c] \in {"deciding", "authorizing"} => tool[c] \in Scopes
        /\ pc[c] = "authorizing" => decision[c] = "allow"
        /\ c \in sent /\ Enforced => tool[c] \in Scopes /\ decision[c] = "allow"
        /\ execution[c] # "none" => PolicyConsistent(c)

Evidenced ==
    \A c \in Calls :
        /\ authIndex[c] # 0 => authIndex[c] \in DOMAIN log /\ log[authIndex[c]] = Authorization(c)
        /\ c \in sent /\ tool[c] \in Precommit /\ Enforced => authIndex[c] # 0
        /\ recIndex[c] # 0 =>
              /\ pc[c] = "answered"
              /\ recIndex[c] \in DOMAIN log /\ log[recIndex[c]] = Receipt(c, execution[c])
              /\ authIndex[c] # 0 => authIndex[c] < recIndex[c]

Truthful ==
    \A c \in Calls :
        /\ \A st \in Status : Stated(Receipt(c, st)) => st = execution[c]
        /\ pc[c] = "idle" => ~Stated(Authorization(c))
        /\ pc[c] = "answered" => Logged(Receipt(c, execution[c]))

Carried ==
    /\ \A s \in Sessions : shown[s] \subseteq consumed[s]
    /\ \A c \in Calls : served[c] \subseteq consumed[home[c]]

IInv == TypeOK /\ Phased /\ Evidenced /\ Truthful /\ Carried /\ ShownIsReceipted

(* A settled decision sends a call only if nothing stops it.               *)
LEMMA PhasedAfterProceed ==
    ASSUME TypeOK, Phased, NEW c \in Calls, NEW d \in {"allow", "deny"},
           pc[c] \in {"idle", "deciding"}, d = "allow" => tool[c] \in Scopes,
           Proceed(c, d), UNCHANGED <<mode, tool, performed>>
    PROVE  Phased'
  <1> USE DEF TypeOK, Unsent, NotSent, PolicyConsistent, Enforced, Status
  <1>1. performed' \subseteq sent'
    BY DEF Phased, Proceed
  <1>2. ASSUME NEW x \in Calls, x # c
        PROVE  /\ pc'[x] = pc[x] /\ execution'[x] = execution[x] /\ decision'[x] = decision[x]
               /\ x \in sent' <=> x \in sent
    BY <1>2 DEF Proceed
  <1>3. CASE d = "allow" /\ tool[c] \in Precommit
    <2>1. pc'[c] = "authorizing" /\ execution'[c] = execution[c] /\ decision'[c] = "allow" /\ sent' = sent
      BY <1>3 DEF Proceed
    <2> QED BY <1>1, <1>2, <1>3, <2>1 DEF Phased
  <1>4. CASE d = "deny" /\ mode = "enforce"
    <2>1. pc'[c] = "issuing" /\ execution'[c] = "denied" /\ decision'[c] = "deny" /\ sent' = sent
      BY <1>4 DEF Proceed
    <2> QED BY <1>1, <1>2, <1>4, <2>1 DEF Phased
  <1>5. CASE (d = "allow" /\ tool[c] \notin Precommit) \/ (d = "deny" /\ mode # "enforce")
    <2>1. pc'[c] = "waiting" /\ execution'[c] = execution[c] /\ decision'[c] = d /\ c \in sent'
      BY <1>5 DEF Proceed
    <2> QED BY <1>1, <1>2, <1>5, <2>1 DEF Phased
  <1> QED BY <1>3, <1>4, <1>5

LEMMA PhasedStep == TypeOK /\ Phased /\ [Next]_vars => Phased'
  <1> SUFFICES ASSUME TypeOK, Phased, [Next]_vars PROVE Phased'
    OBVIOUS
  <1>1. ASSUME NEW c \in Calls, Receive(c) PROVE Phased'
    <2>1. CASE ~InScope(c)
      BY <1>1, <2>1, PhasedAfterProceed DEF Receive
    <2>2. CASE InScope(c)
      <3>1. /\ pc' = [pc EXCEPT ![c] = "deciding"] /\ pc[c] = "idle" /\ tool[c] \in Scopes
            /\ UNCHANGED <<mode, tool, decision, sent, execution, performed>>
        BY <1>1, <2>2 DEF Receive, InScope
      <3> QED BY <3>1 DEF Phased, TypeOK, Unsent, PolicyConsistent, Enforced
    <2> QED BY <2>1, <2>2
  <1>2. ASSUME NEW c \in Calls, Decide(c) PROVE Phased'
    <2>1. PICK d \in {"allow", "deny"} : Proceed(c, d)
      BY <1>2 DEF Decide
    <2>2. pc[c] = "deciding" /\ tool[c] \in Scopes /\ UNCHANGED <<mode, tool, performed>>
      BY <1>2 DEF Decide, Phased, headVars
    <2> QED BY <2>1, <2>2, PhasedAfterProceed
  <1> USE DEF TypeOK, Unsent, NotSent, Status, headVars
  <1>3. ASSUME NEW c \in Calls, AuthorizeAcked(c) PROVE Phased'
    BY <1>3 DEF AuthorizeAcked, Phased, PolicyConsistent, Enforced
  <1>4. ASSUME NEW c \in Calls, AuthorizeRetried(c) \/ IssueRetried(c) PROVE Phased'
    BY <1>4 DEF AuthorizeRetried, IssueRetried, Phased, PolicyConsistent,
       Enforced, effVars
  <1>5. ASSUME NEW c \in Calls, AuthorizeFailed(c) PROVE Phased'
    BY <1>5 DEF AuthorizeFailed, Phased, PolicyConsistent, Enforced
  <1>6. ASSUME NEW c \in Calls, UpstreamActs(c) PROVE Phased'
    BY <1>6 DEF UpstreamActs, Phased, PolicyConsistent, Enforced, callVars
  <1>7. ASSUME NEW c \in Calls, UpstreamAnswers(c) PROVE Phased'
    BY <1>7 DEF UpstreamAnswers, Phased, PolicyConsistent, Enforced, effVars
  <1>8. ASSUME NEW c \in Calls, UpstreamErrors(c) PROVE Phased'
    BY <1>8 DEF UpstreamErrors, Phased, PolicyConsistent, Enforced, effVars
  <1>9. ASSUME NEW c \in Calls, IssueAcked(c) \/ IssueFailed(c) PROVE Phased'
    BY <1>9 DEF IssueAcked, IssueFailed, Phased, PolicyConsistent, Enforced, effVars
  <1>10. CASE Crash
    BY <1>10 DEF Crash, InFlight, Phased, PolicyConsistent, Enforced, effVars
  <1>11. CASE \/ UNCHANGED vars
              \/ \E s \in Sessions : OpenSession(s) \/ CloseSession(s) \/ GrantLapses(s)
              \/ \E e \in late : LateLands(e)
    BY <1>11 DEF OpenSession, CloseSession, GrantLapses, LateLands, Phased,
       PolicyConsistent,
                 Enforced, vars, callVars, effVars
  <1> QED BY <1>1, <1>2, <1>3, <1>4, <1>5, <1>6, <1>7, <1>8, <1>9, <1>10, <1>11
             DEF Next, Step

-------------------------------------------------------------------------------
(* The log only grows, and a step states nothing but the authorization of  *)
(* a call that waits for one or the receipt of a call that is settled.     *)
LEMMA LogStep ==
    ASSUME TypeOK, Phased, [Next]_vars
    PROVE  /\ \A i \in DOMAIN log : i \in DOMAIN log' /\ log'[i] = log[i]
           /\ \A x : Logged(x) => Logged(x)'
           /\ \A x : Stated(x)' =>
                \/ Stated(x)
                \/ \E c \in Calls : pc[c] = "authorizing" /\ x = Authorization(c)
                \/ \E c \in Calls : pc[c] = "issuing" /\ x = Receipt(c, execution[c])
  <1> DEFINE Due(x) ==
               \/ \E c \in Calls : pc[c] = "authorizing" /\ x = Authorization(c)
               \/ \E c \in Calls : pc[c] = "issuing" /\ x = Receipt(c, execution[c])
             Grows ==
               /\ \A i \in DOMAIN log : i \in DOMAIN log' /\ log'[i] = log[i]
               /\ \A x : Logged(x) => Logged(x)'
               /\ \A x : Stated(x)' => Stated(x) \/ Due(x)
  <1> SUFFICES Grows
    OBVIOUS
  <1>1. ASSUME NEW leaf \in Leaves, log' = Append(log, leaf), late' \subseteq late,
               Stated(leaf) \/ Due(leaf)
        PROVE  Grows
    <2>1. /\ \A i \in DOMAIN log : i \in DOMAIN log' /\ log'[i] = log[i]
          /\ \A x : Logged(x)' <=> Logged(x) \/ x = leaf
      BY <1>1, LoggedAfterAppend, Zenon
    <2> QED BY <2>1, <1>1, Zenon DEF Stated
  <1>2. ASSUME NEW c \in Calls, NEW leaf \in Leaves, Unacknowledged(c, leaf), Due(leaf)
        PROVE  Grows
    BY <1>2, StatedAfterUnacknowledged, Zenon
  <1>3. CASE UNCHANGED <<log, late>>
    <2>1. \A x : (Logged(x)' <=> Logged(x)) /\ (Stated(x)' <=> Stated(x))
      BY <1>3 DEF Logged, Stated
    <2> QED BY <2>1, <1>3, Zenon
  <1>4. ASSUME NEW c \in Calls, pc[c] = "issuing" PROVE Receipt(c, execution[c]) \in Leaves
    <2>1. execution[c] \in Status
      BY <1>4 DEF Phased, TypeOK
    <2> QED BY <2>1, LeavesOfCalls
  <1>5. ASSUME NEW c \in Calls, AuthorizeAcked(c) PROVE Grows
    <2>1. /\ Authorization(c) \in Leaves /\ Due(Authorization(c))
          /\ log' = Append(log, Authorization(c)) /\ late' \subseteq late
      BY <1>5, LeavesOfCalls DEF AuthorizeAcked
    <2> HIDE DEF Due, Grows
    <2> QED BY <2>1, <1>1
  <1>6. ASSUME NEW c \in Calls, AuthorizeRetried(c) \/ AuthorizeFailed(c) PROVE Grows
    <2>1. /\ Authorization(c) \in Leaves /\ Due(Authorization(c))
          /\ Unacknowledged(c, Authorization(c))
      BY <1>6, LeavesOfCalls DEF AuthorizeRetried, AuthorizeFailed
    <2> HIDE DEF Due, Grows
    <2> QED BY <2>1, <1>2
  <1>7. ASSUME NEW c \in Calls, IssueAcked(c) PROVE Grows
    <2>1. /\ Receipt(c, execution[c]) \in Leaves /\ Due(Receipt(c, execution[c]))
          /\ log' = Append(log, Receipt(c, execution[c])) /\ late' \subseteq late
      BY <1>7, <1>4 DEF IssueAcked
    <2> HIDE DEF Due, Grows
    <2> QED BY <2>1, <1>1
  <1>8. ASSUME NEW c \in Calls, IssueRetried(c) \/ IssueFailed(c) PROVE Grows
    <2>1. /\ Receipt(c, execution[c]) \in Leaves /\ Due(Receipt(c, execution[c]))
          /\ Unacknowledged(c, Receipt(c, execution[c]))
      BY <1>8, <1>4 DEF IssueRetried, IssueFailed
    <2> HIDE DEF Due, Grows
    <2> QED BY <2>1, <1>2
  <1>9. ASSUME NEW e \in late, LateLands(e) PROVE Grows
    <2>1. /\ e.leaf \in Leaves /\ Stated(e.leaf)
          /\ log' = Append(log, e.leaf) /\ late' \subseteq late
      BY <1>9 DEF LateLands, TypeOK, Stated
    <2> HIDE DEF Due, Grows
    <2> QED BY <2>1, <1>1
  <1>10. CASE \/ UNCHANGED vars \/ Crash
              \/ \E s \in Sessions : OpenSession(s) \/ CloseSession(s) \/ GrantLapses(s)
              \/ \E c \in Calls : Receive(c) \/ Decide(c) \/ UpstreamActs(c)
              \/ \E c \in Calls : UpstreamAnswers(c) \/ UpstreamErrors(c)
    <2>1. UNCHANGED <<log, late>>
      BY <1>10 DEF vars, logVars, Crash, OpenSession, CloseSession, GrantLapses,
         Receive, Decide,
                   UpstreamActs, UpstreamAnswers, UpstreamErrors
    <2> QED BY <2>1, <1>3
  <1> HIDE DEF Grows
  <1> QED BY <1>5, <1>6, <1>7, <1>8, <1>9, <1>10 DEF Next, Step

(* An outcome is settled once, and a receipt is handed out by IssueAcked.  *)
LEMMA OutcomeStep ==
    ASSUME TypeOK, Phased, [Next]_vars, NEW c \in Calls
    PROVE  /\ execution[c] # "none" => execution'[c] = execution[c]
           /\ pc'[c] = "idle" => pc[c] = "idle"
           /\ pc'[c] = "answered" => pc[c] = "answered" \/ IssueAcked(c)
           /\ pc[c] = "answered" => pc'[c] = "answered"
           /\ UNCHANGED <<mode, home, tool>>
           /\ authIndex'[c] = authIndex[c] \/ AuthorizeAcked(c)
           /\ recIndex'[c] = recIndex[c] \/ IssueAcked(c)
           /\ c \in sent' \ sent =>
                 \/ AuthorizeAcked(c) \/ (AuthorizeFailed(c) /\ ~Enforced)
                 \/ \E d \in {"allow", "deny"} :
                       Proceed(c, d) /\ (Enforced => d = "allow" /\ tool[c] \notin Precommit)
  <1> DEFINE Kept ==
           /\ execution[c] # "none" => execution'[c] = execution[c]
           /\ pc'[c] = "idle" => pc[c] = "idle"
           /\ pc'[c] = "answered" => pc[c] = "answered" \/ IssueAcked(c)
           /\ pc[c] = "answered" => pc'[c] = "answered"
           /\ UNCHANGED <<mode, home, tool>>
           /\ authIndex'[c] = authIndex[c] \/ AuthorizeAcked(c)
           /\ recIndex'[c] = recIndex[c] \/ IssueAcked(c)
           /\ c \in sent' \ sent =>
                 \/ AuthorizeAcked(c) \/ (AuthorizeFailed(c) /\ ~Enforced)
                 \/ \E d \in {"allow", "deny"} :
                       Proceed(c, d) /\ (Enforced => d = "allow" /\ tool[c] \notin Precommit)
  <1> SUFFICES Kept
    OBVIOUS
  <1> USE DEF TypeOK, Phased, Unsent, headVars
  <1>1. ASSUME NEW x \in Calls, Receive(x) \/ Decide(x) PROVE Kept
    BY <1>1 DEF Receive, Decide, Proceed, Enforced
  <1>2. ASSUME NEW x \in Calls, AuthorizeAcked(x) \/ AuthorizeRetried(x) PROVE Kept
    BY <1>2 DEF AuthorizeAcked, AuthorizeRetried, effVars
  <1>3. ASSUME NEW x \in Calls, AuthorizeFailed(x) PROVE Kept
    BY <1>3 DEF AuthorizeFailed, effVars, Enforced
  <1>4. ASSUME NEW x \in Calls, UpstreamActs(x) \/ UpstreamAnswers(x) \/ UpstreamErrors(x) PROVE Kept
    BY <1>4 DEF UpstreamActs, UpstreamAnswers, UpstreamErrors, callVars, effVars
  <1>5. ASSUME NEW x \in Calls, IssueAcked(x) \/ IssueRetried(x) \/ IssueFailed(x) PROVE Kept
    BY <1>5 DEF IssueAcked, IssueRetried, IssueFailed, effVars
  <1>6. CASE Crash
    BY <1>6 DEF Crash, InFlight, effVars
  <1>7. CASE \/ UNCHANGED vars
             \/ \E s \in Sessions : OpenSession(s) \/ CloseSession(s) \/ GrantLapses(s)
             \/ \E e \in late : LateLands(e)
    BY <1>7 DEF OpenSession, CloseSession, GrantLapses, LateLands, vars, callVars,
       effVars
  <1> HIDE DEF Kept
  <1> QED BY <1>1, <1>2, <1>3, <1>4, <1>5, <1>6, <1>7 DEF Next, Step

LEMMA TruthfulStep == TypeOK /\ Phased /\ Truthful /\ [Next]_vars => Truthful'
  <1> SUFFICES ASSUME TypeOK, Phased, Truthful, [Next]_vars, NEW c \in Calls
      PROVE  /\ \A st \in Status : Stated(Receipt(c, st))' => st = execution'[c]
             /\ pc'[c] = "idle" => ~Stated(Authorization(c))'
             /\ pc'[c] = "answered" => \E i \in DOMAIN log' : log'[i] = Receipt(c, execution'[c])
    BY DEF Truthful, Receipt, Authorization, Logged
  <1>1. /\ \A x : Logged(x) => Logged(x)'
        /\ \A x : Stated(x)' =>
                \/ Stated(x)
                \/ \E d \in Calls : pc[d] = "authorizing" /\ x = Authorization(d)
                \/ \E d \in Calls : pc[d] = "issuing" /\ x = Receipt(d, execution[d])
    BY LogStep, Zenon
  <1>2. /\ execution[c] # "none" => execution'[c] = execution[c]
        /\ pc'[c] = "idle" => pc[c] = "idle"
        /\ pc'[c] = "answered" => pc[c] = "answered" \/ IssueAcked(c)
    BY OutcomeStep
  <1>3. \A d \in Calls : pc[d] = "issuing" => execution[d] \in Status
    BY DEF TypeOK, Phased
  <1>4. ASSUME NEW st \in Status, Stated(Receipt(c, st))' PROVE st = execution'[c]
    <2>1. st = execution[c]
      BY <1>1, <1>3, <1>4, LeavesOfCalls DEF Truthful
    <2> QED BY <2>1, <1>2 DEF Status
  <1>5. ASSUME pc'[c] = "idle" PROVE ~Stated(Authorization(c))'
    <2>1. pc[c] = "idle" /\ ~Stated(Authorization(c))
      BY <1>2, <1>5 DEF Truthful
    <2> QED BY <2>1, <1>1, <1>3, LeavesOfCalls
  <1>6. ASSUME pc'[c] = "answered" PROVE \E i \in DOMAIN log' : log'[i] = Receipt(c, execution'[c])
    <2>1. CASE pc[c] = "answered"
      <3>1. Logged(Receipt(c, execution[c])) /\ execution'[c] = execution[c]
        BY <2>1, <1>2 DEF Truthful, Phased
      <3> QED BY <3>1, LogStep DEF Logged
    <2>2. CASE IssueAcked(c)
      <3>1. execution[c] \in Status /\ execution'[c] = execution[c]
            /\ log' = Append(log, Receipt(c, execution[c]))
        BY <2>2, <1>3 DEF IssueAcked
      <3> QED BY <3>1, LeavesOfCalls, LoggedAfterAppend
    <2> QED BY <1>2, <1>6, <2>1, <2>2
  <1> QED BY <1>4, <1>5, <1>6

LEMMA EvidencedStep == TypeOK /\ Phased /\ Evidenced /\ [Next]_vars => Evidenced'
  <1> SUFFICES ASSUME TypeOK, Phased, Evidenced, [Next]_vars, NEW c \in Calls
      PROVE  /\ authIndex'[c] # 0 => /\ authIndex'[c] \in DOMAIN log'
                                     /\ log'[authIndex'[c]] = Authorization(c)
             /\ c \in sent' /\ tool'[c] \in Precommit /\ mode' = "enforce" => authIndex'[c] # 0
             /\ recIndex'[c] # 0 =>
                   /\ pc'[c] = "answered"
                   /\ recIndex'[c] \in DOMAIN log' /\ log'[recIndex'[c]] = Receipt(c, execution'[c])
                   /\ authIndex'[c] # 0 => authIndex'[c] < recIndex'[c]
    BY DEF Evidenced, Enforced, Authorization, Receipt
  <1>1. \A i \in DOMAIN log : i \in DOMAIN log' /\ log'[i] = log[i]
    BY LogStep
  <1>2. /\ execution[c] # "none" => execution'[c] = execution[c]
        /\ pc[c] = "answered" => pc'[c] = "answered"
        /\ UNCHANGED <<mode, home, tool>>
        /\ authIndex'[c] = authIndex[c] \/ AuthorizeAcked(c)
        /\ recIndex'[c] = recIndex[c] \/ IssueAcked(c)
        /\ c \in sent' \ sent =>
              \/ AuthorizeAcked(c) \/ (AuthorizeFailed(c) /\ ~Enforced)
              \/ \E d \in {"allow", "deny"} :
                    Proceed(c, d) /\ (Enforced => d = "allow" /\ tool[c] \notin Precommit)
    BY OutcomeStep
  <1>3. CASE AuthorizeAcked(c)
    <2>1. /\ authIndex'[c] = Len(log) + 1 /\ log' = Append(log, Authorization(c))
          /\ pc[c] = "authorizing" /\ recIndex' = recIndex
      BY <1>3 DEF AuthorizeAcked, NextIndex, TypeOK
    <2>2. /\ Len(log) + 1 \in DOMAIN log' /\ log'[Len(log) + 1] = Authorization(c)
          /\ Len(log) \in Nat
      BY <2>1, LeavesOfCalls, LoggedAfterAppend
    <2> QED BY <2>1, <2>2 DEF Evidenced
  <1>4. CASE IssueAcked(c)
    <2>1. /\ recIndex'[c] = Len(log) + 1 /\ log' = Append(log, Receipt(c, execution[c]))
          /\ pc'[c] = "answered" /\ execution'[c] = execution[c] /\ authIndex' = authIndex
          /\ sent' = sent /\ execution[c] \in Status
      BY <1>4 DEF IssueAcked, NextIndex, TypeOK, effVars, Phased
    <2>2. /\ Len(log) + 1 \in DOMAIN log' /\ log'[Len(log) + 1] = Receipt(c, execution[c])
          /\ Len(log) \in Nat /\ DOMAIN log = 1..Len(log)
      BY <2>1, LeavesOfCalls, LoggedAfterAppend
    <2>3. authIndex[c] # 0 => authIndex[c] \in 1..Len(log)
      BY <2>2 DEF Evidenced
    <2>4. authIndex'[c] # 0 => authIndex'[c] < recIndex'[c]
      BY <2>1, <2>2, <2>3 DEF TypeOK
    <2> QED BY <2>1, <2>2, <2>4, <1>1, <1>2 DEF Evidenced, Enforced
  <1>5. CASE authIndex'[c] = authIndex[c] /\ recIndex'[c] = recIndex[c] /\ ~AuthorizeAcked(c)
    <2>1. c \in sent' /\ tool'[c] \in Precommit /\ mode' = "enforce" => c \in sent
      BY <1>2, <1>5 DEF Enforced
    <2>2. recIndex[c] # 0 => execution[c] # "none"
      BY DEF Evidenced, Phased
    <2> QED BY <1>1, <1>2, <1>5, <2>1, <2>2 DEF Evidenced, Enforced
  <1> QED BY <1>2, <1>3, <1>4, <1>5

(* What the agent is handed was noted when it was served.                  *)
LEMMA CarriedStep == TypeOK /\ Carried /\ [Next]_vars => Carried'
  <1> SUFFICES ASSUME TypeOK, Carried, [Next]_vars PROVE Carried'
    OBVIOUS
  <1> USE DEF TypeOK, Carried
  <1>1. ASSUME NEW c \in Calls, UpstreamAnswers(c) PROVE Carried'
    <2>1. PICK F \in SUBSET Facts : /\ served' = [served EXCEPT ![c] = F]
                                    /\ consumed' = [consumed EXCEPT ![home[c]] = @ \cup F]
      BY <1>1 DEF UpstreamAnswers, NoteServed
    <2> QED BY <1>1, <2>1 DEF UpstreamAnswers, headVars
  <1>2. ASSUME NEW c \in Calls, IssueAcked(c) PROVE Carried'
    <2>1. \A s \in Sessions : shown'[s] \subseteq shown[s] \cup (IF s = home[c] THEN served[c] ELSE {})
      BY <1>2 DEF IssueAcked
    <2> QED BY <1>2, <2>1 DEF IssueAcked, headVars
  <1>3. CASE UNCHANGED <<home, shown, consumed, served>>
    BY <1>3
  <1>4. ASSUME NEW c \in Calls,
               \/ Receive(c) \/ Decide(c) \/ UpstreamActs(c) \/ UpstreamErrors(c)
               \/ AuthorizeAcked(c) \/ AuthorizeRetried(c) \/ AuthorizeFailed(c)
               \/ IssueRetried(c) \/ IssueFailed(c)
        PROVE  Carried'
    <2>1. UNCHANGED <<home, shown, consumed, served>>
      BY <1>4 DEF Receive, Decide, UpstreamActs, UpstreamErrors, AuthorizeAcked,
         AuthorizeRetried,
                  AuthorizeFailed, IssueRetried, IssueFailed, sessVars, headVars, callVars
    <2> QED BY <2>1, <1>3
  <1>5. CASE \/ UNCHANGED vars \/ Crash
             \/ \E s \in Sessions : OpenSession(s) \/ CloseSession(s) \/ GrantLapses(s)
             \/ \E e \in late : LateLands(e)
    <2>1. UNCHANGED <<home, shown, consumed, served>>
      BY <1>5 DEF vars, Crash, OpenSession, CloseSession, GrantLapses, LateLands,
         sessVars, headVars, callVars
    <2> QED BY <2>1, <1>3
  <1> QED BY <1>1, <1>2, <1>4, <1>5 DEF Next, Step

LEMMA ServedStep ==
    ASSUME TypeOK, Phased, [Next]_vars, NEW c \in Calls, execution[c] # "none"
    PROVE  served'[c] = served[c]
  <1>1. ASSUME NEW x \in Calls, UpstreamAnswers(x) PROVE served'[c] = served[c]
    <2>1. x # c
      BY <1>1 DEF UpstreamAnswers, Phased
    <2> QED BY <1>1, <2>1 DEF UpstreamAnswers, TypeOK
  <1>2. ASSUME NEW x \in Calls,
               \/ Receive(x) \/ Decide(x) \/ UpstreamActs(x) \/ UpstreamErrors(x)
               \/ AuthorizeAcked(x) \/ AuthorizeRetried(x) \/ AuthorizeFailed(x)
               \/ IssueAcked(x) \/ IssueRetried(x) \/ IssueFailed(x)
        PROVE  served'[c] = served[c]
    BY <1>2 DEF Receive, Decide, UpstreamActs, UpstreamErrors, AuthorizeAcked,
       AuthorizeRetried,
                AuthorizeFailed, IssueAcked, IssueRetried, IssueFailed, callVars
  <1>3. CASE \/ UNCHANGED vars \/ Crash
             \/ \E s \in Sessions : OpenSession(s) \/ CloseSession(s) \/ GrantLapses(s)
             \/ \E e \in late : LateLands(e)
    BY <1>3 DEF vars, Crash, OpenSession, CloseSession, GrantLapses, LateLands, callVars
  <1> QED BY <1>1, <1>2, <1>3 DEF Next, Step

(* Results reach the agent in IssueAcked alone.                            *)
LEMMA ShownStep ==
    ASSUME TypeOK, [Next]_vars
    PROVE  \/ shown' = shown
           \/ \E c \in Calls : /\ IssueAcked(c)
                               /\ \A s \in Sessions : \A f \in shown'[s] :
                                    f \in shown[s] \/ (s = home[c] /\ f \in served[c])
  <1>1. ASSUME NEW c \in Calls, IssueAcked(c)
        PROVE  \A s \in Sessions : \A f \in shown'[s] :
                  f \in shown[s] \/ (s = home[c] /\ f \in served[c])
    BY <1>1 DEF IssueAcked, TypeOK
  <1>2. ASSUME NEW x \in Calls,
               \/ Receive(x) \/ Decide(x) \/ UpstreamActs(x) \/ UpstreamErrors(x)
               \/ AuthorizeAcked(x) \/ AuthorizeRetried(x) \/ AuthorizeFailed(x)
               \/ UpstreamAnswers(x) \/ IssueRetried(x) \/ IssueFailed(x)
        PROVE  shown' = shown
    BY <1>2 DEF Receive, Decide, UpstreamActs, UpstreamErrors, AuthorizeAcked,
       AuthorizeRetried,
                AuthorizeFailed, UpstreamAnswers, IssueRetried, IssueFailed, sessVars
  <1>3. CASE \/ UNCHANGED vars \/ Crash
             \/ \E s \in Sessions : OpenSession(s) \/ CloseSession(s) \/ GrantLapses(s)
             \/ \E e \in late : LateLands(e)
    BY <1>3 DEF vars, Crash, OpenSession, CloseSession, GrantLapses, LateLands, sessVars
  <1> QED BY <1>1, <1>2, <1>3 DEF Next, Step

LEMMA ShownIsReceiptedStep ==
    TypeOK /\ Phased /\ ShownIsReceipted /\ [Next]_vars => ShownIsReceipted'
  <1> SUFFICES ASSUME TypeOK, Phased, ShownIsReceipted, [Next]_vars,
                      NEW s \in Sessions, NEW f \in shown'[s]
      PROVE  \E c \in Calls : /\ home'[c] = s /\ f \in served'[c]
                              /\ \E i \in DOMAIN log' : log'[i] = Receipt(c, execution'[c])
    BY DEF ShownIsReceipted, Logged, Receipt
  <1>1. CASE f \in shown[s]
    <2>1. PICK c \in Calls : /\ home[c] = s /\ f \in served[c]
                             /\ Logged(Receipt(c, execution[c]))
      BY <1>1 DEF ShownIsReceipted
    <2>2. execution[c] # "none"
      <3>1. PICK i \in DOMAIN log : log[i] = Receipt(c, execution[c])
        BY <2>1 DEF Logged
      <3>2. log[i] \in Leaves
        BY <3>1 DEF TypeOK
      <3> QED BY <3>1, <3>2 DEF Leaves, Receipt, Status
    <2>3. /\ execution'[c] = execution[c] /\ home' = home /\ served'[c] = served[c]
          /\ Logged(Receipt(c, execution[c]))'
      BY <2>1, <2>2, OutcomeStep, ServedStep, LogStep
    <2> QED BY <2>1, <2>3 DEF Logged
  <1>2. ASSUME NEW c \in Calls, IssueAcked(c), s = home[c], f \in served[c]
        PROVE  /\ home'[c] = s /\ f \in served'[c]
               /\ \E i \in DOMAIN log' : log'[i] = Receipt(c, execution'[c])
    <2>1. /\ execution[c] \in Status /\ execution' = execution /\ home' = home /\ served' = served
          /\ log' = Append(log, Receipt(c, execution[c]))
      BY <1>2 DEF IssueAcked, TypeOK, Phased, headVars
    <2> QED BY <1>2, <2>1, LeavesOfCalls, LoggedAfterAppend
  <1> QED BY <1>1, <1>2, ShownStep

-------------------------------------------------------------------------------
LEMMA Invariant == Spec => []IInv
  <1>1. Init => IInv
    <2> SUFFICES ASSUME Init PROVE IInv
      OBVIOUS
    <2>1. \A x : ~Logged(x) /\ ~Stated(x)
      BY DEF Init, Logged, Stated
    <2>2. TypeOK
      BY GatewayAssumption DEF Init, TypeOK, Phases, Leaves
    <2>3. Phased /\ Carried /\ ShownIsReceipted
      BY <2>2 DEF Init, Phased, Carried, ShownIsReceipted, Unsent, NotSent,
         Status, TypeOK
    <2>4. Evidenced /\ Truthful
      BY <2>1 DEF Init, Evidenced, Truthful
    <2> QED BY <2>2, <2>3, <2>4 DEF IInv
  <1>2. TypeOK /\ TypeOK' /\ IInv /\ [Next]_vars => IInv'
    BY PhasedStep, EvidencedStep, TruthfulStep, CarriedStep, ShownIsReceiptedStep
       DEF IInv
  <1> QED BY <1>1, <1>2, TypeCorrect, PTL DEF Spec

(* gateway.ts:239-247 for any number of calls, tools and attempts: in      *)
(* enforce mode a consequential call goes out only with its authorization  *)
(* in the log.                                                             *)
THEOREM EvidenceFirst == Spec => []EvidenceBeforeEffect
  <1>1. IInv => EvidenceBeforeEffect
    BY DEF IInv, Evidenced, EvidenceBeforeEffect, TypeOK
  <1> QED BY <1>1, Invariant, PTL

(* verification.md:105: a receipt never says of a call what is not so,     *)
(* and all receipts of a call agree.                                       *)
THEOREM ReceiptsAreTruthful == Spec => []ReceiptsTruthful
  <1>1. IInv => ReceiptsTruthful
    BY DEF IInv, Truthful, Phased, ReceiptsTruthful, NotSent
  <1> QED BY <1>1, Invariant, PTL

(* verify.ts:76-126: what the gateway hands out passes the verifier.       *)
THEOREM HandedOutReceiptsVerify == Spec => []HandedOutVerifies
  <1>1. IInv => HandedOutVerifies
    BY DEF IInv, Evidenced, Phased, HandedOutVerifies, WithinScopes,
       AuthorizedFirst, NotSent, Status
  <1> QED BY <1>1, Invariant, PTL

(* threat-model.md:99: the agent is handed facts only under a logged       *)
(* receipt.                                                                *)
THEOREM ShownUnderReceipt == Spec => []ShownIsReceipted
  <1>1. IInv => ShownIsReceipted
    BY DEF IInv
  <1> QED BY <1>1, Invariant, PTL

(* gateway.ts:182-197: a receipt's consumed list misses no fact shown to   *)
(* the agent in its session before the call.                               *)
THEOREM ConsumedIsComplete == Spec => ConsumedComplete
  <1>1. IInv /\ [Next]_vars =>
            \A c \in Calls : pc[c] = "idle" /\ pc'[c] # "idle" =>
                shown[home[c]] \subseteq snapshot'[c]
    <2> SUFFICES ASSUME IInv, [Next]_vars, NEW c \in Calls, pc[c] = "idle", pc'[c] # "idle"
        PROVE  shown[home[c]] \subseteq snapshot'[c]
      OBVIOUS
    <2> USE DEF IInv, TypeOK
    <2>1. Receive(c)
      <3>1. ASSUME NEW x \in Calls, Receive(x) PROVE x = c
        <4>1. \A y \in Calls : y # x => pc'[y] = pc[y]
          BY <3>1 DEF Receive, Proceed
        <4> QED BY <4>1
      <3>2. ASSUME NEW x \in Calls, Decide(x) PROVE FALSE
        <4>1. pc[x] = "deciding" /\ \A y \in Calls : y # x => pc'[y] = pc[y]
          BY <3>2 DEF Decide, Proceed
        <4> QED BY <4>1
      <3>3. ASSUME NEW x \in Calls,
                   \/ UpstreamActs(x) \/ UpstreamErrors(x) \/ UpstreamAnswers(x)
                   \/ AuthorizeAcked(x) \/ AuthorizeRetried(x) \/ AuthorizeFailed(x)
                   \/ IssueAcked(x) \/ IssueRetried(x) \/ IssueFailed(x)
            PROVE  FALSE
        BY <3>3 DEF UpstreamActs, UpstreamErrors, UpstreamAnswers, AuthorizeAcked,
           AuthorizeRetried,
                    AuthorizeFailed, IssueAcked, IssueRetried, IssueFailed, callVars
      <3>4. CASE \/ UNCHANGED vars \/ Crash
                 \/ \E s \in Sessions : OpenSession(s) \/ CloseSession(s) \/ GrantLapses(s)
                 \/ \E e \in late : LateLands(e)
        BY <3>4 DEF vars, Crash, InFlight, OpenSession, CloseSession, GrantLapses,
           LateLands, callVars
      <3> QED BY <3>1, <3>2, <3>3, <3>4 DEF Next, Step
    <2> QED BY <2>1 DEF Receive, Carried
  <1> QED BY <1>1, Invariant, PTL DEF ConsumedComplete, Spec

(* A call goes out at most once, within scope and on an allow when in      *)
(* force, and never after a receipt of it could reach the log.             *)
THEOREM SentOnce == Spec => SentOnceAndFirst
  <1>1. IInv /\ IInv' /\ [Next]_vars =>
            \A c \in sent' \ sent :
                /\ Enforced => tool[c] \in Scopes /\ decision'[c] = "allow"
                /\ execution[c] = "none"
                /\ \A st \in Status : ~Stated(Receipt(c, st))
    <2> SUFFICES ASSUME IInv, IInv', [Next]_vars, NEW c \in sent' \ sent
        PROVE  /\ Enforced => tool[c] \in Scopes /\ decision'[c] = "allow"
               /\ execution[c] = "none"
               /\ \A st \in Status : ~Stated(Receipt(c, st))
      OBVIOUS
    <2>1. c \in Calls
      BY DEF IInv, TypeOK
    <2>2. Enforced => tool[c] \in Scopes /\ decision'[c] = "allow"
      BY <2>1, OutcomeStep DEF IInv, Phased, Enforced
    <2>3. execution[c] = "none"
      <3>1. pc[c] \in Unsent
        <4>1. ASSUME NEW x \in Calls, Receive(x) \/ Decide(x) PROVE pc[c] \in Unsent
          BY <4>1 DEF Receive, Decide, Proceed, Unsent
        <4>2. ASSUME NEW x \in Calls, AuthorizeAcked(x) \/ AuthorizeFailed(x) PROVE pc[c] \in Unsent
          BY <4>2 DEF AuthorizeAcked, AuthorizeFailed, Unsent
        <4>3. ASSUME NEW x \in Calls,
                   \/ UpstreamActs(x) \/ UpstreamErrors(x) \/ UpstreamAnswers(x) \/ AuthorizeRetried(x)
                   \/ IssueAcked(x) \/ IssueRetried(x) \/ IssueFailed(x)
              PROVE  FALSE
          BY <4>3 DEF UpstreamActs, UpstreamErrors, UpstreamAnswers, AuthorizeRetried,
                      IssueAcked, IssueRetried, IssueFailed, effVars
        <4>4. CASE \/ UNCHANGED vars \/ Crash
                   \/ \E s \in Sessions : OpenSession(s) \/ CloseSession(s) \/ GrantLapses(s)
                   \/ \E e \in late : LateLands(e)
          BY <4>4 DEF vars, Crash, OpenSession, CloseSession, GrantLapses,
             LateLands, effVars
        <4> QED BY <4>1, <4>2, <4>3, <4>4 DEF Next, Step
      <3> QED BY <2>1, <3>1 DEF IInv, Phased
    <2>4. \A st \in Status : ~Stated(Receipt(c, st))
      BY <2>1, <2>3 DEF IInv, Truthful, Status
    <2> QED BY <2>2, <2>3, <2>4
  <1> QED BY <1>1, Invariant, PTL DEF SentOnceAndFirst, Spec

-------------------------------------------------------------------------------
(* The gateway implements Custody.tla, under the mapping of Promise.       *)
GraveBar     == {c \in Calls : pc[c] # "idle" /\ tool[c] \in Precommit /\ Enforced}
CommittedBar == {c \in Calls : Logged(Authorization(c))}
ToldBar      == {p \in Calls \X Status : Logged(Receipt(p[1], p[2]))}
AnsweredBar  == {c \in Calls : pc[c] = "answered"}

(* How the mapped variables move when the log takes a leaf, or does not.   *)
LEMMA BarsAfterLeaf ==
    ASSUME TypeOK
    PROVE  /\ log' = log => CommittedBar' = CommittedBar /\ ToldBar' = ToldBar
           /\ \A c \in Calls : log' = Append(log, Authorization(c)) =>
                 CommittedBar' = CommittedBar \cup {c} /\ ToldBar' = ToldBar
           /\ \A c \in Calls, st \in Status : log' = Append(log, Receipt(c, st)) =>
                 CommittedBar' = CommittedBar /\ ToldBar' = ToldBar \cup {<<c, st>>}
  <1>1. ASSUME log' = log PROVE CommittedBar' = CommittedBar /\ ToldBar' = ToldBar
    BY <1>1 DEF CommittedBar, ToldBar, Logged
  <1>2. ASSUME NEW c \in Calls, log' = Append(log, Authorization(c))
        PROVE  CommittedBar' = CommittedBar \cup {c} /\ ToldBar' = ToldBar
    <2>1. \A x : Logged(x)' <=> Logged(x) \/ x = Authorization(c)
      BY <1>2, LeavesOfCalls, LoggedAfterAppend
    <2>2. CommittedBar' = CommittedBar \cup {c}
      BY <2>1, LeavesOfCalls DEF CommittedBar, Authorization
    <2>3. \A p \in Calls \X Status : Receipt(p[1], p[2]) # Authorization(c)
      BY LeavesOfCalls
    <2>4. \A p \in Calls \X Status : Logged(Receipt(p[1], p[2]))' <=> Logged(Receipt(p[1], p[2]))
      BY <2>1, <2>3 DEF Receipt
    <2> QED BY <2>2, <2>4 DEF ToldBar, Receipt
  <1>3. ASSUME NEW c \in Calls, NEW st \in Status, log' = Append(log, Receipt(c, st))
        PROVE  CommittedBar' = CommittedBar /\ ToldBar' = ToldBar \cup {<<c, st>>}
    <2>1. \A x : Logged(x)' <=> Logged(x) \/ x = Receipt(c, st)
      BY <1>3, LeavesOfCalls, LoggedAfterAppend
    <2>2. CommittedBar' = CommittedBar
      BY <2>1, LeavesOfCalls DEF CommittedBar, Authorization
    <2>3. \A p \in Calls \X Status : Receipt(p[1], p[2]) = Receipt(c, st) <=> p = <<c, st>>
      BY DEF Receipt
    <2>4. \A p \in Calls \X Status :
             Logged(Receipt(p[1], p[2]))' <=> Logged(Receipt(p[1], p[2])) \/ p = <<c, st>>
      BY <2>1, <2>3 DEF Receipt
    <2> QED BY <2>2, <2>4 DEF ToldBar, Receipt
  <1> QED BY <1>1, <1>2, <1>3

(* The abstract next-state relation on the mapped variables, one action at *)
(* a time.                                                                 *)
LEMMA StepsMap ==
    ASSUME IInv, [Next]_vars
    PROVE  [Promise!Next]_(Promise!vars)
  <1> DEFINE Stutter == UNCHANGED <<GraveBar, CommittedBar, sent, performed, ToldBar, AnsweredBar>>
             Maps == [Promise!Next]_(Promise!vars)
  <1> USE DEF Promise!vars, Promise!Next, Promise!Withheld, Promise!Attempted
  <1>0. ASSUME Stutter PROVE Maps
    BY <1>0 DEF GraveBar, CommittedBar, ToldBar, AnsweredBar
  <1>1. ASSUME NEW c \in Calls, c \notin GraveBar \cup sent \cup CommittedBar,
               \A st \in Status : <<c, st>> \notin ToldBar, GraveBar' = GraveBar \cup {c},
               UNCHANGED <<CommittedBar, sent, performed, ToldBar, AnsweredBar>>
        PROVE  Maps
    BY <1>1 DEF Promise!Begin, GraveBar, CommittedBar, ToldBar, AnsweredBar, Status
  <1>2. ASSUME NEW c \in Calls, CommittedBar' = CommittedBar \cup {c},
               UNCHANGED <<GraveBar, sent, performed, ToldBar, AnsweredBar>>
        PROVE  Maps
    BY <1>2 DEF Promise!Commit, GraveBar, CommittedBar, ToldBar, AnsweredBar
  <1>3. ASSUME NEW c \in Calls, c \notin sent, c \in GraveBar => c \in CommittedBar,
               \A st \in Status : <<c, st>> \notin ToldBar, sent' = sent \cup {c},
               UNCHANGED <<GraveBar, CommittedBar, performed, ToldBar, AnsweredBar>>
        PROVE  Maps
    BY <1>3 DEF Promise!Forward, GraveBar, CommittedBar, ToldBar, AnsweredBar, Status
  <1>4. ASSUME NEW c \in Calls, c \in sent, performed' = performed \cup {c},
               UNCHANGED <<GraveBar, CommittedBar, sent, ToldBar, AnsweredBar>>
        PROVE  Maps
    BY <1>4 DEF Promise!Perform, GraveBar, CommittedBar, ToldBar, AnsweredBar
  <1>5. ASSUME NEW c \in Calls, c \notin sent, \A st \in Status : <<c, st>> \notin ToldBar,
               sent' = sent \cup {c}, CommittedBar' = CommittedBar \cup {c},
               UNCHANGED <<GraveBar, performed, ToldBar, AnsweredBar>>
        PROVE  Maps
    BY <1>5 DEF Promise!CommitAndForward, GraveBar, CommittedBar, ToldBar,
       AnsweredBar, Status
  <1>6. ASSUME NEW c \in Calls, NEW st \in Status,
               IF st \in NotSent THEN c \notin sent ELSE c \in sent,
               st = "executed" => c \in performed,
               \A other \in Status : <<c, other>> \in ToldBar => other = st,
               ToldBar' = ToldBar \cup {<<c, st>>},
               UNCHANGED <<GraveBar, CommittedBar, sent, performed>>,
               AnsweredBar' = AnsweredBar \/ AnsweredBar' = AnsweredBar \cup {c}
        PROVE  Maps
    <2>1. CASE AnsweredBar' = AnsweredBar
      BY <1>6, <2>1 DEF Promise!Tell, GraveBar, CommittedBar, ToldBar,
         AnsweredBar, Status, NotSent
    <2>2. CASE AnsweredBar' = AnsweredBar \cup {c}
      BY <1>6, <2>2 DEF Promise!Answer, GraveBar, CommittedBar, ToldBar,
         AnsweredBar, Status, NotSent
    <2> QED BY <1>6, <2>1, <2>2
  <1> SUFFICES Maps
    OBVIOUS
  <1> HIDE DEF Maps, Promise!vars, Promise!Next
  <1>7. ASSUME NEW c \in Calls
        PROVE  /\ \A st \in Status : <<c, st>> \in ToldBar => st = execution[c]
               /\ execution[c] = "none" => \A st \in Status : <<c, st>> \notin ToldBar
               /\ pc[c] = "idle" => c \notin GraveBar \cup sent \cup CommittedBar
    BY DEF IInv, Truthful, Phased, Unsent, ToldBar, CommittedBar, GraveBar,
       Stated, Status
  <1>8. ASSUME NEW c \in Calls, pc[c] \in Unsent
        PROVE  c \notin sent /\ \A st \in Status : <<c, st>> \notin ToldBar
    BY <1>7, <1>8 DEF IInv, Phased
  <1>9. /\ log' = log => UNCHANGED <<CommittedBar, ToldBar>>
        /\ \A c \in Calls : log' = Append(log, Authorization(c)) =>
              CommittedBar' = CommittedBar \cup {c} /\ ToldBar' = ToldBar
        /\ \A c \in Calls, st \in Status : log' = Append(log, Receipt(c, st)) =>
              CommittedBar' = CommittedBar /\ ToldBar' = ToldBar \cup {<<c, st>>}
    BY BarsAfterLeaf DEF IInv
  (* A call that moves on inside the call path changes neither set.        *)
  <1>10. ASSUME NEW c \in Calls, pc[c] \notin {"idle", "answered"}, UNCHANGED <<mode, tool>>,
                NEW ph \in {"deciding", "authorizing", "waiting", "issuing", "rejected"},
                pc' = pc \/ pc' = [pc EXCEPT ![c] = ph]
         PROVE  UNCHANGED <<GraveBar, AnsweredBar>>
    BY <1>10 DEF GraveBar, AnsweredBar, IInv, TypeOK, Enforced
  <1>11. ASSUME NEW c \in Calls, NEW st \in Status, log' = Append(log, Receipt(c, st)),
                st = execution[c], UNCHANGED <<GraveBar, sent, performed>>,
                AnsweredBar' = AnsweredBar \/ AnsweredBar' = AnsweredBar \cup {c}
         PROVE  Maps
    <2>1. /\ IF st \in NotSent THEN c \notin sent ELSE c \in sent
          /\ st = "executed" => c \in performed
          /\ \A other \in Status : <<c, other>> \in ToldBar => other = st
      BY <1>7, <1>11 DEF IInv, Phased
    <2>2. CommittedBar' = CommittedBar /\ ToldBar' = ToldBar \cup {<<c, st>>}
      BY <1>9, <1>11
    <2> QED BY <1>6, <1>11, <2>1, <2>2
  <1>12. ASSUME NEW c \in Calls, Receive(c) PROVE Maps
    <2>1. /\ pc[c] = "idle" /\ UNCHANGED <<mode, tool, performed, log>>
          /\ pc' \in [Calls -> Phases] /\ pc'[c] \notin {"idle", "answered"}
          /\ \A x \in Calls : x # c => pc'[x] = pc[x]
      <3>1. CASE InScope(c)
        BY <1>12, <3>1 DEF Receive, headVars, logVars, IInv, TypeOK, Phases, InFlight
      <3>2. CASE ~InScope(c)
        BY <1>12, <3>2 DEF Receive, Proceed, headVars, logVars, IInv, TypeOK,
           Phases, InFlight
      <3> QED BY <3>1, <3>2
    <2>2. /\ AnsweredBar' = AnsweredBar /\ UNCHANGED <<CommittedBar, ToldBar>>
          /\ GraveBar' = IF tool[c] \in Precommit /\ Enforced THEN GraveBar \cup {c} ELSE GraveBar
      BY <2>1, <1>9 DEF AnsweredBar, GraveBar, Enforced
    <2>3. c \notin sent /\ \A st \in Status : <<c, st>> \notin ToldBar
      BY <2>1, <1>8 DEF Unsent
    <2>4. CASE sent' = sent
      BY <2>1, <2>2, <2>3, <2>4, <1>0, <1>1, <1>7
    <2>5. CASE sent' # sent
      <3>1. sent' = sent \cup {c} /\ ~Enforced
        BY <1>12, <2>5 DEF Receive, Proceed
      <3>2. c \notin GraveBar
        BY <3>1 DEF GraveBar
      <3> QED BY <2>1, <2>2, <2>3, <3>1, <3>2, <1>3
    <2> QED BY <2>4, <2>5
  <1>13. ASSUME NEW c \in Calls, Decide(c) PROVE Maps
    <2>1. PICK d \in {"allow", "deny"} : Proceed(c, d)
      BY <1>13 DEF Decide
    <2>2. pc[c] = "deciding" /\ UNCHANGED <<mode, tool, performed, log>>
      BY <1>13 DEF Decide, headVars, logVars
    <2>3. UNCHANGED <<GraveBar, AnsweredBar, CommittedBar, ToldBar>>
      BY <2>1, <2>2, <1>9, <1>10 DEF Proceed
    <2>4. CASE sent' = sent
      BY <2>2, <2>3, <2>4, <1>0
    <2>5. CASE sent' # sent
      <3>1. sent' = sent \cup {c} /\ c \notin GraveBar
        BY <2>1, <2>5 DEF Proceed, GraveBar
      <3> QED BY <2>2, <2>3, <3>1, <1>3, <1>8 DEF Unsent
    <2> QED BY <2>4, <2>5
  <1>14. ASSUME NEW c \in Calls, AuthorizeAcked(c) PROVE Maps
    <2>1. /\ pc[c] = "authorizing" /\ log' = Append(log, Authorization(c))
          /\ sent' = sent \cup {c} /\ UNCHANGED <<mode, tool, performed>>
          /\ pc' = [pc EXCEPT ![c] = "waiting"]
      BY <1>14 DEF AuthorizeAcked, headVars
    <2>2. /\ UNCHANGED <<GraveBar, AnsweredBar, ToldBar>>
          /\ CommittedBar' = CommittedBar \cup {c}
      BY <2>1, <1>9, <1>10
    <2> QED BY <2>1, <2>2, <1>5, <1>8 DEF Unsent
  <1>15. ASSUME NEW c \in Calls, AuthorizeRetried(c) PROVE Maps
    <2>1. /\ pc[c] = "authorizing" /\ UNCHANGED <<mode, tool, pc, sent, performed>>
          /\ log' = log \/ log' = Append(log, Authorization(c))
      BY <1>15 DEF AuthorizeRetried, Unacknowledged, headVars, effVars
    <2>2. UNCHANGED <<GraveBar, AnsweredBar>>
      BY <2>1, <1>10
    <2> QED BY <2>1, <2>2, <1>0, <1>2, <1>9
  <1>16. ASSUME NEW c \in Calls, AuthorizeFailed(c) PROVE Maps
    <2>1. /\ pc[c] = "authorizing" /\ UNCHANGED <<mode, tool, performed>>
          /\ log' = log \/ log' = Append(log, Authorization(c))
          /\ \/ sent' = sent /\ pc' = [pc EXCEPT ![c] = "issuing"]
             \/ sent' = sent \cup {c} /\ pc' = [pc EXCEPT ![c] = "waiting"] /\ ~Enforced
      BY <1>16 DEF AuthorizeFailed, Unacknowledged, headVars
    <2>2. UNCHANGED <<GraveBar, AnsweredBar>>
      BY <2>1, <1>10
    <2>3. ~Enforced => c \notin GraveBar
      BY DEF GraveBar
    <2>4. CASE log' = log
      BY <2>1, <2>2, <2>3, <2>4, <1>0, <1>3, <1>8, <1>9 DEF Unsent
    <2>5. CASE log' = Append(log, Authorization(c))
      BY <2>1, <2>2, <2>5, <1>2, <1>5, <1>8, <1>9 DEF Unsent
    <2> QED BY <2>1, <2>4, <2>5
  <1>17. ASSUME NEW c \in Calls, UpstreamActs(c) PROVE Maps
    <2>1. /\ UNCHANGED <<mode, tool, pc, log, sent>> /\ c \in sent
          /\ performed' = performed \cup {c}
      BY <1>17 DEF UpstreamActs, headVars, callVars, logVars
    <2>2. UNCHANGED <<GraveBar, AnsweredBar, CommittedBar, ToldBar>>
      BY <2>1, <1>9 DEF GraveBar, AnsweredBar, Enforced
    <2> QED BY <2>1, <2>2, <1>4
  <1>18. ASSUME NEW c \in Calls, UpstreamAnswers(c) \/ UpstreamErrors(c) PROVE Maps
    <2>1. /\ UNCHANGED <<mode, tool, log, sent, performed>> /\ pc[c] = "waiting"
          /\ pc' = [pc EXCEPT ![c] = "issuing"]
      BY <1>18 DEF UpstreamAnswers, UpstreamErrors, headVars, logVars, effVars
    <2>2. UNCHANGED <<GraveBar, AnsweredBar, CommittedBar, ToldBar>>
      BY <2>1, <1>9, <1>10
    <2> QED BY <2>1, <2>2, <1>0
  <1>19. ASSUME NEW c \in Calls, IssueAcked(c) PROVE Maps
    <2>1. /\ UNCHANGED <<mode, tool, sent, performed>> /\ pc[c] = "issuing"
          /\ pc' = [pc EXCEPT ![c] = "answered"] /\ execution[c] \in Status
          /\ log' = Append(log, Receipt(c, execution[c]))
      BY <1>19 DEF IssueAcked, headVars, effVars, IInv, TypeOK, Phased
    <2>2. GraveBar' = GraveBar /\ AnsweredBar' = AnsweredBar \cup {c}
      BY <2>1 DEF GraveBar, AnsweredBar, Enforced, IInv, TypeOK
    <2> QED BY <2>1, <2>2, <1>11
  <1>20. ASSUME NEW c \in Calls, IssueRetried(c) \/ IssueFailed(c) PROVE Maps
    <2>1. /\ UNCHANGED <<mode, tool, sent, performed>> /\ pc[c] = "issuing"
          /\ pc' = pc \/ pc' = [pc EXCEPT ![c] = "rejected"]
          /\ execution[c] \in Status
          /\ log' = log \/ log' = Append(log, Receipt(c, execution[c]))
      BY <1>20 DEF IssueRetried, IssueFailed, Unacknowledged, headVars, effVars,
         IInv, TypeOK, Phased
    <2>2. UNCHANGED <<GraveBar, AnsweredBar>>
      BY <2>1, <1>10
    <2> QED BY <2>1, <2>2, <1>0, <1>9, <1>11
  <1>21. ASSUME NEW e \in late, LateLands(e) PROVE Maps
    <2>1. /\ UNCHANGED <<mode, tool, sent, performed, pc>> /\ log' = Append(log, e.leaf)
          /\ Stated(e.leaf) /\ e.leaf \in Leaves
      BY <1>21 DEF LateLands, headVars, effVars, callVars, IInv, TypeOK, Stated
    <2>2. UNCHANGED <<GraveBar, AnsweredBar>>
      BY <2>1 DEF GraveBar, AnsweredBar, Enforced
    <2>3. PICK c \in Calls : \/ e.leaf = Authorization(c)
                             \/ \E st \in Status : e.leaf = Receipt(c, st)
      BY <2>1 DEF Leaves, Authorization, Receipt
    <2>4. CASE e.leaf = Authorization(c)
      BY <2>1, <2>2, <2>4, <1>2, <1>9
    <2>5. ASSUME NEW st \in Status, e.leaf = Receipt(c, st) PROVE Maps
      <3>1. st = execution[c]
        BY <2>1, <2>5 DEF IInv, Truthful
      <3> QED BY <2>1, <2>2, <2>5, <3>1, <1>11
    <2> QED BY <2>3, <2>4, <2>5
  <1>22. CASE \/ UNCHANGED vars \/ Crash
              \/ \E s \in Sessions : OpenSession(s) \/ CloseSession(s) \/ GrantLapses(s)
    <2>1. /\ UNCHANGED <<mode, tool, sent, performed, log>>
          /\ \A x \in Calls : (pc'[x] = "idle" <=> pc[x] = "idle")
                              /\ (pc'[x] = "answered" <=> pc[x] = "answered")
      BY <1>22 DEF vars, Crash, InFlight, OpenSession, CloseSession, GrantLapses,
         headVars, effVars,
                   callVars, logVars
    <2>2. UNCHANGED <<GraveBar, AnsweredBar, CommittedBar, ToldBar>>
      BY <2>1, <1>9 DEF GraveBar, AnsweredBar, Enforced
    <2> QED BY <2>1, <2>2, <1>0
  <1> QED
    BY <1>12, <1>13, <1>14, <1>15, <1>16, <1>17, <1>18, <1>19, <1>20, <1>21, <1>22
       DEF Next, Step

(* Every behaviour of the gateway is one the abstract promise allows.      *)
THEOREM KeepsPromise == Spec => PromiseKept
  <1>1. Init => Promise!Init
    BY DEF Init, Promise!Init, Logged
  <1>2. IInv /\ [Next]_vars => [Promise!Next]_(Promise!vars)
    BY StepsMap
  <1> QED BY <1>1, <1>2, Invariant, PTL DEF Spec, PromiseKept, Promise!Spec

(* What the agent is shown is receipted, whatever fails, and the variables *)
(* keep their types.                                                       *)
THEOREM StaysConsistent == Spec => []Consistent
  <1>1. TypeOK /\ ShownIsReceipted => Consistent
    BY DEF Consistent
  <1> QED BY <1>1, TypeCorrect, ShownUnderReceipt, PTL

=============================================================================
