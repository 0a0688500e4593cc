------------------------------ MODULE Bundles ------------------------------
(***************************************************************************)
(* Receipt bundles, from the grant they are issued under to the verifiers  *)
(* that read them (receipts/src/receipt.ts, issue.ts, gateway.ts,          *)
(* upstream.ts, crypto.ts, verify.ts; site/verifier/verify-web.ts).        *)
(*                                                                         *)
(* Gateway.tla has the call path; here a call is what ends up signed.  The *)
(* question is what a verifier who trusts only keys may conclude, so the   *)
(* model also lets parts get mixed up: a grant made by another             *)
(* implementation of the format, an issuer that states something else than *)
(* what it saw, a bundle whose parts were edited or come from another one. *)
(*                                                                         *)
(* A signature, a digest and a hash are of the term they were computed     *)
(* from.  A proof of inclusion is where the leaf is in the tree the root   *)
(* is of: Merkle.tla has the proofs themselves.                            *)
(***************************************************************************)
EXTENDS Delegation, SequencesExt

CONSTANTS
    Precommit,    \* the tools whose calls are committed before they go out
    Contents,     \* what an upstream may return
    Logs,         \* the logs; a key has the name of its log
    Home,         \* the log the gateway commits to
    Asked,        \* the grants that are asked for
    Issuer,       \* the gateway's key, the issuer key a verifier is given
    Upstream,     \* the upstream's key
    Stripe, GitHub, \* a provider's name, and the secret that its deliveries are signed with
    VouchedBy,    \* who vouches for a tool's results: its upstream, or the provider that wraps
    None,
    MaxGrants,    \* bound: links in a chain
    MaxCalls      \* bound: calls

ASSUME BundlesAssumption ==
    /\ Precommit \subseteq Tools /\ Home \in Logs /\ Asked \subseteq Grants
    /\ VouchedBy \in [Tools -> {Upstream, Stripe, GitHub}]
    /\ Upstream \notin {Stripe, GitHub} /\ Stripe # GitHub
    /\ MaxGrants \in Nat \ {0} /\ MaxCalls \in Nat

VARIABLES
    now,          \* the time
    chain,        \* the grant that is made and used
    signed,       \* history: the grants principals signed
    mode,         \* cfg.mode, "closed" while no session is open
    calls,        \* the number of calls begun
    call,         \* the call under way: its statement so far, or None
    log,          \* per log, the leaves
    returned,     \* history: what an upstream or a provider signed
    bundles,      \* bundles written, in order
    shown         \* a bundle a verifier is shown and what it is given with it, or None

vars == <<now, chain, signed, mode, calls, call, log, returned, bundles, shown>>

-----------------------------------------------------------------------------
(* Statements, and what a bundle is made of.                               *)

\* An envelope's signature is by a key, or by none: its payload was edited afterwards.
Envelope(type, st, by) == [type |-> type, st |-> st, by |-> by]

\* append: the leaf's place, the size of the tree, and a head that is signed for the log.
TreeHead(l, leaves) == [log |-> l, size |-> Len(leaves), root |-> leaves, by |-> l]
Bundle(env, l, leaves) ==
    [env |-> env, head |-> TreeHead(l, leaves), inclusion |-> [index |-> Len(leaves), size |-> Len(leaves)]]

Ran(st) == st.status \in {"executed", "failed"}

-----------------------------------------------------------------------------
(* verifyBundle: the names of the checks that fail.                        *)

Check(name, ok) == IF ok THEN {} ELSE {name}

VerifyInclusion(env, inclusion, root) ==
    inclusion.size = Len(root) /\ inclusion.index \in DOMAIN root /\ root[inclusion.index] = env

\* The grant is for the receipt's principal and agent, and the principal's key is the one named.
BindsNames(st, g) == g.principal = st.principal /\ g.agent = st.agent
Binds(st, g) == g.principal = st.principal /\ g.agent = st.agent /\ st.grant[1].by = st.attested

\* `chainOk` is what the verifier at hand says of the chain.
GrantChecks(st, chainOk) ==
    LET g == Leaf(st.grant) IN
    IF st.grant = <<>>
    THEN Check("principal is claimed", st.attested = NoKey)
    ELSE IF ~chainOk THEN {"delegation signature"}
    ELSE UNION {
        Check("delegation binds principal and agent", Binds(st, g)),
        Check("delegation valid at receipt time", DelegationValidAt(g, st.at)),
        Check("executed tool within delegated scope", Ran(st) => st.tool \in g.scopes)}

\* What vouches for a result (UpstreamEvidence): the upstream's signature over this receipt, tool
\* and content, or a provider's delivery, signed at a time and naming the object it is about.
UpstreamSignature(id, tool, content) == [by |-> Upstream, id |-> id, tool |-> tool, content |-> content]
Delivery(provider, at, content) == [by |-> provider, at |-> at, content |-> content]
IsProvider(u) == u.by \in {Stripe, GitHub}

\* checkUpstream: bound to this receipt, tool and content.
CheckUpstreamByTool(st, u) == u.tool = st.tool /\ u.content = st.content
CheckUpstream(st, u) == u.id = st.id /\ u.tool = st.tool /\ u.content = st.content
\* checkProvider: no receipt is named.  Stripe's time must be near the receipt's (a moment of the
\* model is as long as the tolerance); the object must be in the result.
CheckProvider(st) ==
    LET u == st.upstream IN (u.by = Stripe => u.at = st.at) /\ u.content = st.content
WebCheckProvider(st) ==
    LET u == st.upstream IN ~(u.by = Stripe /\ u.at # st.at) /\ u.content = st.content

\* `deliveryOk` is what the verifier at hand says of a delivery.
UpstreamChecks(st, o, deliveryOk) ==
    IF ~Ran(st) \/ st.upstream = None \/ st.upstream.by \notin o.keys THEN {}
    ELSE IF IsProvider(st.upstream)
         THEN Check("upstream signature (provider secret)", deliveryOk)
         ELSE Check("upstream signature (upstream key)", CheckUpstream(st, st.upstream))

PolicyChecks(st) ==
    LET denied == st.status = "denied" IN
    IF st.decision = "none" THEN {}
    ELSE UNION {
        Check("policy decision consistent with execution",
              IF st.decision = "allow" \/ ~st.enforced THEN ~denied ELSE denied),
        Check("no policy errors on an allow", ~(st.decision = "allow" /\ st.errors))}

SameCall(auth, st) ==
    /\ auth.id = st.id /\ auth.tool = st.tool /\ auth.digest = st.digest
    /\ auth.agent = st.agent /\ auth.principal = st.principal /\ auth.decision = "allow"

Before(a, b) == a.inclusion.index < b.inclusion.index /\ a.inclusion.size <= b.inclusion.size

AuthorizationChecks(b) ==
    LET st == b.env.st  a == st.authorization IN
    IF a = None THEN {}
    ELSE IF ~(a.env.by = Issuer /\ a.env.type = "authorization") THEN {"authorization signature"}
    ELSE UNION {
        Check("authorization names this call", SameCall(a.env.st, st)),
        IF a.head.by \notin Logs \cup {Issuer} THEN {"authorization tree head signature"}
        ELSE Check("authorization log inclusion proof", VerifyInclusion(a.env, a.inclusion, a.head.root))
             \cup Check("authorization logged before execution", Before(a, b))}

\* A copy too short for the head, or that gives another root.
CopyChecks(head, copy) ==
    IF copy = None THEN {}
    ELSE Check("log file root matches tree head",
               Len(copy) >= head.size /\ SubSeq(copy, 1, head.size) = head.root)

HeadChecks(b, o) ==
    LET head == b.head IN
    IF head.by \notin Logs \cup {Issuer} THEN {"tree head signature"}
    ELSE UNION {
        Check("tree head names the expected log", o.log # None => head.log = o.log),
        Check("tree head matches inclusion proof size", head.size = b.inclusion.size),
        Check("log inclusion proof", VerifyInclusion(b.env, b.inclusion, head.root)),
        CopyChecks(head, o.copy)}

FailuresBy(b, o, chainOk, deliveryOk) ==
    LET st == b.env.st IN
    IF b.env.by # Issuer THEN {"receipt signature"}
    ELSE IF b.env.type # "receipt" THEN {"receipt payload type"}
    ELSE UNION {
        Check("issuer keyid matches signer", st.keyid = b.env.by),
        Check("gateway receipt carries a delegation", st.kind = "gateway" => st.grant # <<>>),
        Check("gateway receipt carries a policy decision", st.kind = "gateway" => st.decision # "none"),
        GrantChecks(st, chainOk),
        Check("request args digest", st.args = st.digest),
        UpstreamChecks(st, o, deliveryOk), PolicyChecks(st), AuthorizationChecks(b), HeadChecks(b, o)}

Failures(b, o) ==
    LET st == b.env.st IN FailuresBy(b, o, VerifyDelegation(st.grant), CheckProvider(st))
WebFailures(b, o) ==
    LET st == b.env.st IN FailuresBy(b, o, WebVerifyDelegation(st.grant), WebCheckProvider(st))
Verified(b, o) == Failures(b, o) = {}

-----------------------------------------------------------------------------
(* Grants.                                                                 *)

Init ==
    /\ now \in Times /\ chain = <<>> /\ signed = {} /\ mode = "closed" /\ calls = 0 /\ call = None
    /\ log = [l \in Logs |-> <<>>] /\ returned = {} /\ bundles = <<>> /\ shown = None

Unopened == mode = "closed" /\ call = None /\ bundles = <<>> /\ shown = None

\* The principals' signatures are remembered, wherever in a chain they stand.
Sign(g, by) ==
    /\ chain' = CreateDelegation(chain, g, by)
    /\ signed' = IF by \in Principals THEN signed \cup {[grant |-> g, by |-> by]} ELSE signed

\* createDelegation, with a key that is trusted or not; or a grant edited after it was signed.
Grant(g, by) ==
    /\ Unopened /\ chain = <<>> /\ SchemaOk(g)
    /\ Sign(g, by)
    /\ UNCHANGED <<calls, now, mode, call, log, returned, bundles, shown>>

Delegate(g, key) ==
    /\ Unopened /\ chain # <<>> /\ Len(chain) < MaxGrants
    /\ MayDelegate(chain, key, g)
    /\ Sign(g, key)
    /\ UNCHANGED <<calls, now, mode, call, log, returned, bundles, shown>>

\* Another implementation of the format signs what delegateFrom would not.
DelegateOtherwise(g, by) ==
    /\ Unopened /\ chain # <<>> /\ Len(chain) < MaxGrants
    /\ ~MayDelegate(chain, by, g)
    /\ Sign(g, by)
    /\ UNCHANGED <<calls, now, mode, call, log, returned, bundles, shown>>

-----------------------------------------------------------------------------
(* The gateway.                                                            *)

\* open: the grant's window is looked at now, and not again.
Open(m) ==
    /\ Unopened /\ VerifyDelegation(chain) /\ DelegationValidAt(Leaf(chain), now)
    /\ mode' = m
    /\ UNCHANGED <<calls, now, chain, signed, call, log, returned, bundles, shown>>

Tick(t) ==
    /\ mode # "closed" /\ call = None /\ shown = None /\ t > now /\ now' = t
    /\ UNCHANGED <<calls, chain, signed, mode, call, log, returned, bundles, shown>>

\* The key that signed the first grant of the chain, or the last.
LastKey == chain[Len(chain)].by
PrincipalKey == chain[1].by

\* handleCall up to the decision.
Statement(tool, decision) ==
    LET g == Leaf(chain)  inScope == tool \in g.scopes IN
    [id |-> calls + 1, kind |-> "gateway", keyid |-> Issuer, at |-> now,
     principal |-> g.principal, attested |-> PrincipalKey, agent |-> g.agent, grant |-> chain,
     tool |-> tool, args |-> "args", digest |-> "args",
     decision |-> IF inScope THEN decision ELSE "deny", errors |-> ~inScope, enforced |-> mode = "enforce",
     status |-> "none", content |-> None, upstream |-> None, authorization |-> None]

Commits(st) == st.decision = "allow" /\ st.tool \in Precommit
AppendLeaf(l, env) == log' = [log EXCEPT ![l] = Append(@, env)]

\* The authorization is committed, or the log refuses it and the call is withheld, save in observe mode.
Begin(tool, decision) ==
    LET st == Statement(tool, decision)  env == Envelope("authorization", st, Issuer) IN
    /\ mode # "closed" /\ call = None /\ shown = None /\ calls < MaxCalls /\ calls' = calls + 1
    /\ \/ /\ Commits(st)
          /\ AppendLeaf(Home, env)
          /\ call' = [st EXCEPT !.authorization = Bundle(env, Home, Append(log[Home], env))]
       \/ /\ UNCHANGED log
          /\ call' = IF Commits(st) /\ mode = "enforce" THEN [st EXCEPT !.status = "withheld"] ELSE st
    /\ UNCHANGED <<now, chain, signed, mode, returned, bundles, shown>>

\* The answer carries the upstream's signature, a provider's delivery, one of an earlier call, or none.
Evidence(content) ==
    LET by == VouchedBy[call.tool] IN
    {None} \cup {u \in returned : u.by = by}
    \cup {IF by = Upstream THEN UpstreamSignature(call.id, call.tool, content) ELSE Delivery(by, now, content)}

Forward ==
    /\ call # None /\ call.status = "none" /\ (call.decision = "allow" \/ ~call.enforced)
    /\ \/ call' = [call EXCEPT !.status = "error"] /\ UNCHANGED returned
       \/ \E content \in Contents, status \in {"executed", "failed"} : \E u \in Evidence(content) :
            /\ call' = [call EXCEPT !.status = status, !.content = content, !.upstream = u]
            /\ returned' = returned \cup ({u} \ {None})
    /\ UNCHANGED <<calls, now, chain, signed, mode, log, bundles, shown>>

Denied ==
    /\ call # None /\ call.status = "none" /\ call.decision = "deny" /\ call.enforced
    /\ call' = [call EXCEPT !.status = "denied"]
    /\ UNCHANGED <<calls, now, chain, signed, mode, log, returned, bundles, shown>>

\* issue: no bundle is written when the log refuses the leaf.
Issue ==
    LET env == Envelope("receipt", call, Issuer) IN
    /\ call # None /\ call.status # "none"
    /\ AppendLeaf(Home, env)
    /\ bundles' = Append(bundles, Bundle(env, Home, Append(log[Home], env)))
    /\ call' = None
    /\ UNCHANGED <<calls, now, chain, signed, mode, returned, shown>>

IssueRefused ==
    /\ call # None /\ call.status # "none" /\ call' = None
    /\ UNCHANGED <<calls, now, chain, signed, mode, log, returned, bundles, shown>>

-----------------------------------------------------------------------------
(* What a verifier is shown.                                               *)

Own == {bundles[i] : i \in DOMAIN bundles}
\* A verifier that was given the keys alone, or what there is: the log's name, the upstream's key and the secrets, a copy.
KeysAlone == [log |-> None, keys |-> {}, copy |-> None]
Everything(l) == [log |-> l, keys |-> {Upstream, Stripe, GitHub}, copy |-> log[l]]

\* A bundle as it was written, edited, or with a part of another one.
Mixed(b) ==
    {b, [b EXCEPT !.env.by = NoKey]}
    \cup {[b EXCEPT !.head = c.head] : c \in Own}
    \cup {[b EXCEPT !.inclusion = c.inclusion] : c \in Own}
    \cup {[b EXCEPT !.inclusion = c.inclusion, !.head = c.head] : c \in Own}

Show(b, o) ==
    /\ shown = None /\ call = None
    /\ shown' = [bundle |-> b, options |-> o]
    /\ UNCHANGED <<calls, now, chain, signed, mode, call, log, returned, bundles>>

\* The issuer's key signs something else than what the gateway saw, and a log takes it.
NamedAs(st, principal, key) == [st EXCEPT !.principal = principal, !.attested = key]
DecidedAs(st, decision, errors) == [st EXCEPT !.decision = decision, !.errors = errors]
Otherwise(st) ==
    {[st EXCEPT !.status = x] : x \in {"executed", "denied", "error"}}
    \cup {[st EXCEPT !.tool = x] : x \in Tools}
    \cup {[st EXCEPT !.at = x] : x \in Times}
    \cup {[st EXCEPT !.agent = x] : x \in Agents}
    \cup {NamedAs(st, x, y) : x \in Principals, y \in Principals \cup {NoKey}}
    \cup {[st EXCEPT !.grant = x] : x \in {<<>>, SubSeq(st.grant, 1, 1), Tail(st.grant)}}
    \cup {DecidedAs(st, x, y) : x \in {"none", "allow", "deny"}, y \in BOOLEAN}
    \cup {[st EXCEPT !.authorization = x.env.st.authorization] : x \in Own}
    \cup {[st EXCEPT !.upstream = x] : x \in returned}
    \cup {[st EXCEPT !.content = x] : x \in Contents}
    \cup {[st EXCEPT !.id = 0], [st EXCEPT !.keyid = NoKey], [st EXCEPT !.args = "others"], [st EXCEPT !.kind = "sdk"]}

StateOtherwise(st, l) ==
    LET env == Envelope("receipt", st, Issuer)  leaves == Append(log[l], env) IN
    /\ shown = None /\ call = None
    /\ AppendLeaf(l, env) /\ shown' = [bundle |-> Bundle(env, l, leaves), options |-> [Everything(l) EXCEPT !.copy = leaves]]
    /\ UNCHANGED <<calls, now, chain, signed, mode, call, returned, bundles>>

-----------------------------------------------------------------------------
Next ==
    \/ \E g \in Asked :
        \/ \E by \in Principals \cup {NoKey} : Grant(g, by)
        \/ \E by \in Keys \cup {NoKey} : Delegate(g, by) \/ DelegateOtherwise(g, by)
    \/ \E m \in {"enforce", "observe"} : Open(m)
    \/ \E t \in Times : Tick(t)
    \/ \E tool \in Tools, d \in {"allow", "deny"} : Begin(tool, d)
    \/ Forward \/ Denied \/ Issue \/ IssueRefused
    \/ /\ bundles # <<>>
       /\ \/ \E b \in UNION {Mixed(c) : c \in Own}, o \in {KeysAlone, Everything(Home)} : Show(b, o)
          \/ \E b \in Own, l \in Logs \ {Home} : Show(b, Everything(l))
          \/ \E st \in Otherwise(Last(bundles).env.st) : StateOtherwise(st, Home)
          \/ \E l \in Logs \ {Home} : StateOtherwise(Last(bundles).env.st, l)

Spec == Init /\ [][Next]_vars

-----------------------------------------------------------------------------
(* Properties.                                                             *)

\* Types; a receipt says how its call ended.
TypeOK ==
    /\ now \in Times /\ mode \in {"closed", "enforce", "observe"}
    /\ chain \in Seq(Links) /\ Len(chain) <= MaxGrants
    /\ \A s \in signed : s.grant \in Grants /\ s.by \in Principals
    /\ \A b \in Own : b.env.st.status \in {"executed", "failed", "error", "denied", "withheld"}

\* A grant that verifies hands on no more than what each of those above it had, and starts with
\* one that a trusted principal signed, however it was made (verifyDelegation).
ChainNarrows ==
    VerifyDelegation(chain) =>
        /\ chain[1].by \in Trusted
        /\ \A i, j \in DOMAIN chain : i < j =>
            LET up == chain[i].grant  g == chain[j].grant IN
            /\ g.scopes \subseteq up.scopes /\ g.from >= up.from /\ g.to <= up.to
            /\ g.principal = up.principal

\* The browser accepts the chains the package accepts, of those whose grants name a scope
\* (verify-web.ts:75, verifyDelegationChain "mirrors verifyDelegation in the package").
VerifiersAgree ==
    (\A i \in DOMAIN chain : SchemaOk(chain[i].grant)) =>
        /\ WebVerifyDelegation(chain) <=> VerifyDelegation(chain)
        /\ shown # None => (WebFailures(shown.bundle, shown.options) = {}
                             <=> Verified(shown.bundle, shown.options))

\* A chain that either verifier accepts narrows, and both accept the same.
GrantsNarrow == TypeOK /\ ChainNarrows /\ VerifiersAgree

\* Every receipt of the gateway verifies, against its log and a copy of it as it is now, provided the
\* grant's window still held and, in observe mode, the tool was granted.
ReceiptVerifies(b) == Verified(b, [log |-> Home, keys |-> {}, copy |-> log[Home]])
IssuedVerifies ==
    shown = None => \A b \in Own : LET st == b.env.st  g == Leaf(st.grant) IN
        DelegationValidAt(g, st.at) /\ (Ran(st) => st.tool \in g.scopes) => ReceiptVerifies(b)

Accepted == shown # None /\ Verified(shown.bundle, shown.options)
Told == shown.bundle.env.st

\* A gateway receipt that is accepted is of an agent that a trusted principal let do what it did,
\* then: by a grant the principal signed, whatever the issuer states.
AcceptedWasGranted ==
    Accepted /\ Told.kind = "gateway" => \E s \in signed :
        /\ s.by \in Trusted /\ s.by = Told.attested /\ s.grant.principal = Told.principal
        /\ DelegationValidAt(s.grant, Told.at)
        /\ Ran(Told) => Told.tool \in s.grant.scopes
        /\ s.grant.agent = Told.agent \/ s.grant.agentKey # NoKey

\* An accepted receipt is in the log its head names, at its place.
AcceptedIsInTheLog ==
    Accepted => LET b == shown.bundle IN
        /\ b.head.log \in Logs /\ b.inclusion.index \in DOMAIN log[b.head.log]
        /\ log[b.head.log][b.inclusion.index] = b.env

\* If it carries an authorization, that one was of this very call, allowed, and is in the log first.
AuthorizedFirst ==
    (shown # None /\ Told.authorization # None
     /\ Told.authorization.head.log = shown.bundle.head.log /\ Accepted) =>
        \E i \in 1..shown.bundle.inclusion.index - 1 :
            LET env == log[shown.bundle.head.log][i] IN
            /\ env.type = "authorization" /\ env.by = Issuer /\ env.st.decision = "allow"
            /\ env.st.id = Told.id /\ env.st.tool = Told.tool /\ env.st.agent = Told.agent

\* An upstream's signature that is accepted is one it made for this receipt and this result, not
\* one it had made for an earlier call; a provider's delivery names the object of the result, and
\* Stripe's is of that moment (that it is of no other receipt, neither can say).
AttestedIsThisCall ==
    shown # None /\ Ran(Told) /\ Told.upstream # None /\ Told.upstream.by \in shown.options.keys /\ Accepted =>
        CASE Told.upstream.by = Upstream -> UpstreamSignature(Told.id, Told.tool, Told.content) \in returned
          [] Told.upstream.by = Stripe   -> Delivery(Stripe, Told.at, Told.content) \in returned
          [] Told.upstream.by = GitHub   -> \E t \in Times : Delivery(GitHub, t, Told.content) \in returned

\* An accepted bundle is of one call: its receipt, its place in the log, its authorization and its
\* upstream's signature were all made for it.
AcceptedIsOneCall == AcceptedIsInTheLog /\ AuthorizedFirst /\ AttestedIsThisCall
=============================================================================
