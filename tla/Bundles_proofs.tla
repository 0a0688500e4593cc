----------------------------- MODULE Bundles_proofs -----------------------------
(***************************************************************************)
(* Proofs about grants and bundles (Delegation, Bundles), for any keys,    *)
(* tools, moments and logs, and any number of calls.                       *)
(*                                                                         *)
(* A chain is at most four links, so that what one link hands to the next  *)
(* carries from the first to the last.  Of what circulates, the invariant  *)
(* says where each part comes from: a head is of leaves a log still has,   *)
(* an upstream's signature was made, a statement's grant is the session's  *)
(* or a piece of it.  What a verifier then checks binds the parts to one   *)
(* call, whoever put them together.                                        *)
(***************************************************************************)
EXTENDS Bundles, SequenceTheorems, TLAPS

IsSeq(s) == s \in Seq(Range(s))
StartOf(r, s) == IsSeq(r) /\ Len(r) <= Len(s) /\ \A i \in 1..Len(r) : r[i] = s[i]

(* A head is of leaves that its log still begins with.                     *)
HeadInv(h) ==
    h.log \in Logs /\ h.by = h.log /\ h.size = Len(h.root) /\ StartOf(h.root, log[h.log])

(* The authorization of a call whose receipt is the n-th leaf, or later.   *)
AuthInv(a, st, n) == a # None =>
    /\ a.env.by = Issuer /\ a.env.type = "authorization" /\ SameCall(a.env.st, st)
    /\ HeadInv(a.head) /\ VerifyInclusion(a.env, a.inclusion, a.head.root)
    /\ a.inclusion.index \in Nat /\ a.inclusion.index < n
    /\ a.inclusion.size \in Nat /\ a.inclusion.size < n

(* What the gateway states.                                                *)
Fields == {"id", "kind", "keyid", "at", "principal", "attested", "agent", "grant", "tool", "args", "digest",
           "decision", "errors", "enforced", "status", "content", "upstream", "authorization"}
Ends == {"executed", "failed", "error", "denied", "withheld"}
StInv(st, n) ==
    /\ DOMAIN st = Fields
    /\ st.kind = "gateway" /\ st.keyid = Issuer /\ st.at \in Times /\ st.grant = chain
    /\ st.principal = Leaf(chain).principal /\ st.agent = Leaf(chain).agent /\ st.attested = chain[1].by
    /\ st.tool \in Tools /\ st.args = st.digest
    /\ st.decision \in {"allow", "deny"} /\ st.errors \in BOOLEAN /\ st.enforced \in BOOLEAN
    /\ st.decision = "allow" => ~st.errors
    /\ st.status \in Ends \cup {"none"}
    /\ st.status \in {"executed", "failed", "error"} => st.decision = "allow" \/ ~st.enforced
    /\ st.status = "denied" => st.decision = "deny" /\ st.enforced
    /\ st.status = "withheld" => st.decision = "allow"
    /\ st.upstream = None \/ st.upstream \in returned
    /\ AuthInv(st.authorization, st, n)

(* What the gateway wrote.                                                 *)
OwnInv(b) ==
    /\ DOMAIN b = {"env", "head", "inclusion"} /\ DOMAIN b.env = {"type", "st", "by"}
    /\ b.env.by = Issuer /\ b.env.type = "receipt" /\ b.env.st.status \in Ends
    /\ HeadInv(b.head) /\ b.head.log = Home /\ b.inclusion.size = b.head.size
    /\ VerifyInclusion(b.env, b.inclusion, b.head.root)
    /\ StInv(b.env.st, b.inclusion.index)

(* What circulates.                                                        *)
ToldInv(st) ==
    /\ st.at \in Times
    /\ st.grant \in {chain, <<>>, SubSeq(chain, 1, 1), Tail(chain)}
    /\ st.upstream = None \/ st.upstream \in returned
    /\ st.authorization # None => HeadInv(st.authorization.head)
ShownInv == shown # None =>
    /\ HeadInv(shown.bundle.head) /\ ToldInv(shown.bundle.env.st)
    /\ shown.options.keys \subseteq {Upstream, Stripe, GitHub}

Made(u) ==
    \/ u.by = Upstream /\ u = UpstreamSignature(u.id, u.tool, u.content)
    \/ u.by \in {Stripe, GitHub} /\ u.at \in Times /\ u = Delivery(u.by, u.at, u.content)

ChainInv ==
    /\ chain \in Seq(Links) /\ Len(chain) <= MaxGrants
    /\ \A s \in signed : s.grant \in Grants /\ s.by \in Principals
    /\ \A i \in DOMAIN chain : chain[i].by \in Principals => chain[i] \in signed

SessionInv ==
    /\ now \in Times /\ mode \in {"closed", "enforce", "observe"} /\ calls \in Nat
    /\ mode = "closed" => call = None /\ bundles = <<>> /\ shown = None
    /\ mode # "closed" => VerifyDelegation(chain)

LogInv == DOMAIN log = Logs /\ \A l \in Logs : IsSeq(log[l])

BundlesInv ==
    /\ ChainInv /\ SessionInv /\ LogInv
    /\ \A u \in returned : Made(u)
    /\ call # None => StInv(call, Len(log[Home]) + 1)
    /\ IsSeq(bundles) /\ \A i \in DOMAIN bundles : OwnInv(bundles[i])
    /\ ShownInv

------------------------------------------------------------------------------
(* Chains.                                                                 *)

(* A chain that is accepted, of some links: by the definition, and by the  *)
(* browser's walk.                                                         *)
LEMMA LinkTypes ==
  ASSUME NEW k \in Links
  PROVE  /\ k.by \in Keys \cup {NoKey} /\ k.grant \in Grants
         /\ k.grant.principal \in Principals /\ k.grant.agent \in Agents /\ k.grant.scopes \subseteq Tools
         /\ k.grant.from \in Int /\ k.grant.to \in Int /\ k = [grant |-> k.grant, by |-> k.by]
  BY DelegationAssumption DEF Links, Grants

LEMMA WebLinkSame ==
  ASSUME NEW up \in Links, NEW link \in Links
  PROVE  LinkOk(up, link) <=> WebLinkOk(up, link)
  BY LinkTypes DEF LinkOk, WebLinkOk

(* The browser's walk accepts what the package's does, of chains whose     *)
(* grants all name a scope.                                                *)
LEMMA WalksAgree ==
  ASSUME NEW c \in Seq(Links), \A i \in DOMAIN c : SchemaOk(c[i].grant)
  PROVE  WebVerifyDelegation(c) <=> VerifyDelegation(c)
  <1>1. DOMAIN c = 1..Len(c) /\ Len(c) \in Nat /\ MaxDepth \in Nat /\ (c # <<>> <=> Len(c) # 0)
    BY DelegationAssumption, EmptySeq, LenProperties
  <1>2. (c # <<>> /\ ~(Len(c) > MaxDepth)) <=> Len(c) \in 1..MaxDepth
    BY <1>1
  <1>3. \A i \in 2..Len(c) : LinkOk(c[i - 1], c[i]) <=> WebLinkOk(c[i - 1], c[i])
    <2> SUFFICES ASSUME NEW i \in 2..Len(c) PROVE LinkOk(c[i - 1], c[i]) <=> WebLinkOk(c[i - 1], c[i])
      OBVIOUS
    <2>1. i \in 1..Len(c) /\ i - 1 \in 1..Len(c)
      BY <1>1
    <2>2. c[i] \in Links /\ c[i - 1] \in Links
      BY <2>1, ElementOfSeq
    <2> QED
      BY <2>2, WebLinkSame
  <1> QED
    BY <1>2, <1>3 DEF WebVerifyDelegation, VerifyDelegation

(* What one link may hand to another.                                      *)
Within(a, b) ==
    /\ b.grant.scopes \subseteq a.grant.scopes
    /\ b.grant.from >= a.grant.from /\ b.grant.to <= a.grant.to
    /\ b.grant.principal = a.grant.principal

LEMMA WithinWithin ==
  ASSUME NEW a \in Links, NEW b \in Links, NEW c \in Links, Within(a, b), Within(b, c)
  PROVE  Within(a, c)
  BY LinkTypes DEF Within

(* No link of an accepted chain hands on more than any link above it had.  *)
LEMMA AcceptedNarrows ==
  ASSUME NEW c \in Seq(Links), VerifyDelegation(c), NEW i \in DOMAIN c, NEW j \in DOMAIN c, i <= j
  PROVE  Within(c[i], c[j])
  <1>1. DOMAIN c = 1..Len(c) /\ Len(c) \in 1..4
    <2>1. DOMAIN c = 1..Len(c) /\ Len(c) \in Nat
      BY LenProperties
    <2>2. Len(c) \in 1..MaxDepth /\ MaxDepth \in 1..4
      BY DelegationAssumption DEF VerifyDelegation
    <2> QED
      BY <2>1, <2>2
  <1>2. \A k \in 1..Len(c) : c[k] \in Links
    BY ElementOfSeq
  <1>3. \A k \in 1..Len(c) : Within(c[k], c[k])
    BY <1>2, LinkTypes DEF Within
  <1>4. ASSUME NEW k \in 1..3, k + 1 \in 1..Len(c) PROVE Within(c[k], c[k + 1])
    <2>1. k + 1 \in 2..Len(c) /\ (k + 1) - 1 = k
      BY <1>1, <1>4
    <2>2. LinkOk(c[(k + 1) - 1], c[k + 1])
      BY <2>1 DEF VerifyDelegation
    <2> QED
      BY <2>1, <2>2 DEF LinkOk, Within
  <1>5. ASSUME NEW k \in 1..2, k + 2 \in 1..Len(c) PROVE Within(c[k], c[k + 2])
    <2>1. k + 1 \in 1..3 /\ k + 1 \in 1..Len(c) /\ k \in 1..Len(c) /\ k \in 1..3 /\ (k + 1) + 1 = k + 2
      BY <1>1, <1>5
    <2>2. Within(c[k], c[k + 1]) /\ Within(c[k + 1], c[k + 2])
      BY <1>4, <1>5, <2>1
    <2> QED
      BY <1>2, <1>5, <2>1, <2>2, WithinWithin
  <1>6. ASSUME 4 \in 1..Len(c) PROVE Within(c[1], c[4])
    <2>1. 1 \in 1..Len(c) /\ 3 \in 1..Len(c) /\ 1 + 2 = 3 /\ 3 + 1 = 4 /\ 1 \in 1..2 /\ 3 \in 1..3
      BY <1>1, <1>6
    <2>2. Within(c[1], c[3]) /\ Within(c[3], c[4])
      BY <1>4, <1>5, <1>6, <2>1
    <2> QED
      BY <1>2, <1>6, <2>1, <2>2, WithinWithin
  <1>7. i \in 1..4 /\ j \in 1..4 /\ i \in 1..Len(c) /\ j \in 1..Len(c)
    BY <1>1
  <1>8. CASE j = i
    BY <1>3, <1>7, <1>8
  <1>9. CASE j = i + 1
    BY <1>4, <1>7, <1>9
  <1>10. CASE j = i + 2
    BY <1>5, <1>7, <1>10
  <1>11. CASE i = 1 /\ j = 4
    BY <1>6, <1>7, <1>11
  <1> QED
    BY <1>7, <1>8, <1>9, <1>10, <1>11

(* The first grant of an accepted chain is a trusted principal's, and lets *)
(* the last one's agent do what the last one says.                         *)
LEMMA AcceptedStarts ==
  ASSUME NEW c \in Seq(Links), VerifyDelegation(c)
  PROVE  /\ c # <<>> /\ 1 \in DOMAIN c /\ c[1] \in Links /\ c[1].by \in Trusted
         /\ Leaf(c) \in Grants
         /\ Leaf(c).scopes \subseteq c[1].grant.scopes /\ Leaf(c).principal = c[1].grant.principal
         /\ \A t \in Times : DelegationValidAt(Leaf(c), t) => DelegationValidAt(c[1].grant, t)
         /\ c[1].grant.agent = Leaf(c).agent \/ c[1].grant.agentKey # NoKey
  <1>1. DOMAIN c = 1..Len(c) /\ Len(c) \in Nat /\ Len(c) >= 1 /\ c # <<>>
    BY DelegationAssumption, LenProperties, EmptySeq DEF VerifyDelegation
  <1>2. 1 \in DOMAIN c /\ Len(c) \in DOMAIN c
    BY <1>1
  <1>3. c[1] \in Links /\ c[Len(c)] \in Links
    BY <1>1, <1>2, ElementOfSeq
  <1>4. Within(c[1], c[Len(c)])
    BY <1>1, <1>2, AcceptedNarrows
  <1>5. c[1].by \in Trusted
    BY DEF VerifyDelegation
  <1>6. \A t \in Times : DelegationValidAt(Leaf(c), t) => DelegationValidAt(c[1].grant, t)
    <2> SUFFICES ASSUME NEW t \in Times, DelegationValidAt(Leaf(c), t) PROVE DelegationValidAt(c[1].grant, t)
      OBVIOUS
    <2>1. t \in Int
      BY DelegationAssumption
    <2> QED
      BY <1>3, <1>4, <2>1, LinkTypes DEF DelegationValidAt, Leaf, Within
  <1>7. c[1].grant.agent = Leaf(c).agent \/ c[1].grant.agentKey # NoKey
    <2>1. CASE Len(c) = 1
      BY <2>1 DEF Leaf
    <2>2. CASE Len(c) # 1
      <3>1. 2 \in 2..Len(c) /\ 2 - 1 = 1
        BY <1>1, <2>2
      <3>2. LinkOk(c[2 - 1], c[2])
        BY <3>1 DEF VerifyDelegation
      <3> QED
        BY <3>1, <3>2 DEF LinkOk
    <2> QED
      BY <2>1, <2>2
  <1> QED
    BY <1>1, <1>2, <1>3, <1>4, <1>5, <1>6, <1>7, LinkTypes DEF Within, Leaf

(* A link more.                                                            *)
LEMMA Signs ==
  ASSUME ChainInv, NEW g \in Grants, NEW by \in Keys \cup {NoKey}, Sign(g, by),
         Len(chain) < MaxGrants
  PROVE  ChainInv'
  <1>1. PICK k : k = [grant |-> g, by |-> by]
    OBVIOUS
  <1>2. k \in Links /\ k.grant = g /\ k.by = by
    BY <1>1 DEF Links
  <1>3. chain' = Append(chain, k) /\ signed' = IF by \in Principals THEN signed \cup {k} ELSE signed
    BY <1>1 DEF Sign, CreateDelegation
  <1>4. /\ chain' \in Seq(Links) /\ Len(chain') = Len(chain) + 1 /\ Len(chain) \in Nat
        /\ \A i \in 1..Len(chain) : chain'[i] = chain[i]
        /\ chain'[Len(chain) + 1] = k
        /\ DOMAIN chain = 1..Len(chain) /\ DOMAIN chain' = 1..Len(chain')
    BY <1>2, <1>3, AppendProperties, LenProperties DEF ChainInv
  <1>5. \A s \in signed' : s.grant \in Grants /\ s.by \in Principals
    BY <1>2, <1>3 DEF ChainInv
  <1>6. ASSUME NEW i \in DOMAIN chain', chain'[i].by \in Principals PROVE chain'[i] \in signed'
    <2>1. CASE i \in 1..Len(chain)
      BY <1>3, <1>4, <1>6, <2>1 DEF ChainInv
    <2>2. CASE i = Len(chain) + 1
      BY <1>2, <1>3, <1>4, <1>6, <2>2
    <2> QED
      BY <1>4, <1>6, <2>1, <2>2
  <1> QED
    BY <1>4, <1>5, <1>6, BundlesAssumption DEF ChainInv

------------------------------------------------------------------------------
(* Sequences of leaves.                                                    *)

LEMMA SeqIs ==
  ASSUME NEW s, IsSeq(s)
  PROVE  Len(s) \in Nat /\ DOMAIN s = 1..Len(s)
  BY LenProperties DEF IsSeq

LEMMA AppendIs ==
  ASSUME NEW s, IsSeq(s), NEW e
  PROVE  /\ IsSeq(Append(s, e)) /\ Len(Append(s, e)) = Len(s) + 1
         /\ Append(s, e)[Len(s) + 1] = e
         /\ \A i \in 1..Len(s) : Append(s, e)[i] = s[i]
         /\ StartOf(s, Append(s, e))
  <1> DEFINE S == Range(s) \cup {e}
  <1>1. s \in Seq(S) /\ e \in S
    BY SeqMonotonic DEF IsSeq
  <1> HIDE DEF S
  <1>2. PICK t : t = Append(s, e)
    OBVIOUS
  <1>3. /\ t \in Seq(S) /\ Len(t) = Len(s) + 1 /\ t[Len(s) + 1] = e
        /\ \A i \in 1..Len(s) : t[i] = s[i]
    BY <1>1, <1>2, AppendProperties
  <1>4. IsSeq(t)
    BY <1>3, SeqOfRange DEF IsSeq
  <1>5. Len(s) \in Nat
    BY SeqIs
  <1>6. StartOf(s, t)
    BY <1>3, <1>5 DEF StartOf
  <1> QED
    BY <1>2, <1>3, <1>4, <1>6

LEMMA StartOfItself ==
  ASSUME NEW s, IsSeq(s)
  PROVE  StartOf(s, s)
  BY SeqIs DEF StartOf

LEMMA StartOfStart ==
  ASSUME NEW r, NEW s, NEW t, StartOf(r, s), StartOf(s, t)
  PROVE  StartOf(r, t)
  <1>1. Len(r) \in Nat /\ Len(s) \in Nat /\ Len(r) <= Len(s) /\ Len(s) <= Len(t)
    BY SeqIs DEF StartOf
  <1>2. IsSeq(t) \/ Len(r) <= Len(t)
    <2>1. CASE Len(t) \in Int
      BY <1>1, <2>1
    <2> QED
      BY <1>1, <2>1
  <1> QED
    BY <1>1, <1>2 DEF StartOf

(* What a log begins with, as a sequence.                                  *)
LEMMA StartIsSubSeq ==
  ASSUME NEW r, NEW s, IsSeq(s), StartOf(r, s)
  PROVE  SubSeq(s, 1, Len(r)) = r
  <1> DEFINE S == Range(s) \cup Range(r)
  <1>1. s \in Seq(S) /\ r \in Seq(S)
    BY SeqMonotonic DEF IsSeq, StartOf
  <1> HIDE DEF S
  <1>2. Len(r) \in Nat /\ Len(s) \in Nat /\ Len(r) <= Len(s)
    BY SeqIs DEF StartOf
  <1>3. PICK q : q = SubSeq(s, 1, Len(r))
    OBVIOUS
  <1>4. \A i \in 1..Len(r) : s[i] \in S
    BY <1>1, <1>2, ElementOfSeq
  <1>5. q \in Seq(S) /\ Len(q) = Len(r) /\ \A i \in 1..Len(r) : q[i] = s[i]
    BY <1>2, <1>3, <1>4, SubSeqProperties
  <1>6. \A i \in 1..Len(q) : q[i] = r[i]
    BY <1>5 DEF StartOf
  <1>7. q = r
    BY <1>1, <1>5, <1>6, SeqEqual
  <1> QED
    BY <1>3, <1>7

------------------------------------------------------------------------------
(* A log that only grows, and what stays true as it does.                  *)

Grows ==
    /\ DOMAIN log' = Logs /\ \A l \in Logs : IsSeq(log'[l]) /\ StartOf(log[l], log'[l])
    /\ chain' = chain /\ returned \subseteq returned'

LEMMA HeadKept ==
  ASSUME Grows, NEW h, HeadInv(h)
  PROVE  HeadInv(h)'
  BY StartOfStart DEF Grows, HeadInv

LEMMA StatementKept ==
  ASSUME Grows, NEW st, NEW n, StInv(st, n)
  PROVE  StInv(st, n)'
  <1>1. PICK a : a = st.authorization
    OBVIOUS
  <1>2. AuthInv(a, st, n)'
    <2>1. CASE a = None
      BY <2>1 DEF AuthInv
    <2>2. CASE a # None
      <3>1. PICK h : h = a.head
        OBVIOUS
      <3>2. HeadInv(h)'
        BY <1>1, <2>2, <3>1, HeadKept DEF StInv, AuthInv
      <3>3. HeadInv(a.head)'
        BY <3>1, <3>2
      <3> QED
        BY <1>1, <3>3 DEF StInv, AuthInv
    <2> QED
      BY <2>1, <2>2
  <1>3. st.upstream = None \/ st.upstream \in returned'
    BY DEF StInv, Grows
  <1> QED
    BY <1>1, <1>2, <1>3 DEF StInv, Grows

LEMMA OwnKept ==
  ASSUME Grows, NEW b, OwnInv(b)
  PROVE  OwnInv(b)'
  <1>1. PICK h, st, n : h = b.head /\ st = b.env.st /\ n = b.inclusion.index
    OBVIOUS
  <1>2. HeadInv(h)' /\ StInv(st, n)'
    BY <1>1, HeadKept, StatementKept DEF OwnInv
  <1> QED
    BY <1>1, <1>2 DEF OwnInv

LEMMA ShownKept ==
  ASSUME Grows, ShownInv, shown' = shown
  PROVE  ShownInv'
  <1>1. CASE shown = None
    BY <1>1 DEF ShownInv
  <1>2. CASE shown # None
    <2>1. PICK h, st, a : h = shown.bundle.head /\ st = shown.bundle.env.st /\ a = st.authorization
      OBVIOUS
    <2>2. HeadInv(h)'
      BY <1>2, <2>1, HeadKept DEF ShownInv
    <2>3. a # None => HeadInv(a.head)'
      <3> SUFFICES ASSUME a # None PROVE HeadInv(a.head)'
        OBVIOUS
      <3>1. PICK g : g = a.head
        OBVIOUS
      <3>2. HeadInv(g)'
        BY <1>2, <2>1, <3>1, HeadKept DEF ShownInv, ToldInv
      <3> QED
        BY <3>1, <3>2
    <2>4. ToldInv(st)'
      BY <1>2, <2>1, <2>3 DEF ShownInv, ToldInv, Grows
    <2>5. HeadInv(shown.bundle.head)' /\ ToldInv(shown.bundle.env.st)'
      BY <2>1, <2>2, <2>4
    <2> QED
      BY <1>2, <2>5 DEF ShownInv
  <1> QED
    BY <1>1, <1>2

(* Nothing is appended.                                                    *)
LEMMA Stands ==
  ASSUME LogInv, log' = log, chain' = chain, returned \subseteq returned'
  PROVE  Grows
  BY StartOfItself DEF LogInv, Grows

(* A leaf is appended to the log l.                                        *)
LEMMA LeafGrows ==
  ASSUME LogInv, NEW l \in Logs, NEW env, AppendLeaf(l, env), chain' = chain, returned \subseteq returned'
  PROVE  /\ Grows
         /\ log'[l] = Append(log[l], env) /\ Len(log[l]) \in Nat /\ Len(log'[l]) = Len(log[l]) + 1
         /\ log'[l][Len(log[l]) + 1] = env
  <1>1. /\ DOMAIN log' = Logs /\ log'[l] = Append(log[l], env)
        /\ \A k \in Logs \ {l} : log'[k] = log[k]
    BY DEF AppendLeaf, LogInv
  <1>2. IsSeq(log[l]) /\ Len(log[l]) \in Nat
    BY SeqIs DEF LogInv
  <1>3. /\ IsSeq(log'[l]) /\ StartOf(log[l], log'[l]) /\ Len(log'[l]) = Len(log[l]) + 1
        /\ log'[l][Len(log[l]) + 1] = env
    BY <1>1, <1>2, AppendIs
  <1>4. \A k \in Logs : IsSeq(log'[k]) /\ StartOf(log[k], log'[k])
    BY <1>1, <1>3, StartOfItself DEF LogInv
  <1> QED
    BY <1>1, <1>2, <1>3, <1>4 DEF Grows

(* The bundle of the leaf that was just appended.                          *)
LEMMA BundleIs ==
  ASSUME LogInv, NEW l \in Logs, NEW env, AppendLeaf(l, env), chain' = chain, returned \subseteq returned',
         NEW b, b = Bundle(env, l, Append(log[l], env))
  PROVE  /\ DOMAIN b = {"env", "head", "inclusion"} /\ b.env = env
         /\ HeadInv(b.head)' /\ b.head.log = l /\ b.inclusion.size = b.head.size
         /\ b.inclusion.size = Len(log[l]) + 1 /\ b.inclusion.index = Len(log[l]) + 1
         /\ VerifyInclusion(b.env, b.inclusion, b.head.root)
  <1>1. PICK leaves, h : leaves = Append(log[l], env) /\ h = TreeHead(l, leaves)
    OBVIOUS
  <1>2. /\ Grows /\ log'[l] = leaves /\ Len(log[l]) \in Nat /\ Len(leaves) = Len(log[l]) + 1
        /\ leaves[Len(log[l]) + 1] = env
    BY <1>1, LeafGrows
  <1>3. IsSeq(leaves) /\ StartOf(leaves, log'[l]) /\ DOMAIN leaves = 1..Len(leaves)
    BY <1>2, StartOfItself, SeqIs DEF Grows
  <1>4. h.log = l /\ h.by = l /\ h.size = Len(leaves) /\ h.root = leaves
    BY <1>1 DEF TreeHead
  <1>5. HeadInv(h)'
    BY <1>3, <1>4 DEF HeadInv
  <1>6. /\ DOMAIN b = {"env", "head", "inclusion"} /\ b.env = env /\ b.head = h
        /\ b.inclusion.size = Len(leaves) /\ b.inclusion.index = Len(leaves)
    BY <1>1 DEF Bundle
  <1>7. VerifyInclusion(b.env, b.inclusion, b.head.root)
    BY <1>2, <1>3, <1>4, <1>6 DEF VerifyInclusion
  <1>8. HeadInv(b.head)'
    BY <1>5, <1>6
  <1> QED
    BY <1>2, <1>4, <1>6, <1>7, <1>8

(* What the bundles written, the one shown and the logs keep.              *)
LEMMA WrittenKept ==
  ASSUME BundlesInv, Grows, NEW i \in DOMAIN bundles, NEW b, b = bundles[i]
  PROVE  OwnInv(b)'
  BY OwnKept DEF BundlesInv

LEMMA RestKept ==
  ASSUME BundlesInv, Grows, signed' = signed, bundles' = bundles, shown' = shown
  PROVE  /\ ChainInv' /\ LogInv' /\ ShownInv'
         /\ IsSeq(bundles') /\ (\A i \in DOMAIN bundles : OwnInv(bundles[i]))'
  <1>1. ChainInv' /\ LogInv'
    BY DEF BundlesInv, ChainInv, LogInv, Grows
  <1>2. ShownInv'
    BY ShownKept DEF BundlesInv
  <1>3. IsSeq(bundles')
    BY DEF BundlesInv
  <1>4. ASSUME NEW i \in DOMAIN bundles' PROVE OwnInv(bundles[i])'
    <2>1. PICK b : b = bundles[i]
      OBVIOUS
    <2>2. OwnInv(b)'
      BY <2>1, WrittenKept
    <2>3. bundles'[i] = b
      BY <2>1
    <2> QED
      BY <2>2, <2>3
  <1>5. (\A i \in DOMAIN bundles : OwnInv(bundles[i]))'
    BY <1>4
  <1> QED
    BY <1>1, <1>2, <1>3, <1>5

(* A call that stays as it was, and the log with it.                       *)
LEMMA CallKept ==
  ASSUME BundlesInv, Grows, call' = call, log' = log
  PROVE  (call # None => StInv(call, Len(log[Home]) + 1))'
  <1>1. PICK st, n : st = call /\ n = Len(log[Home]) + 1
    OBVIOUS
  <1>2. st # None => StInv(st, n)'
    BY <1>1, StatementKept DEF BundlesInv
  <1>3. st = call' /\ n = Len(log'[Home]) + 1
    BY <1>1
  <1>4. call' # None => StInv(call, Len(log[Home]) + 1)'
    BY <1>2, <1>3
  <1> QED
    BY <1>4

------------------------------------------------------------------------------
(* The steps.                                                              *)

LEMMA InitHolds ==
  ASSUME Init
  PROVE  BundlesInv
  <1>1. IsSeq(<<>>) /\ DOMAIN <<>> = {}
    BY EmptySeq DEF IsSeq
  <1>2. chain \in Seq(Links) /\ Len(chain) <= MaxGrants /\ DOMAIN chain = {}
    BY EmptySeq, BundlesAssumption DEF Init
  <1>3. ChainInv
    BY <1>2 DEF Init, ChainInv
  <1>4. SessionInv /\ ShownInv
    BY DEF Init, SessionInv, ShownInv
  <1>5. LogInv
    BY <1>1 DEF Init, LogInv
  <1> QED
    BY <1>1, <1>3, <1>4, <1>5 DEF Init, BundlesInv

LEMMA UnopenedKeeps ==
  ASSUME BundlesInv, Unopened, ChainInv', UNCHANGED <<calls, now, mode, call, log, returned, bundles, shown>>
  PROVE  BundlesInv'
  <1>1. SessionInv' /\ LogInv' /\ ShownInv'
    BY DEF Unopened, BundlesInv, SessionInv, LogInv, ShownInv
  <1>2. bundles' = <<>> /\ call' = None /\ IsSeq(bundles') /\ DOMAIN bundles' = {}
    BY EmptySeq DEF Unopened, IsSeq
  <1>3. \A u \in returned' : Made(u)
    BY DEF BundlesInv
  <1>4. (\A i \in DOMAIN bundles : OwnInv(bundles[i]))'
    BY <1>2
  <1>5. (\A u \in returned : Made(u))'
    BY <1>3 DEF Made
  <1> QED
    BY <1>1, <1>2, <1>4, <1>5 DEF BundlesInv

LEMMA GrantsKeep ==
  ASSUME BundlesInv, NEW g \in Asked, NEW by \in Keys \cup {NoKey},
         (\/ Grant(g, by) \/ Delegate(g, by) \/ DelegateOtherwise(g, by))
  PROVE  BundlesInv'
  <1>1. Unopened /\ Sign(g, by) /\ UNCHANGED <<calls, now, mode, call, log, returned, bundles, shown>>
    BY DEF Grant, Delegate, DelegateOtherwise
  <1>2. Len(chain) < MaxGrants
    <2>1. CASE chain = <<>>
      BY <2>1, BundlesAssumption, EmptySeq
    <2>2. CASE chain # <<>>
      BY <2>2 DEF Grant, Delegate, DelegateOtherwise
    <2> QED
      BY <2>1, <2>2
  <1>3. ChainInv'
    BY <1>1, <1>2, Signs, BundlesAssumption DEF BundlesInv
  <1> QED
    BY <1>1, <1>3, UnopenedKeeps

LEMMA OpenKeeps ==
  ASSUME BundlesInv, NEW m \in {"enforce", "observe"}, Open(m)
  PROVE  BundlesInv'
  <1>1. Grows
    BY Stands DEF Open, BundlesInv
  <1>2. SessionInv'
    BY DEF Open, BundlesInv, SessionInv, VerifyDelegation
  <1>3. \A u \in returned' : Made(u)
    BY DEF Open, BundlesInv
  <1> QED
    BY <1>1, <1>2, <1>3, RestKept, CallKept DEF Open, BundlesInv, Made

LEMMA TickKeeps ==
  ASSUME BundlesInv, NEW t \in Times, Tick(t)
  PROVE  BundlesInv'
  <1>1. Grows
    BY Stands DEF Tick, BundlesInv
  <1>2. SessionInv'
    BY DEF Tick, BundlesInv, SessionInv, VerifyDelegation
  <1>3. \A u \in returned' : Made(u)
    BY DEF Tick, BundlesInv
  <1> QED
    BY <1>1, <1>2, <1>3, RestKept, CallKept DEF Tick, BundlesInv, Made

(* What a call states as it begins.                                        *)
LEMMA StatementIs ==
  ASSUME BundlesInv, mode # "closed", NEW tool \in Tools, NEW decision \in {"allow", "deny"},
         NEW st, st = Statement(tool, decision), NEW n
  PROVE  StInv(st, n) /\ st.authorization = None
  <1>1. PICK g : g = Leaf(chain)
    OBVIOUS
  <1>2. chain[1].by = PrincipalKey
    BY DEF PrincipalKey
  <1>3. now \in Times
    BY DEF BundlesInv, SessionInv
  <1>4. st = [id |-> calls + 1, kind |-> "gateway", keyid |-> Issuer, at |-> now,
     principal |-> g.principal, attested |-> PrincipalKey, agent |-> g.agent, grant |-> chain,
     tool |-> tool, args |-> "args", digest |-> "args",
     decision |-> IF tool \in g.scopes THEN decision ELSE "deny", errors |-> tool \notin g.scopes,
     enforced |-> mode = "enforce",
     status |-> "none", content |-> None, upstream |-> None, authorization |-> None]
    BY <1>1 DEF Statement
  <1>5. DOMAIN st = Fields
    BY <1>4 DEF Fields
  <1>6. /\ st.kind = "gateway" /\ st.keyid = Issuer /\ st.at = now /\ st.grant = chain
        /\ st.principal = g.principal /\ st.agent = g.agent /\ st.attested = PrincipalKey
        /\ st.tool = tool /\ st.args = st.digest
        /\ st.status = "none" /\ st.upstream = None /\ st.authorization = None
    BY <1>4
  <1>7. st.decision = IF tool \in g.scopes THEN decision ELSE "deny"
    BY <1>4
  <1>8. st.errors = (tool \notin g.scopes) /\ st.enforced = (mode = "enforce")
    BY <1>4
  <1>9. st.decision \in {"allow", "deny"} /\ st.errors \in BOOLEAN /\ st.enforced \in BOOLEAN
    BY <1>7, <1>8
  <1>10. st.decision = "allow" => ~st.errors
    BY <1>7, <1>8
  <1>11. AuthInv(st.authorization, st, n)
    BY <1>6 DEF AuthInv
  <1> QED
    BY <1>1, <1>2, <1>3, <1>5, <1>6, <1>9, <1>10, <1>11 DEF StInv, Ends

(* A statement's other fields, when some change.                           *)
LEMMA AuthOfAnother ==
  ASSUME NEW a, NEW st, NEW n, AuthInv(a, st, n), NEW k,
         k.id = st.id, k.tool = st.tool, k.digest = st.digest, k.agent = st.agent, k.principal = st.principal
  PROVE  AuthInv(a, k, n)
  BY DEF AuthInv, SameCall

LEMMA BeginKeeps ==
  ASSUME BundlesInv, NEW tool \in Tools, NEW d \in {"allow", "deny"}, Begin(tool, d)
  PROVE  BundlesInv'
  <1>1. PICK st, env : st = Statement(tool, d) /\ env = Envelope("authorization", st, Issuer)
    OBVIOUS
  <1>2. /\ mode # "closed" /\ calls' = calls + 1
        /\ UNCHANGED <<now, chain, signed, mode, returned, bundles, shown>>
    BY DEF Begin
  <1>3. StInv(st, 0) /\ st.authorization = None /\ DOMAIN st = Fields
    BY <1>1, <1>2, StatementIs DEF StInv
  <1>4. LogInv /\ Home \in Logs
    BY BundlesAssumption DEF BundlesInv
  <1>5. SessionInv'
    BY <1>2 DEF BundlesInv, SessionInv, VerifyDelegation
  <1>6. (\A u \in returned : Made(u))'
    BY <1>2 DEF BundlesInv, Made
  <1>7. CASE Commits(st) /\ AppendLeaf(Home, env)
             /\ call' = [st EXCEPT !.authorization = Bundle(env, Home, Append(log[Home], env))]
    <2>1. PICK b : b = Bundle(env, Home, Append(log[Home], env))
      OBVIOUS
    <2>2. PICK k : k = [st EXCEPT !.authorization = b]
      OBVIOUS
    <2>3. call' = k
      BY <1>7, <2>1, <2>2
    <2>4. Grows /\ Len(log[Home]) \in Nat /\ Len(log'[Home]) = Len(log[Home]) + 1
      BY <1>2, <1>4, <1>7, LeafGrows
    <2>5. /\ DOMAIN b = {"env", "head", "inclusion"} /\ b.env = env
          /\ HeadInv(b.head)' /\ b.inclusion.size = Len(log[Home]) + 1
          /\ b.inclusion.index = Len(log[Home]) + 1
          /\ VerifyInclusion(b.env, b.inclusion, b.head.root)
      BY <1>2, <1>4, <1>7, <2>1, BundleIs
    <2>6. env.st = st /\ env.by = Issuer /\ env.type = "authorization"
      BY <1>1 DEF Envelope
    <2>7. PICK n : n = Len(log[Home]) + 2
      OBVIOUS
    <2>8. SameCall(st, k)
      BY <1>3, <1>7, <2>2 DEF SameCall, Commits, Fields
    <2>9. AuthInv(b, k, n)'
      BY <2>4, <2>5, <2>6, <2>7, <2>8 DEF AuthInv
    <2>10. StInv(st, 0)'
      BY <1>3, <2>4, StatementKept
    <2>11. k.authorization = b /\ DOMAIN k = Fields /\ \A f \in Fields \ {"authorization"} : k[f] = st[f]
      BY <1>3, <2>2 DEF Fields
    <2>12. StInv(k, n)'
      BY <2>9, <2>10, <2>11 DEF StInv, Fields
    <2>13. (call # None => StInv(call, Len(log[Home]) + 1))'
      <3>1. n = Len(log'[Home]) + 1
        BY <2>4, <2>7
      <3> QED
        BY <2>3, <2>12, <3>1
    <2> QED
      BY <1>2, <1>5, <1>6, <2>4, <2>13, RestKept DEF BundlesInv
  <1>8. CASE UNCHANGED log
             /\ call' = IF Commits(st) /\ mode = "enforce" THEN [st EXCEPT !.status = "withheld"] ELSE st
    <2>1. Grows
      BY <1>2, <1>4, <1>8, Stands
    <2>2. PICK n : n = Len(log[Home]) + 1
      OBVIOUS
    <2>3. PICK k : k = call'
      OBVIOUS
    <2>4. StInv(st, n)
      BY <1>1, <1>2, StatementIs
    <2>5. StInv(k, n)
      <3>1. CASE k = st
        BY <2>4, <3>1
      <3>2. CASE k = [st EXCEPT !.status = "withheld"] /\ Commits(st)
        <4>1. DOMAIN k = Fields /\ k.status = "withheld" /\ \A f \in Fields \ {"status"} : k[f] = st[f]
          BY <1>3, <3>2 DEF Fields
        <4>2. AuthInv(k.authorization, k, n)
          BY <1>3, <4>1 DEF AuthInv, Fields
        <4> QED
          BY <2>4, <3>2, <4>1, <4>2 DEF StInv, Fields, Ends, Commits
      <3> QED
        BY <1>8, <2>3, <3>1, <3>2
    <2>6. StInv(k, n)'
      BY <2>1, <2>5, StatementKept
    <2>7. (call # None => StInv(call, Len(log[Home]) + 1))'
      <3>1. n = Len(log'[Home]) + 1
        BY <1>8, <2>2
      <3> QED
        BY <2>3, <2>6, <3>1
    <2> QED
      BY <1>2, <1>5, <1>6, <2>1, <2>7, RestKept DEF BundlesInv
  <1> QED
    BY <1>1, <1>7, <1>8 DEF Begin

LEMMA DeniedKeeps ==
  ASSUME BundlesInv, Denied
  PROVE  BundlesInv'
  <1>1. Grows
    BY Stands DEF Denied, BundlesInv
  <1>2. SessionInv'
    BY DEF Denied, BundlesInv, SessionInv, VerifyDelegation
  <1>3. (\A u \in returned : Made(u))'
    BY DEF Denied, BundlesInv, Made
  <1>4. PICK st, n, k : st = call /\ n = Len(log[Home]) + 1 /\ k = call'
    OBVIOUS
  <1>5. StInv(st, n) /\ DOMAIN st = Fields
    BY <1>4 DEF BundlesInv, Denied, StInv
  <1>6. k = [st EXCEPT !.status = "denied"] /\ st.decision = "deny" /\ st.enforced
    BY <1>4 DEF Denied
  <1>7. DOMAIN k = Fields /\ k.status = "denied" /\ \A f \in Fields \ {"status"} : k[f] = st[f]
    BY <1>5, <1>6 DEF Fields
  <1>8. AuthInv(k.authorization, k, n)
    BY <1>5, <1>7, AuthOfAnother DEF StInv, Fields
  <1>9. StInv(k, n)
    BY <1>5, <1>6, <1>7, <1>8 DEF StInv, Fields, Ends
  <1>10. StInv(k, n)'
    BY <1>1, <1>9, StatementKept
  <1>11. (call # None => StInv(call, Len(log[Home]) + 1))'
    <2>1. n = Len(log'[Home]) + 1
      BY <1>4 DEF Denied
    <2> QED
      BY <1>4, <1>10, <2>1
  <1> QED
    BY <1>1, <1>2, <1>3, <1>11, RestKept DEF BundlesInv, Denied

(* What an answer carries was made.                                        *)
LEMMA EvidenceIs ==
  ASSUME BundlesInv, call # None, NEW content \in Contents, NEW u \in Evidence(content), u # None
  PROVE  Made(u)
  <1>1. PICK by : by = VouchedBy[call.tool]
    OBVIOUS
  <1>2. by \in {Upstream, Stripe, GitHub}
    BY <1>1, BundlesAssumption DEF BundlesInv, StInv
  <1>3. now \in Times
    BY DEF BundlesInv, SessionInv
  <1>4. CASE u \in returned
    BY <1>4 DEF BundlesInv
  <1>5. CASE by = Upstream /\ u = UpstreamSignature(call.id, call.tool, content)
    BY <1>5 DEF Made, UpstreamSignature
  <1>6. CASE by # Upstream /\ u = Delivery(by, now, content)
    BY <1>2, <1>3, <1>6 DEF Made, Delivery
  <1> QED
    BY <1>1, <1>4, <1>5, <1>6 DEF Evidence

LEMMA ForwardKeeps ==
  ASSUME BundlesInv, Forward
  PROVE  BundlesInv'
  <1>0. /\ call # None /\ (call.decision = "allow" \/ ~call.enforced)
        /\ UNCHANGED <<calls, now, chain, signed, mode, log, bundles, shown>>
    BY DEF Forward
  <1>1. ASSUME NEW st, st = call, NEW n, n = Len(log[Home]) + 1, NEW k, k = call',
               returned \subseteq returned', (\A u \in returned' \ returned : Made(u)),
               DOMAIN k = Fields, k.status \in {"executed", "failed", "error"},
               k.upstream = None \/ k.upstream \in returned',
               \A f \in Fields \ {"status", "content", "upstream"} : k[f] = st[f]
        PROVE  BundlesInv'
    <2>1. Grows
      BY <1>0, <1>1, Stands DEF BundlesInv
    <2>2. SessionInv'
      BY <1>0, <1>1 DEF BundlesInv, SessionInv, VerifyDelegation
    <2>3. (\A u \in returned : Made(u))'
      <3>1. \A u \in returned' : Made(u)
        BY <1>1 DEF BundlesInv
      <3> QED
        BY <3>1 DEF Made
    <2>4. StInv(st, n)'
      BY <1>0, <1>1, <2>1, StatementKept DEF BundlesInv
    <2>5. AuthInv(st.authorization, st, n)'
      BY <2>4 DEF StInv
    <2>6. AuthInv(k.authorization, k, n)'
      <3>1. PICK a : a = st.authorization
        OBVIOUS
      <3>2. AuthInv(a, st, n)'
        BY <2>5, <3>1
      <3>3. AuthInv(a, k, n)'
        BY <1>1, <3>2 DEF AuthInv, SameCall, Fields
      <3> QED
        BY <1>1, <3>1, <3>3 DEF Fields
    <2>7. k.decision = "allow" \/ ~k.enforced
      BY <1>0, <1>1 DEF Fields
    <2>8. StInv(k, n)'
      BY <1>1, <2>4, <2>6, <2>7 DEF StInv, Fields, Ends
    <2>9. (call # None => StInv(call, Len(log[Home]) + 1))'
      <3>1. n = Len(log'[Home]) + 1
        BY <1>0, <1>1
      <3> QED
        BY <1>1, <2>8, <3>1
    <2> QED
      BY <1>0, <2>1, <2>2, <2>3, <2>9, RestKept DEF BundlesInv
  <1>2. PICK st, n, k : st = call /\ n = Len(log[Home]) + 1 /\ k = call'
    OBVIOUS
  <1>3. DOMAIN st = Fields /\ (st.upstream = None \/ st.upstream \in returned)
    BY <1>0, <1>2 DEF BundlesInv, StInv
  <1>4. CASE call' = [call EXCEPT !.status = "error"] /\ UNCHANGED returned
    <2>1. k = [st EXCEPT !.status = "error"]
      BY <1>2, <1>4
    <2>2. DOMAIN k = Fields /\ k.status = "error" /\ \A f \in Fields \ {"status"} : k[f] = st[f]
      BY <1>3, <2>1 DEF Fields
    <2>3. k.upstream = None \/ k.upstream \in returned'
      BY <1>3, <1>4, <2>2 DEF Fields
    <2> QED
      BY <1>1, <1>2, <1>4, <2>2, <2>3
  <1>5. ASSUME NEW content \in Contents, NEW status \in {"executed", "failed"}, NEW u \in Evidence(content),
               call' = [call EXCEPT !.status = status, !.content = content, !.upstream = u],
               returned' = returned \cup ({u} \ {None})
        PROVE  BundlesInv'
    <2>1. k = [st EXCEPT !.status = status, !.content = content, !.upstream = u]
      BY <1>2, <1>5
    <2>2. /\ DOMAIN k = Fields /\ k.status = status /\ k.upstream = u
          /\ \A f \in Fields \ {"status", "content", "upstream"} : k[f] = st[f]
      BY <1>3, <2>1 DEF Fields
    <2>3. u # None => Made(u)
      BY <1>0, EvidenceIs
    <2>4. returned \subseteq returned' /\ \A v \in returned' \ returned : Made(v)
      BY <1>5, <2>3
    <2>5. k.upstream = None \/ k.upstream \in returned'
      BY <1>5, <2>2
    <2> QED
      BY <1>1, <1>2, <2>2, <2>4, <2>5
  <1> QED
    BY <1>4, <1>5 DEF Forward

LEMMA IssueRefusedKeeps ==
  ASSUME BundlesInv, IssueRefused
  PROVE  BundlesInv'
  <1>1. Grows
    BY Stands DEF IssueRefused, BundlesInv
  <1>2. SessionInv'
    BY DEF IssueRefused, BundlesInv, SessionInv, VerifyDelegation
  <1>3. (\A u \in returned : Made(u))'
    BY DEF IssueRefused, BundlesInv, Made
  <1>4. (call # None => StInv(call, Len(log[Home]) + 1))'
    BY DEF IssueRefused
  <1> QED
    BY <1>1, <1>2, <1>3, <1>4, RestKept DEF BundlesInv, IssueRefused

LEMMA IssueKeeps ==
  ASSUME BundlesInv, Issue
  PROVE  BundlesInv'
  <1>1. PICK st, env, b : /\ st = call /\ env = Envelope("receipt", st, Issuer)
                          /\ b = Bundle(env, Home, Append(log[Home], env))
    OBVIOUS
  <1>2. /\ st # None /\ st.status # "none" /\ AppendLeaf(Home, env) /\ bundles' = Append(bundles, b)
        /\ call' = None /\ UNCHANGED <<calls, now, chain, signed, mode, returned, shown>>
    BY <1>1 DEF Issue
  <1>3. LogInv /\ Home \in Logs /\ IsSeq(bundles)
    BY BundlesAssumption DEF BundlesInv
  <1>4. Grows /\ Len(log[Home]) \in Nat
    BY <1>2, <1>3, LeafGrows
  <1>5. /\ DOMAIN b = {"env", "head", "inclusion"} /\ b.env = env
        /\ HeadInv(b.head)' /\ b.head.log = Home /\ b.inclusion.size = b.head.size
        /\ b.inclusion.index = Len(log[Home]) + 1
        /\ VerifyInclusion(b.env, b.inclusion, b.head.root)
    BY <1>1, <1>2, <1>3, BundleIs
  <1>6. /\ DOMAIN env = {"type", "st", "by"} /\ env.by = Issuer /\ env.type = "receipt" /\ env.st = st
    BY <1>1 DEF Envelope
  <1>7. PICK n : n = Len(log[Home]) + 1
    OBVIOUS
  <1>8. StInv(st, n) /\ st.status \in Ends
    BY <1>1, <1>2, <1>7 DEF BundlesInv, StInv
  <1>9. StInv(st, n)'
    BY <1>4, <1>8, StatementKept
  <1>10. StInv(b.env.st, b.inclusion.index)'
    BY <1>5, <1>6, <1>7, <1>9
  <1>11. OwnInv(b)'
    BY <1>5, <1>6, <1>8, <1>10 DEF OwnInv
  <1>12. /\ IsSeq(bundles') /\ Len(bundles') = Len(bundles) + 1 /\ Len(bundles) \in Nat
         /\ bundles'[Len(bundles) + 1] = b /\ \A i \in 1..Len(bundles) : bundles'[i] = bundles[i]
         /\ DOMAIN bundles = 1..Len(bundles) /\ DOMAIN bundles' = 1..Len(bundles')
    BY <1>2, <1>3, AppendIs, SeqIs
  <1>13. ASSUME NEW i \in DOMAIN bundles' PROVE OwnInv(bundles[i])'
    <2>1. CASE i \in 1..Len(bundles)
      <3>1. PICK c : c = bundles[i]
        OBVIOUS
      <3>2. OwnInv(c)'
        BY <1>4, <1>12, <2>1, <3>1, WrittenKept
      <3>3. bundles'[i] = c
        BY <1>12, <2>1, <3>1
      <3> QED
        BY <3>2, <3>3
    <2>2. CASE i = Len(bundles) + 1
      <3>1. bundles'[i] = b
        BY <1>12, <2>2
      <3> QED
        BY <1>11, <3>1
    <2> QED
      BY <1>12, <1>13, <2>1, <2>2
  <1>14. (\A i \in DOMAIN bundles : OwnInv(bundles[i]))'
    BY <1>13
  <1>15. ChainInv' /\ LogInv'
    BY <1>2, <1>4 DEF BundlesInv, ChainInv, LogInv, Grows
  <1>16. SessionInv'
    BY <1>1, <1>2 DEF BundlesInv, SessionInv, VerifyDelegation
  <1>17. (\A u \in returned : Made(u))'
    BY <1>2 DEF BundlesInv, Made
  <1>18. ShownInv'
    BY <1>2, <1>4, ShownKept DEF BundlesInv
  <1> QED
    BY <1>2, <1>12, <1>14, <1>15, <1>16, <1>17, <1>18 DEF BundlesInv

(* What circulates of a bundle that was written.                           *)
LEMMA ToldOfOwn ==
  ASSUME BundlesInv, NEW c \in Own
  PROVE  OwnInv(c) /\ ToldInv(c.env.st)
  <1>1. OwnInv(c)
    BY DEF BundlesInv, Own
  <1> QED
    BY <1>1 DEF OwnInv, StInv, AuthInv, ToldInv

LEMMA MixedIs ==
  ASSUME BundlesInv, NEW c \in Own, NEW b \in Mixed(c)
  PROVE  b.env.st = c.env.st /\ \E x \in Own : b.head = x.head
  <1>1. DOMAIN c = {"env", "head", "inclusion"} /\ DOMAIN c.env = {"type", "st", "by"}
    BY ToldOfOwn DEF OwnInv
  <1>2. CASE b = c
    BY <1>2
  <1>3. CASE b = [c EXCEPT !.env.by = NoKey]
    <2>1. PICK e : e = [c.env EXCEPT !.by = NoKey]
      OBVIOUS
    <2>2. b = [c EXCEPT !.env = e]
      BY <1>3, <2>1
    <2>3. e.st = c.env.st
      BY <1>1, <2>1
    <2> QED
      BY <1>1, <2>2, <2>3
  <1>4. CASE \E x \in Own : b = [c EXCEPT !.head = x.head]
    BY <1>1, <1>4
  <1>5. CASE \E x \in Own : b = [c EXCEPT !.inclusion = x.inclusion]
    BY <1>1, <1>5
  <1>6. CASE \E x \in Own : b = [c EXCEPT !.inclusion = x.inclusion, !.head = x.head]
    BY <1>1, <1>6
  <1> QED
    BY <1>2, <1>3, <1>4, <1>5, <1>6 DEF Mixed

(* A bundle is shown.                                                      *)
LEMMA ShowKeeps ==
  ASSUME BundlesInv, NEW b, NEW o, NEW c \in Own, b.env.st = c.env.st, (\E x \in Own : b.head = x.head),
         o.keys \subseteq {Upstream, Stripe, GitHub}, Show(b, o), bundles # <<>>
  PROVE  BundlesInv'
  <1>1. UNCHANGED <<calls, now, chain, signed, mode, call, log, returned, bundles>>
    BY DEF Show
  <1>2. Grows
    BY <1>1, Stands DEF BundlesInv
  <1>3. PICK h, st, a : h = b.head /\ st = b.env.st /\ a = st.authorization
    OBVIOUS
  <1>4. HeadInv(h) /\ ToldInv(st)
    BY <1>3, ToldOfOwn DEF OwnInv
  <1>5. HeadInv(h)'
    BY <1>2, <1>4, HeadKept
  <1>6. (a # None => HeadInv(a.head))'
    <2>1. PICK g : g = a.head
      OBVIOUS
    <2>2. a # None => HeadInv(g)'
      BY <1>2, <1>3, <1>4, <2>1, HeadKept DEF ToldInv
    <2> QED
      BY <2>1, <2>2
  <1>7. ToldInv(st)'
    BY <1>1, <1>3, <1>4, <1>6 DEF ToldInv
  <1>8. shown'.bundle.head = h /\ shown'.bundle.env.st = st /\ shown'.options = o
    BY <1>3 DEF Show
  <1>9. ShownInv'
    <2>1. HeadInv(shown.bundle.head)' /\ ToldInv(shown.bundle.env.st)'
      BY <1>5, <1>7, <1>8
    <2> QED
      BY <1>8, <2>1 DEF ShownInv
  <1>10. SessionInv'
    BY <1>1 DEF BundlesInv, SessionInv, VerifyDelegation
  <1>11. (\A u \in returned : Made(u))'
    BY <1>1 DEF BundlesInv, Made
  <1>12. ChainInv' /\ LogInv'
    BY <1>1 DEF BundlesInv, ChainInv, LogInv
  <1>13. IsSeq(bundles') /\ (\A i \in DOMAIN bundles : OwnInv(bundles[i]))'
    <2>1. ASSUME NEW i \in DOMAIN bundles' PROVE OwnInv(bundles[i])'
      <3>1. PICK x : x = bundles[i]
        OBVIOUS
      <3>2. OwnInv(x)'
        BY <1>1, <1>2, <3>1, WrittenKept
      <3>3. bundles'[i] = x
        BY <1>1, <3>1
      <3> QED
        BY <3>2, <3>3
    <2> QED
      BY <1>1, <2>1 DEF BundlesInv
  <1> QED
    BY <1>1, <1>2, <1>9, <1>10, <1>11, <1>12, <1>13, CallKept DEF BundlesInv

(* What else the issuer may state: a grant of the session's or a piece of  *)
(* it, a signature that was made, an authorization that was.               *)
LEMMA OtherwiseIs ==
  ASSUME NEW st, DOMAIN st = Fields, NEW k \in Otherwise(st)
  PROVE  /\ k.at = st.at \/ k.at \in Times
         /\ k.grant = st.grant \/ k.grant \in {<<>>, SubSeq(st.grant, 1, 1), Tail(st.grant)}
         /\ k.upstream = st.upstream \/ k.upstream \in returned
         /\ k.authorization = st.authorization \/ \E x \in Own : k.authorization = x.env.st.authorization
  <1> DEFINE Statuses == {[st EXCEPT !.status = x] : x \in {"executed", "denied", "error"}}
             Toolings == {[st EXCEPT !.tool = x] : x \in Tools}
             Moments == {[st EXCEPT !.at = x] : x \in Times}
             Actors == {[st EXCEPT !.agent = x] : x \in Agents}
             People == {NamedAs(st, x, y) : x \in Principals, y \in Principals \cup {NoKey}}
             Chains == {[st EXCEPT !.grant = x] : x \in {<<>>, SubSeq(st.grant, 1, 1), Tail(st.grant)}}
             Decisions == {DecidedAs(st, x, y) : x \in {"none", "allow", "deny"}, y \in BOOLEAN}
             Committed == {[st EXCEPT !.authorization = x.env.st.authorization] : x \in Own}
             Vouched == {[st EXCEPT !.upstream = x] : x \in returned}
             Results == {[st EXCEPT !.content = x] : x \in Contents}
             Fixed == {[st EXCEPT !.id = 0], [st EXCEPT !.keyid = NoKey],
                       [st EXCEPT !.args = "others"], [st EXCEPT !.kind = "sdk"]}
  <1>1. /\ "at" \in DOMAIN st /\ "grant" \in DOMAIN st /\ "upstream" \in DOMAIN st
        /\ "authorization" \in DOMAIN st
    BY DEF Fields
  <1>2. Otherwise(st) = Statuses \cup Toolings \cup Moments \cup Actors \cup People \cup Chains
                        \cup Decisions \cup Committed \cup Vouched \cup Results \cup Fixed
    BY DEF Otherwise
  <1>3. CASE k \in People \cup Decisions
    <2>1. \A x, y : \A s \in {NamedAs(st, x, y), DecidedAs(st, x, y)} :
                /\ s.at = st.at /\ s.grant = st.grant /\ s.upstream = st.upstream
                /\ s.authorization = st.authorization
      BY <1>1 DEF NamedAs, DecidedAs
    <2> QED
      BY <1>3, <2>1
  <1>4. CASE k \in Statuses \cup Toolings \cup Moments \cup Actors \cup Results
    BY <1>1, <1>4
  <1>5. CASE k \in Chains
    BY <1>1, <1>5
  <1>6. CASE k \in Committed
    BY <1>1, <1>6
  <1>7. CASE k \in Vouched
    BY <1>1, <1>7
  <1>8. CASE k \in Fixed
    BY <1>1, <1>8
  <1> HIDE DEF Statuses, Toolings, Moments, Actors, People, Chains, Decisions, Committed, Vouched, Results, Fixed
  <1> QED
    BY <1>2, <1>3, <1>4, <1>5, <1>6, <1>7, <1>8

LEMMA LastIsOwn ==
  ASSUME BundlesInv, bundles # <<>>
  PROVE  Last(bundles) \in Own
  <1>1. bundles \in Seq(Range(bundles)) /\ DOMAIN bundles = 1..Len(bundles) /\ Len(bundles) \in Nat
    BY SeqIs DEF BundlesInv, IsSeq
  <1>2. Len(bundles) # 0
    BY <1>1, EmptySeq
  <1> QED
    BY <1>1, <1>2 DEF Last, Own

(* Something else is stated, and a log takes it.                           *)
LEMMA StateKeeps ==
  ASSUME BundlesInv, NEW l \in Logs, NEW st, ToldInv(st), StateOtherwise(st, l), bundles # <<>>
  PROVE  BundlesInv'
  <1>1. PICK env, b : env = Envelope("receipt", st, Issuer) /\ b = Bundle(env, l, Append(log[l], env))
    OBVIOUS
  <1>2. /\ AppendLeaf(l, env) /\ shown'.bundle = b /\ call = None
        /\ shown'.options.keys = {Upstream, Stripe, GitHub}
        /\ UNCHANGED <<calls, now, chain, signed, mode, call, returned, bundles>>
    BY <1>1 DEF StateOtherwise, Everything
  <1>3. Grows
    BY <1>2, LeafGrows DEF BundlesInv
  <1>4. b.env = env /\ HeadInv(b.head)'
    BY <1>1, <1>2, BundleIs DEF BundlesInv
  <1>5. env.st = st
    BY <1>1 DEF Envelope
  <1>6. PICK a : a = st.authorization
    OBVIOUS
  <1>7. (a # None => HeadInv(a.head))'
    <2>1. PICK g : g = a.head
      OBVIOUS
    <2>2. a # None => HeadInv(g)'
      BY <1>3, <1>6, <2>1, HeadKept DEF ToldInv
    <2> QED
      BY <2>1, <2>2
  <1>8. ToldInv(st)'
    BY <1>2, <1>6, <1>7 DEF ToldInv
  <1>9. ShownInv'
    <2>1. HeadInv(shown.bundle.head)' /\ ToldInv(shown.bundle.env.st)'
      BY <1>2, <1>4, <1>5, <1>8
    <2> QED
      BY <1>2, <2>1 DEF ShownInv
  <1>10. SessionInv'
    BY <1>2 DEF BundlesInv, SessionInv, VerifyDelegation
  <1>11. (\A u \in returned : Made(u))'
    BY <1>2 DEF BundlesInv, Made
  <1>12. ChainInv' /\ LogInv'
    BY <1>2, <1>3 DEF BundlesInv, ChainInv, LogInv, Grows
  <1>13. IsSeq(bundles') /\ (\A i \in DOMAIN bundles : OwnInv(bundles[i]))'
    <2>1. ASSUME NEW i \in DOMAIN bundles' PROVE OwnInv(bundles[i])'
      <3>1. PICK x : x = bundles[i]
        OBVIOUS
      <3>2. OwnInv(x)'
        BY <1>2, <1>3, <3>1, WrittenKept
      <3>3. bundles'[i] = x
        BY <1>2, <3>1
      <3> QED
        BY <3>2, <3>3
    <2> QED
      BY <1>2, <2>1 DEF BundlesInv
  <1>14. (call # None => StInv(call, Len(log[Home]) + 1))'
    BY <1>2
  <1> QED
    BY <1>9, <1>10, <1>11, <1>12, <1>13, <1>14 DEF BundlesInv

LEMMA StateOtherwiseKeeps ==
  ASSUME BundlesInv, bundles # <<>>, NEW l \in Logs, NEW st, StateOtherwise(st, l),
         st = Last(bundles).env.st \/ st \in Otherwise(Last(bundles).env.st)
  PROVE  BundlesInv'
  <1>1. PICK c : c = Last(bundles)
    OBVIOUS
  <1>2. c \in Own /\ OwnInv(c) /\ ToldInv(c.env.st)
    BY <1>1, LastIsOwn, ToldOfOwn
  <1>3. PICK t : t = c.env.st
    OBVIOUS
  <1>4. DOMAIN t = Fields /\ t.grant = chain /\ ToldInv(t)
    BY <1>2, <1>3 DEF OwnInv, StInv
  <1>5. CASE st = t
    BY <1>4, <1>5, StateKeeps
  <1>6. CASE st \in Otherwise(t)
    <2>1. /\ st.at = t.at \/ st.at \in Times
          /\ st.grant = t.grant \/ st.grant \in {<<>>, SubSeq(t.grant, 1, 1), Tail(t.grant)}
          /\ st.upstream = t.upstream \/ st.upstream \in returned
          /\ st.authorization = t.authorization \/ \E x \in Own : st.authorization = x.env.st.authorization
      BY <1>4, <1>6, OtherwiseIs
    <2>2. st.authorization # None => HeadInv(st.authorization.head)
      <3>1. CASE st.authorization = t.authorization
        BY <1>4, <3>1 DEF ToldInv
      <3>2. CASE \E x \in Own : st.authorization = x.env.st.authorization
        BY <3>2, ToldOfOwn DEF ToldInv
      <3> QED
        BY <2>1, <3>1, <3>2
    <2>3. ToldInv(st)
      BY <1>4, <2>1, <2>2 DEF ToldInv
    <2> QED
      BY <2>3, StateKeeps
  <1> QED
    BY <1>1, <1>3, <1>5, <1>6

LEMMA ShowsKeep ==
  ASSUME BundlesInv, bundles # <<>>, NEW c \in Own, NEW b,
         (\/ b \in Mixed(c) /\ (Show(b, KeysAlone) \/ Show(b, Everything(Home)))
          \/ b = c /\ \E l \in Logs : Show(b, Everything(l)))
  PROVE  BundlesInv'
  <1>1. b.env.st = c.env.st /\ \E x \in Own : b.head = x.head
    BY MixedIs
  <1>2. KeysAlone.keys \subseteq {Upstream, Stripe, GitHub}
    BY DEF KeysAlone
  <1>3. \A l : Everything(l).keys \subseteq {Upstream, Stripe, GitHub}
    BY DEF Everything
  <1>4. CASE Show(b, KeysAlone)
    BY <1>1, <1>2, <1>4, ShowKeeps
  <1>5. CASE \E l \in Logs : Show(b, Everything(l))
    BY <1>1, <1>3, <1>5, ShowKeeps
  <1> QED
    BY <1>4, <1>5, BundlesAssumption

LEMMA BundlesInvInductive ==
  ASSUME BundlesInv, [Next]_vars
  PROVE  BundlesInv'
  <1>1. CASE UNCHANGED vars
    <2>1. UNCHANGED <<calls, now, chain, signed, mode, call, log, returned, bundles, shown>>
      BY <1>1 DEF vars
    <2>2. Grows
      BY <2>1, Stands DEF BundlesInv
    <2>3. SessionInv'
      BY <2>1 DEF BundlesInv, SessionInv, VerifyDelegation
    <2>4. (\A u \in returned : Made(u))'
      BY <2>1 DEF BundlesInv, Made
    <2> QED
      BY <2>1, <2>2, <2>3, <2>4, RestKept, CallKept DEF BundlesInv
  <1>2. ASSUME NEW g \in Asked,
               \/ \E by \in Principals \cup {NoKey} : Grant(g, by)
               \/ \E by \in Keys \cup {NoKey} : Delegate(g, by) \/ DelegateOtherwise(g, by)
        PROVE  BundlesInv'
    BY <1>2, GrantsKeep DEF Keys
  <1>3. ASSUME NEW m \in {"enforce", "observe"}, Open(m) PROVE BundlesInv'
    BY <1>3, OpenKeeps
  <1>4. ASSUME NEW t \in Times, Tick(t) PROVE BundlesInv'
    BY <1>4, TickKeeps
  <1>5. ASSUME NEW tool \in Tools, NEW d \in {"allow", "deny"}, Begin(tool, d) PROVE BundlesInv'
    BY <1>5, BeginKeeps
  <1>6. CASE Forward
    BY <1>6, ForwardKeeps
  <1>7. CASE Denied
    BY <1>7, DeniedKeeps
  <1>8. CASE Issue
    BY <1>8, IssueKeeps
  <1>9. CASE IssueRefused
    BY <1>9, IssueRefusedKeeps
  <1>10. ASSUME bundles # <<>>,
                NEW b \in UNION {Mixed(c) : c \in Own}, NEW o \in {KeysAlone, Everything(Home)}, Show(b, o)
         PROVE  BundlesInv'
    BY <1>10, ShowsKeep
  <1>11. ASSUME bundles # <<>>, NEW b \in Own, NEW l \in Logs \ {Home}, Show(b, Everything(l))
         PROVE  BundlesInv'
    BY <1>11, ShowsKeep
  <1>12. ASSUME bundles # <<>>, NEW st \in Otherwise(Last(bundles).env.st), StateOtherwise(st, Home)
         PROVE  BundlesInv'
    BY <1>12, StateOtherwiseKeeps, BundlesAssumption
  <1>13. ASSUME bundles # <<>>, NEW l \in Logs \ {Home}, StateOtherwise(Last(bundles).env.st, l)
         PROVE  BundlesInv'
    <2>1. PICK st : st = Last(bundles).env.st
      OBVIOUS
    <2> QED
      BY <1>13, <2>1, StateOtherwiseKeeps
  <1> QED
    BY <1>1, <1>2, <1>3, <1>4, <1>5, <1>6, <1>7, <1>8, <1>9, <1>10, <1>11, <1>12, <1>13 DEF Next

(* Every part that circulates comes from where BundlesInv says, and the    *)
(* gateway's statements are as handleCall and issue make them.             *)
THEOREM BundlesInvariant == Spec => []BundlesInv
  <1>1. Init => BundlesInv
    BY InitHolds
  <1>2. BundlesInv /\ [Next]_vars => BundlesInv'
    BY BundlesInvInductive
  <1> QED
    BY <1>1, <1>2, PTL DEF Spec

------------------------------------------------------------------------------
(* What a verifier that finds nothing to fail has found.                   *)

LEMMA VerifiedMeans ==
  ASSUME NEW b, NEW o, Verified(b, o)
  PROVE  /\ b.env.by = Issuer /\ b.env.type = "receipt"
         /\ b.env.st.keyid = Issuer
         /\ b.env.st.kind = "gateway" => b.env.st.grant # <<>>
         /\ GrantChecks(b.env.st, VerifyDelegation(b.env.st.grant)) = {}
         /\ UpstreamChecks(b.env.st, o, CheckProvider(b.env.st)) = {}
         /\ AuthorizationChecks(b) = {}
         /\ HeadChecks(b, o) = {}
  <1> DEFINE st == b.env.st
  <1>1. b.env.by = Issuer /\ b.env.type = "receipt"
    BY DEF Verified, Failures, FailuresBy
  <1>2. UNION {
        Check("issuer keyid matches signer", st.keyid = b.env.by),
        Check("gateway receipt carries a delegation", st.kind = "gateway" => st.grant # <<>>),
        Check("gateway receipt carries a policy decision", st.kind = "gateway" => st.decision # "none"),
        GrantChecks(st, VerifyDelegation(st.grant)),
        Check("request args digest", st.args = st.digest),
        UpstreamChecks(st, o, CheckProvider(st)), PolicyChecks(st), AuthorizationChecks(b), HeadChecks(b, o)} = {}
    BY <1>1 DEF Verified, Failures, FailuresBy
  <1>3. /\ Check("issuer keyid matches signer", st.keyid = b.env.by) = {}
        /\ Check("gateway receipt carries a delegation", st.kind = "gateway" => st.grant # <<>>) = {}
        /\ GrantChecks(st, VerifyDelegation(st.grant)) = {}
        /\ UpstreamChecks(st, o, CheckProvider(st)) = {} /\ AuthorizationChecks(b) = {} /\ HeadChecks(b, o) = {}
    BY <1>2
  <1> QED
    BY <1>1, <1>3 DEF Check

LEMMA HeadFound ==
  ASSUME NEW b, NEW o, HeadChecks(b, o) = {}
  PROVE  VerifyInclusion(b.env, b.inclusion, b.head.root)
  <1>1. UNION {
        Check("tree head names the expected log", o.log # None => b.head.log = o.log),
        Check("tree head matches inclusion proof size", b.head.size = b.inclusion.size),
        Check("log inclusion proof", VerifyInclusion(b.env, b.inclusion, b.head.root)),
        CopyChecks(b.head, o.copy)} = {}
    BY DEF HeadChecks
  <1>2. Check("log inclusion proof", VerifyInclusion(b.env, b.inclusion, b.head.root)) = {}
    BY <1>1
  <1> QED
    BY <1>2 DEF Check

LEMMA GrantFound ==
  ASSUME NEW st, st.grant # <<>>, GrantChecks(st, VerifyDelegation(st.grant)) = {}
  PROVE  /\ VerifyDelegation(st.grant) /\ Binds(st, Leaf(st.grant))
         /\ DelegationValidAt(Leaf(st.grant), st.at)
         /\ Ran(st) => st.tool \in Leaf(st.grant).scopes
  <1> DEFINE g == Leaf(st.grant)
  <1>1. VerifyDelegation(st.grant)
    BY DEF GrantChecks
  <1>2. UNION {
        Check("delegation binds principal and agent", Binds(st, g)),
        Check("delegation valid at receipt time", DelegationValidAt(g, st.at)),
        Check("executed tool within delegated scope", Ran(st) => st.tool \in g.scopes)} = {}
    BY <1>1 DEF GrantChecks
  <1>3. /\ Check("delegation binds principal and agent", Binds(st, g)) = {}
        /\ Check("delegation valid at receipt time", DelegationValidAt(g, st.at)) = {}
        /\ Check("executed tool within delegated scope", Ran(st) => st.tool \in g.scopes) = {}
    BY <1>2
  <1> QED
    BY <1>1, <1>3 DEF Check

LEMMA AuthorizationFound ==
  ASSUME NEW b, AuthorizationChecks(b) = {}, b.env.st.authorization # None
  PROVE  LET a == b.env.st.authorization IN
         /\ a.env.by = Issuer /\ a.env.type = "authorization" /\ SameCall(a.env.st, b.env.st)
         /\ VerifyInclusion(a.env, a.inclusion, a.head.root) /\ Before(a, b)
  <1> DEFINE a == b.env.st.authorization
  <1>1. a.env.by = Issuer /\ a.env.type = "authorization"
    BY DEF AuthorizationChecks
  <1>2. UNION {
        Check("authorization names this call", SameCall(a.env.st, b.env.st)),
        IF a.head.by \notin Logs \cup {Issuer} THEN {"authorization tree head signature"}
        ELSE Check("authorization log inclusion proof", VerifyInclusion(a.env, a.inclusion, a.head.root))
             \cup Check("authorization logged before execution", Before(a, b))} = {}
    BY <1>1 DEF AuthorizationChecks
  <1>3. /\ Check("authorization names this call", SameCall(a.env.st, b.env.st)) = {}
        /\ Check("authorization log inclusion proof", VerifyInclusion(a.env, a.inclusion, a.head.root)) = {}
        /\ Check("authorization logged before execution", Before(a, b)) = {}
    BY <1>2
  <1> QED
    BY <1>1, <1>3 DEF Check

LEMMA UpstreamFound ==
  ASSUME NEW st, NEW o, Ran(st), st.upstream # None, st.upstream.by \in o.keys,
         UpstreamChecks(st, o, CheckProvider(st)) = {}
  PROVE  IF IsProvider(st.upstream) THEN CheckProvider(st) ELSE CheckUpstream(st, st.upstream)
  <1>1. CASE IsProvider(st.upstream)
    <2>1. Check("upstream signature (provider secret)", CheckProvider(st)) = {}
      BY <1>1 DEF UpstreamChecks
    <2> QED
      BY <1>1, <2>1 DEF Check
  <1>2. CASE ~IsProvider(st.upstream)
    <2>1. Check("upstream signature (upstream key)", CheckUpstream(st, st.upstream)) = {}
      BY <1>2 DEF UpstreamChecks
    <2> QED
      BY <1>2, <2>1 DEF Check
  <1> QED
    BY <1>1, <1>2

------------------------------------------------------------------------------
(* Both verifiers.                                                         *)

(* The chains that circulate are made of the session's links.              *)
LEMMA PiecesAre ==
  ASSUME BundlesInv, VerifyDelegation(chain), NEW c \in {chain, <<>>, SubSeq(chain, 1, 1), Tail(chain)}
  PROVE  c \in Seq(Links) /\ \A i \in DOMAIN c : \E j \in DOMAIN chain : c[i] = chain[j]
  <1>1. chain \in Seq(Links) /\ DOMAIN chain = 1..Len(chain) /\ Len(chain) \in Nat /\ Len(chain) >= 1
    BY LenProperties, DelegationAssumption DEF BundlesInv, ChainInv, VerifyDelegation
  <1>2. \A i \in 1..Len(chain) : chain[i] \in Links
    BY <1>1, ElementOfSeq
  <1>3. CASE c = chain
    BY <1>1, <1>3
  <1>4. CASE c = <<>>
    BY <1>4, EmptySeq
  <1>5. CASE c = SubSeq(chain, 1, 1)
    <2>1. c \in Seq(Links) /\ Len(c) = 1 /\ \A i \in 1..1 : c[i] = chain[1 + i - 1]
      BY <1>1, <1>2, <1>5, SubSeqProperties
    <2>2. DOMAIN c = 1..1 /\ c[1] = chain[1] /\ 1 \in DOMAIN chain
      BY <1>1, <2>1, LenProperties
    <2> QED
      BY <2>1, <2>2
  <1>6. CASE c = Tail(chain)
    <2>1. chain # <<>>
      BY <1>1, EmptySeq
    <2>2. c \in Seq(Links) /\ Len(c) = Len(chain) - 1 /\ \A i \in 1..Len(c) : c[i] = chain[i + 1]
      BY <1>1, <1>6, <2>1, HeadTailProperties
    <2>3. DOMAIN c = 1..Len(c)
      BY <2>2, LenProperties
    <2>4. ASSUME NEW i \in DOMAIN c PROVE \E j \in DOMAIN chain : c[i] = chain[j]
      <3>1. i \in 1..Len(c) /\ i + 1 \in 1..Len(chain)
        BY ONLY <1>1, <2>2, <2>3, <2>4
      <3>2. i + 1 \in DOMAIN chain
        BY ONLY <1>1, <3>1
      <3> QED
        BY ONLY <2>2, <3>1, <3>2
    <2> QED
      BY ONLY <2>2, <2>4
  <1> QED
    BY <1>3, <1>4, <1>5, <1>6

LEMMA ShownIs ==
  ASSUME BundlesInv, shown # None
  PROVE  VerifyDelegation(chain) /\ ShownInv /\ ToldInv(Told) /\ HeadInv(shown.bundle.head)
  BY DEF BundlesInv, SessionInv, ShownInv, Told

LEMMA TypesHold ==
  ASSUME BundlesInv
  PROVE  TypeOK
  BY DEF BundlesInv, ChainInv, SessionInv, OwnInv, Own, Ends, TypeOK

LEMMA NarrowsHolds ==
  ASSUME BundlesInv
  PROVE  ChainNarrows
  <1> SUFFICES ASSUME VerifyDelegation(chain)
               PROVE  /\ chain[1].by \in Trusted
                      /\ \A i, j \in DOMAIN chain : i < j => Within(chain[i], chain[j])
    BY DEF ChainNarrows, Within
  <1>1. chain \in Seq(Links) /\ DOMAIN chain = 1..Len(chain) /\ Len(chain) \in Nat
    BY LenProperties DEF BundlesInv, ChainInv
  <1>2. \A i, j \in DOMAIN chain : i < j => i <= j
    BY <1>1
  <1> QED
    BY <1>1, <1>2, AcceptedNarrows, AcceptedStarts

LEMMA AgreeHolds ==
  ASSUME BundlesInv
  PROVE  VerifiersAgree
  <1> SUFFICES ASSUME \A i \in DOMAIN chain : SchemaOk(chain[i].grant)
               PROVE  /\ WebVerifyDelegation(chain) <=> VerifyDelegation(chain)
                      /\ shown # None => (WebFailures(shown.bundle, shown.options) = {}
                                          <=> Verified(shown.bundle, shown.options))
    BY DEF VerifiersAgree
  <1>1. WebVerifyDelegation(chain) <=> VerifyDelegation(chain)
    BY WalksAgree DEF BundlesInv, ChainInv
  <1>2. ASSUME shown # None
        PROVE  WebFailures(shown.bundle, shown.options) = Failures(shown.bundle, shown.options)
    <2> DEFINE c == Told.grant
    <2>1. c \in Seq(Links) /\ \A i \in DOMAIN c : SchemaOk(c[i].grant)
      BY <1>2, ShownIs, PiecesAre DEF ToldInv
    <2>2. WebVerifyDelegation(c) <=> VerifyDelegation(c)
      BY <2>1, WalksAgree
    <2>3. WebVerifyDelegation(c) = VerifyDelegation(c)
      BY <2>2 DEF WebVerifyDelegation, VerifyDelegation
    <2>4. WebCheckProvider(Told) = CheckProvider(Told)
      BY DEF WebCheckProvider, CheckProvider
    <2> QED
      BY <2>3, <2>4 DEF WebFailures, Failures, Told
  <1> QED
    BY <1>1, <1>2 DEF Verified

(* A chain that either verifier accepts narrows from a trusted principal's *)
(* grant to the last one's, and both verifiers accept the same chains and  *)
(* the same bundles, whoever made them up (verifyDelegation, verifyBundle, *)
(* verifyDelegationChain and verifyBundle of verify-web.ts).               *)
THEOREM AcceptedGrantsNarrow == Spec => []GrantsNarrow
  <1>1. BundlesInv => GrantsNarrow
    BY TypesHold, NarrowsHolds, AgreeHolds DEF GrantsNarrow
  <1> QED
    BY <1>1, BundlesInvariant, PTL

------------------------------------------------------------------------------
(* What an accepted bundle tells.                                          *)

(* The first link of a grant that is accepted is one a principal signed.   *)
LEMMA FirstIsSigned ==
  ASSUME BundlesInv, VerifyDelegation(chain), NEW c \in {chain, <<>>, SubSeq(chain, 1, 1), Tail(chain)},
         VerifyDelegation(c)
  PROVE  c \in Seq(Links) /\ c[1] \in signed
  <1>1. c \in Seq(Links) /\ \A i \in DOMAIN c : \E j \in DOMAIN chain : c[i] = chain[j]
    BY PiecesAre
  <1>2. 1 \in DOMAIN c /\ c[1].by \in Trusted
    BY <1>1, AcceptedStarts
  <1>3. PICK j \in DOMAIN chain : c[1] = chain[j]
    BY <1>1, <1>2
  <1>4. chain[j].by \in Principals
    BY <1>2, <1>3, DelegationAssumption
  <1> QED
    BY <1>1, <1>3, <1>4 DEF BundlesInv, ChainInv

LEMMA GrantedHolds ==
  ASSUME BundlesInv
  PROVE  AcceptedWasGranted
  <1> SUFFICES ASSUME Accepted, Told.kind = "gateway"
               PROVE  \E s \in signed :
                        /\ s.by \in Trusted /\ s.by = Told.attested /\ s.grant.principal = Told.principal
                        /\ DelegationValidAt(s.grant, Told.at)
                        /\ Ran(Told) => Told.tool \in s.grant.scopes
                        /\ s.grant.agent = Told.agent \/ s.grant.agentKey # NoKey
    BY DEF AcceptedWasGranted
  <1> DEFINE c == Told.grant
  <1>1. shown # None /\ Verified(shown.bundle, shown.options) /\ Told = shown.bundle.env.st
    BY DEF Accepted, Told
  <1>2. c # <<>> /\ GrantChecks(Told, VerifyDelegation(c)) = {}
    BY <1>1, VerifiedMeans
  <1>3. /\ VerifyDelegation(c) /\ Binds(Told, Leaf(c)) /\ DelegationValidAt(Leaf(c), Told.at)
        /\ Ran(Told) => Told.tool \in Leaf(c).scopes
    BY <1>2, GrantFound
  <1>4. c \in Seq(Links) /\ c[1] \in signed
    BY <1>1, <1>3, ShownIs, FirstIsSigned DEF ToldInv
  <1>5. /\ c[1].by \in Trusted /\ Leaf(c).scopes \subseteq c[1].grant.scopes
        /\ Leaf(c).principal = c[1].grant.principal
        /\ c[1].grant.agent = Leaf(c).agent \/ c[1].grant.agentKey # NoKey
    BY <1>3, <1>4, AcceptedStarts
  <1>6. DelegationValidAt(c[1].grant, Told.at)
    BY <1>1, <1>3, <1>4, ShownIs, AcceptedStarts DEF ToldInv
  <1>7. c[1].by = Told.attested /\ Leaf(c).principal = Told.principal /\ Leaf(c).agent = Told.agent
    BY <1>3 DEF Binds
  <1> QED
    BY <1>3, <1>4, <1>5, <1>6, <1>7

(* A gateway receipt that is accepted is of a call that a grant a trusted  *)
(* principal did sign allows, at the time it gives, whatever chain, names  *)
(* and decision the issuer states (verifyBundle's delegation checks).      *)
THEOREM AcceptedWasAllowed == Spec => []AcceptedWasGranted
  BY GrantedHolds, BundlesInvariant, PTL

LEMMA InTheLogHolds ==
  ASSUME BundlesInv
  PROVE  AcceptedIsInTheLog
  <1> SUFFICES ASSUME Accepted, NEW b, b = shown.bundle
               PROVE  /\ b.head.log \in Logs /\ b.inclusion.index \in DOMAIN log[b.head.log]
                      /\ log[b.head.log][b.inclusion.index] = b.env
    BY DEF AcceptedIsInTheLog
  <1>1. shown # None /\ Verified(b, shown.options)
    BY DEF Accepted
  <1>2. HeadInv(b.head)
    BY <1>1, ShownIs
  <1>3. VerifyInclusion(b.env, b.inclusion, b.head.root)
    BY <1>1, VerifiedMeans, HeadFound
  <1>4. IsSeq(log[b.head.log]) /\ StartOf(b.head.root, log[b.head.log])
    BY <1>2 DEF HeadInv, BundlesInv, LogInv
  <1>5. /\ DOMAIN b.head.root = 1..Len(b.head.root) /\ DOMAIN log[b.head.log] = 1..Len(log[b.head.log])
        /\ Len(b.head.root) \in Nat /\ Len(log[b.head.log]) \in Nat /\ Len(b.head.root) <= Len(log[b.head.log])
    BY <1>4, SeqIs DEF StartOf
  <1>6. b.inclusion.index \in DOMAIN b.head.root /\ b.head.root[b.inclusion.index] = b.env
    BY <1>3 DEF VerifyInclusion
  <1>7. \A i \in 1..Len(b.head.root) : b.head.root[i] = log[b.head.log][i]
    BY <1>4 DEF StartOf
  <1>8. b.head.log \in Logs
    BY <1>2 DEF HeadInv
  <1>9. b.inclusion.index \in 1..Len(b.head.root) /\ b.inclusion.index \in DOMAIN log[b.head.log]
    BY ONLY <1>5, <1>6
  <1> QED
    BY ONLY <1>6, <1>7, <1>8, <1>9

LEMMA AuthorizedFirstHolds ==
  ASSUME BundlesInv
  PROVE  AuthorizedFirst
  <1> SUFFICES ASSUME shown # None, Told.authorization # None,
                      Told.authorization.head.log = shown.bundle.head.log, Accepted
               PROVE  \E i \in 1..shown.bundle.inclusion.index - 1 :
                        LET env == log[shown.bundle.head.log][i] IN
                        /\ env.type = "authorization" /\ env.by = Issuer /\ env.st.decision = "allow"
                        /\ env.st.id = Told.id /\ env.st.tool = Told.tool /\ env.st.agent = Told.agent
    BY DEF AuthorizedFirst
  <1>1. PICK b, a : b = shown.bundle /\ a = Told.authorization
    OBVIOUS
  <1>2. Verified(b, shown.options) /\ Told = b.env.st
    BY <1>1 DEF Accepted, Told
  <1>3. /\ a.env.by = Issuer /\ a.env.type = "authorization" /\ SameCall(a.env.st, Told)
        /\ VerifyInclusion(a.env, a.inclusion, a.head.root) /\ Before(a, b)
    BY <1>1, <1>2, VerifiedMeans, AuthorizationFound
  <1>4. VerifyInclusion(b.env, b.inclusion, b.head.root) /\ HeadInv(b.head)
    BY <1>1, <1>2, VerifiedMeans, HeadFound, ShownIs
  <1>5. HeadInv(a.head) /\ a.head.log = b.head.log
    BY <1>1, ShownIs DEF ToldInv
  <1>6. StartOf(a.head.root, log[b.head.log]) /\ StartOf(b.head.root, log[b.head.log])
    BY <1>4, <1>5 DEF HeadInv
  <1>7. /\ DOMAIN a.head.root = 1..Len(a.head.root) /\ Len(a.head.root) \in Nat
        /\ DOMAIN b.head.root = 1..Len(b.head.root) /\ Len(b.head.root) \in Nat
    BY <1>6, SeqIs DEF StartOf
  <1>8. a.inclusion.index \in 1..Len(a.head.root) /\ b.inclusion.index \in 1..Len(b.head.root)
    BY <1>3, <1>4, <1>7 DEF VerifyInclusion
  <1>9. a.inclusion.index \in 1..b.inclusion.index - 1
    BY <1>3, <1>7, <1>8 DEF Before
  <1>10. log[b.head.log][a.inclusion.index] = a.env
    BY <1>3, <1>6, <1>8 DEF VerifyInclusion, StartOf
  <1> QED
    BY <1>1, <1>3, <1>9, <1>10 DEF SameCall

LEMMA AttestedHolds ==
  ASSUME BundlesInv
  PROVE  AttestedIsThisCall
  <1> SUFFICES ASSUME shown # None, Ran(Told), Told.upstream # None,
                      Told.upstream.by \in shown.options.keys, Accepted
               PROVE  /\ Told.upstream.by = Upstream
                           => UpstreamSignature(Told.id, Told.tool, Told.content) \in returned
                      /\ Told.upstream.by = Stripe => Delivery(Stripe, Told.at, Told.content) \in returned
                      /\ Told.upstream.by = GitHub
                           => \E t \in Times : Delivery(GitHub, t, Told.content) \in returned
                      /\ Told.upstream.by \in {Upstream, Stripe, GitHub}
    BY DEF AttestedIsThisCall
  <1>1. PICK u : u = Told.upstream
    OBVIOUS
  <1>2. UpstreamChecks(Told, shown.options, CheckProvider(Told)) = {}
    BY VerifiedMeans DEF Accepted, Told
  <1>3. IF IsProvider(u) THEN CheckProvider(Told) ELSE CheckUpstream(Told, u)
    BY <1>1, <1>2, UpstreamFound
  <1>4. u \in returned /\ Made(u)
    BY <1>1, ShownIs DEF ToldInv, BundlesInv
  <1>5. u.by \in {Upstream, Stripe, GitHub}
    BY <1>1, ShownIs DEF ShownInv
  <1>6. CASE u.by = Upstream
    <2>1. CheckUpstream(Told, u) /\ Upstream # Stripe /\ Upstream # GitHub
      BY <1>3, <1>6, BundlesAssumption DEF IsProvider
    <2>2. u = UpstreamSignature(u.id, u.tool, u.content)
      BY <1>4, <1>6, <2>1 DEF Made
    <2>3. u = UpstreamSignature(Told.id, Told.tool, Told.content)
      BY <2>1, <2>2 DEF CheckUpstream
    <2> QED
      BY <1>1, <1>4, <1>6, <2>1, <2>3
  <1>7. CASE u.by = Stripe
    <2>1. CheckProvider(Told) /\ Stripe # Upstream /\ Stripe # GitHub
      BY <1>3, <1>7, BundlesAssumption DEF IsProvider
    <2>2. u = Delivery(Stripe, u.at, u.content)
      BY <1>4, <1>7, <2>1 DEF Made
    <2>3. u = Delivery(Stripe, Told.at, Told.content)
      BY <1>1, <1>7, <2>1, <2>2 DEF CheckProvider
    <2> QED
      BY <1>1, <1>4, <1>7, <2>1, <2>3
  <1>8. CASE u.by = GitHub
    <2>1. CheckProvider(Told) /\ GitHub # Upstream /\ GitHub # Stripe
      BY <1>3, <1>8, BundlesAssumption DEF IsProvider
    <2>2. u = Delivery(GitHub, u.at, u.content) /\ u.at \in Times
      BY <1>4, <1>8, <2>1 DEF Made
    <2>3. u = Delivery(GitHub, u.at, Told.content)
      BY <1>1, <2>1, <2>2 DEF CheckProvider
    <2> QED
      BY <1>1, <1>4, <1>8, <2>1, <2>2, <2>3
  <1> QED
    BY <1>1, <1>5, <1>6, <1>7, <1>8

(* An accepted bundle is of one call, whoever put its parts together: its  *)
(* receipt is at its place in the log, its authorization is of that call   *)
(* and came before, and what vouches for its result was made for that call *)
(* (verifyBundle, checkUpstream, checkProvider).                           *)
THEOREM AcceptedIsOfOneCall == Spec => []AcceptedIsOneCall
  <1>1. BundlesInv => AcceptedIsOneCall
    BY InTheLogHolds, AuthorizedFirstHolds, AttestedHolds DEF AcceptedIsOneCall
  <1> QED
    BY <1>1, BundlesInvariant, PTL

------------------------------------------------------------------------------
(* What the gateway issues.                                                *)

LEMMA PolicyPasses ==
  ASSUME NEW st, NEW n, StInv(st, n), st.status \in Ends
  PROVE  PolicyChecks(st) = {}
  <1>1. IF st.decision = "allow" \/ ~st.enforced THEN st.status # "denied" ELSE st.status = "denied"
    BY DEF StInv, Ends
  <1>2. ~(st.decision = "allow" /\ st.errors)
    BY DEF StInv
  <1>3. Check("policy decision consistent with execution",
              IF st.decision = "allow" \/ ~st.enforced
              THEN ~(st.status = "denied") ELSE st.status = "denied") = {}
    BY ONLY <1>1, Zenon DEF Check
  <1>4. Check("no policy errors on an allow", ~(st.decision = "allow" /\ st.errors)) = {}
    BY <1>2 DEF Check
  <1> QED
    BY <1>3, <1>4 DEF PolicyChecks

LEMMA AuthorizationPasses ==
  ASSUME NEW b, OwnInv(b)
  PROVE  AuthorizationChecks(b) = {}
  <1> DEFINE a == b.env.st.authorization
  <1>1. CASE a = None
    BY <1>1 DEF AuthorizationChecks
  <1>2. CASE a # None
    <2>1. /\ a.env.by = Issuer /\ a.env.type = "authorization" /\ SameCall(a.env.st, b.env.st)
          /\ HeadInv(a.head) /\ VerifyInclusion(a.env, a.inclusion, a.head.root)
          /\ a.inclusion.index \in Nat /\ a.inclusion.index < b.inclusion.index
          /\ a.inclusion.size \in Nat /\ a.inclusion.size < b.inclusion.index
      BY <1>2 DEF OwnInv, StInv, AuthInv
    <2>2. b.inclusion.index \in DOMAIN b.head.root /\ b.inclusion.size = Len(b.head.root) /\ IsSeq(b.head.root)
      BY DEF OwnInv, HeadInv, StartOf, VerifyInclusion
    <2>3. b.inclusion.index \in 1..Len(b.head.root) /\ Len(b.head.root) \in Nat
      BY <2>2, SeqIs
    <2>4. Before(a, b)
      BY <2>1, <2>2, <2>3 DEF Before
    <2>5. a.head.by \in Logs
      BY <2>1 DEF HeadInv
    <2>6. /\ Check("authorization names this call", SameCall(a.env.st, b.env.st)) = {}
          /\ Check("authorization log inclusion proof", VerifyInclusion(a.env, a.inclusion, a.head.root)) = {}
          /\ Check("authorization logged before execution", Before(a, b)) = {}
      BY <2>1, <2>4 DEF Check
    <2>7. AuthorizationChecks(b) = UNION {
              Check("authorization names this call", SameCall(a.env.st, b.env.st)),
              Check("authorization log inclusion proof", VerifyInclusion(a.env, a.inclusion, a.head.root))
              \cup Check("authorization logged before execution", Before(a, b))}
      <3>1. /\ a # None /\ a.env.by = Issuer /\ a.env.type = "authorization"
            /\ ~(a.head.by \notin Logs \cup {Issuer})
        BY <1>2, <2>1, <2>5
      <3> QED
        BY ONLY <3>1, Zenon DEF AuthorizationChecks
    <2> QED
      BY ONLY <2>6, <2>7
  <1> QED
    BY <1>1, <1>2

LEMMA HeadPasses ==
  ASSUME BundlesInv, NEW b, OwnInv(b), NEW o, o.log = Home, o.copy = log[Home]
  PROVE  HeadChecks(b, o) = {}
  <1>1. b.head.by \in Logs /\ b.head.log = Home /\ b.head.size = b.inclusion.size
    BY DEF OwnInv, HeadInv
  <1>2. b.head.size = Len(b.head.root) /\ StartOf(b.head.root, log[Home]) /\ IsSeq(log[Home])
    BY BundlesAssumption DEF OwnInv, HeadInv, BundlesInv, LogInv
  <1>3. Len(log[Home]) \in Nat /\ Len(b.head.root) \in Nat /\ Len(log[Home]) >= b.head.size
    BY <1>2, SeqIs DEF StartOf
  <1>4. SubSeq(o.copy, 1, b.head.size) = b.head.root
    BY <1>2, StartIsSubSeq
  <1>5. CopyChecks(b.head, o.copy) = {}
    BY <1>3, <1>4 DEF CopyChecks, Check
  <1>6. VerifyInclusion(b.env, b.inclusion, b.head.root)
    BY DEF OwnInv
  <1>7. /\ Check("tree head names the expected log", o.log # None => b.head.log = o.log) = {}
        /\ Check("tree head matches inclusion proof size", b.head.size = b.inclusion.size) = {}
        /\ Check("log inclusion proof", VerifyInclusion(b.env, b.inclusion, b.head.root)) = {}
    BY <1>1, <1>6 DEF Check
  <1>8. HeadChecks(b, o) = UNION {
          Check("tree head names the expected log", o.log # None => b.head.log = o.log),
          Check("tree head matches inclusion proof size", b.head.size = b.inclusion.size),
          Check("log inclusion proof", VerifyInclusion(b.env, b.inclusion, b.head.root)),
          CopyChecks(b.head, o.copy)}
    BY <1>1 DEF HeadChecks
  <1>9. HeadChecks(b, o) = UNION {{}, {}, {}, {}}
    BY <1>5, <1>7, <1>8, Zenon
  <1> QED
    BY <1>9

LEMMA IssuedHolds ==
  ASSUME BundlesInv
  PROVE  IssuedVerifies
  <1> SUFFICES ASSUME NEW b \in Own, NEW st, st = b.env.st, NEW g, g = Leaf(st.grant),
                      DelegationValidAt(g, st.at), Ran(st) => st.tool \in g.scopes,
                      NEW o, o = [log |-> Home, keys |-> {}, copy |-> log[Home]]
               PROVE  Failures(b, o) = {}
    BY DEF IssuedVerifies, ReceiptVerifies, Verified
  <1>1. OwnInv(b) /\ StInv(st, b.inclusion.index)
    BY ToldOfOwn DEF OwnInv
  <1>2. VerifyDelegation(chain)
    <2>1. bundles # <<>>
      BY EmptySeq DEF Own
    <2> QED
      BY <2>1 DEF BundlesInv, SessionInv
  <1>3. st.grant = chain /\ chain # <<>> /\ g = Leaf(chain)
    BY <1>1, <1>2, AcceptedStarts DEF StInv, BundlesInv, ChainInv
  <1>4. GrantChecks(st, VerifyDelegation(st.grant)) = {}
    <2>1. Binds(st, g)
      BY <1>1, <1>3 DEF Binds, StInv
    <2> QED
      BY <1>2, <1>3, <2>1 DEF GrantChecks, Check
  <1>5. UpstreamChecks(st, o, CheckProvider(st)) = {}
    BY DEF UpstreamChecks
  <1>6. PolicyChecks(st) = {}
    BY <1>1, PolicyPasses DEF OwnInv
  <1>7. AuthorizationChecks(b) = {} /\ HeadChecks(b, o) = {}
    BY <1>1, AuthorizationPasses, HeadPasses
  <1>8. /\ Check("issuer keyid matches signer", st.keyid = b.env.by) = {}
        /\ Check("gateway receipt carries a delegation", st.kind = "gateway" => st.grant # <<>>) = {}
        /\ Check("gateway receipt carries a policy decision", st.kind = "gateway" => st.decision # "none") = {}
        /\ Check("request args digest", st.args = st.digest) = {}
    BY <1>1, <1>3 DEF OwnInv, StInv, Check
  <1>9. b.env.by = Issuer /\ b.env.type = "receipt"
    BY <1>1 DEF OwnInv
  <1>10. Failures(b, o) = UNION {
        Check("issuer keyid matches signer", st.keyid = b.env.by),
        Check("gateway receipt carries a delegation", st.kind = "gateway" => st.grant # <<>>),
        Check("gateway receipt carries a policy decision", st.kind = "gateway" => st.decision # "none"),
        GrantChecks(st, VerifyDelegation(st.grant)),
        Check("request args digest", st.args = st.digest),
        UpstreamChecks(st, o, CheckProvider(st)), PolicyChecks(st), AuthorizationChecks(b), HeadChecks(b, o)}
    BY <1>9 DEF Failures, FailuresBy
  <1>11. Failures(b, o) = UNION {{}, {}, {}, {}, {}, {}, {}, {}, {}}
    BY <1>4, <1>5, <1>6, <1>7, <1>8, <1>10, Zenon
  <1> QED
    BY <1>11

(* Every receipt the gateway issues goes on verifying, against its log and *)
(* a copy of it as it has grown since, provided the grant's window held at *)
(* the time and the tool was granted (handleCall, issue, verifyBundle).    *)
THEOREM WhatIsIssuedVerifies == Spec => []IssuedVerifies
  BY IssuedHolds, BundlesInvariant, PTL
================================================================================
