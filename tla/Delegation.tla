----------------------------- MODULE Delegation -----------------------------
(***************************************************************************)
(* Delegation grants and their verification (receipts/src/delegation.ts,   *)
(* and site/verifier/verify-web.ts for the browser's).                     *)
(*                                                                         *)
(* A grant embeds the one it was delegated from, so that a signature on it *)
(* is over the whole chain.  The model keeps the chain as a sequence, the  *)
(* principal's grant first: a link is a grant and the key whose signature  *)
(* over it, with all that it embeds, verifies; NoKey if there is none.     *)
(***************************************************************************)
EXTENDS Integers, Sequences

CONSTANTS
    Principals,   \* who signs grants; a key has the name of its holder
    Agents,
    Trusted,      \* the principal keys a verifier is given
    Tools,
    Times,        \* moments: instants a grant or a receipt may name
    NoKey,
    MaxDepth      \* MAX_DELEGATION_DEPTH

ASSUME DelegationAssumption ==
    /\ Trusted \subseteq Principals
    /\ Times \subseteq Int
    /\ NoKey \notin Principals \cup Agents
    /\ MaxDepth \in 1..4

Keys == Principals \cup Agents

\* The payload, less the parent it embeds.
Grants == [principal : Principals, agent : Agents, scopes : SUBSET Tools,
           from : Times, to : Times, agentKey : Agents \cup {NoKey}]
Links  == [grant : Grants, by : Keys \cup {NoKey}]

Leaf(chain) == chain[Len(chain)].grant

\* DelegationSchema: at least one scope.  The browser's shape asks for no more than a list.
SchemaOk(g) == g.scopes # {}

\* verifyDelegation's checks of a link against the one it embeds.
LinkOk(up, link) ==
    /\ up.grant.agentKey # NoKey /\ link.by = up.grant.agentKey
    /\ link.grant.principal = up.grant.principal
    /\ link.grant.scopes \subseteq up.grant.scopes
    /\ link.grant.from >= up.grant.from /\ link.grant.to <= up.grant.to

VerifyDelegation(chain) ==
    /\ Len(chain) \in 1..MaxDepth
    /\ \A i \in DOMAIN chain : SchemaOk(chain[i].grant)
    /\ chain[1].by \in Trusted
    /\ \A i \in 2..Len(chain) : LinkOk(chain[i - 1], chain[i])

\* The browser's walk of the same chain.
WebLinkOkAnyStart(up, link) ==
    /\ up.grant.agentKey # NoKey /\ link.by = up.grant.agentKey
    /\ link.grant.principal = up.grant.principal
    /\ \A s \in link.grant.scopes : s \in up.grant.scopes
    /\ link.grant.to <= up.grant.to
WebLinkOk(up, link) ==
    /\ up.grant.agentKey # NoKey /\ link.by = up.grant.agentKey
    /\ link.grant.principal = up.grant.principal
    /\ \A s \in link.grant.scopes : s \in up.grant.scopes
    /\ ~(link.grant.from < up.grant.from \/ link.grant.to > up.grant.to)

WebVerifyDelegation(chain) ==
    /\ chain # <<>> /\ ~(Len(chain) > MaxDepth)
    /\ chain[1].by \in Trusted
    /\ \A i \in 2..Len(chain) : WebLinkOk(chain[i - 1], chain[i])

DelegationValidAt(g, at) == g.from <= at /\ at <= g.to

\* createDelegation: a principal signs a grant of its own.
CreateDelegation(chain, g, by) == Append(chain, [grant |-> g, by |-> by])

\* delegateFrom: refused before signing when the key is not the one the parent names, or the new
\* grant asks for more than the parent has.  It does not verify the parent, nor count its depth.
MayDelegate(chain, key, g) ==
    LET p == Leaf(chain) IN
    /\ SchemaOk(p) /\ SchemaOk(g)
    /\ p.agentKey # NoKey /\ key = p.agentKey
    /\ g.principal = p.principal
    /\ g.scopes \subseteq p.scopes
    /\ ~(g.from < p.from \/ g.to > p.to)
=============================================================================
