------------------------------ MODULE MCBundles ------------------------------
(* Bundles on small sets.                                                   *)
EXTENDS Bundles

CONSTANTS alice, bob, a1, a2, t1, t2

MCTimes == {0, 1}
AGrant(p, a, s, f, k) == [principal |-> p, agent |-> a, scopes |-> s, from |-> f, to |-> 1, agentKey |-> k]
MCAsked == {AGrant(alice, a1, {t1, t2}, 0, a1), AGrant(alice, a1, {t1, t2}, 1, a1),
            AGrant(alice, a2, {t2}, 1, a2), AGrant(bob, a2, {t2}, 1, NoKey)}
MCVouchedBy == [t \in Tools |-> IF t = t1 THEN Stripe ELSE Upstream]
==============================================================================
