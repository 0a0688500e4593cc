------------------------------ MODULE MCPortal ------------------------------
(* Portal on small sets.  Two providers number a subject of their own alike; *)
(* the two are different people.                                            *)
EXTENDS Portal, TLC

CONSTANTS u1, u2

MCIdentities == {<<"github", "7">>, <<"google", "7">>}
MCAddresses  == [i \in MCIdentities |-> IF i[1] = "github" THEN {u1} ELSE {u2}]
Symmetry     == Permutations(Requests) \cup Permutations(Tenants) \cup Permutations(Subs)
=============================================================================
