------------------------------ MODULE MCTenancy ------------------------------
(* Tenancy on small sets.  Requests and operations are interchangeable.     *)
EXTENDS Tenancy, TLC

Symmetry == Permutations(Requests) \cup Permutations(Admins)
==============================================================================
