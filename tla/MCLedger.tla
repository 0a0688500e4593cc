------------------------------ MODULE MCLedger ------------------------------
EXTENDS EventStores, Reports, TLC

CONSTANTS none, any, x, y, w1, w2

(* Subjects and writers are only compared: no property tells two apart.    *)
Symmetry == Permutations({x, y}) \cup Permutations({w1, w2})

=============================================================================
