----------------------------- MODULE MCWitness -----------------------------
EXTENDS Witness

CONSTANTS none, p1, w1, w2

============================================================================
