--------------------------- MODULE MCMemoryServer ---------------------------
EXTENDS Stores

CONSTANTS none, p, c1, c2

=============================================================================
