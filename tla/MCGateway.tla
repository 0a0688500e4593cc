------------------------------ MODULE MCGateway ------------------------------
(* Gateway.tla on small instances: model values for calls and sessions,    *)
(* which are interchangeable.                                              *)
EXTENDS Gateway, FiniteSets, TLC

CONSTANTS c1, c2, s1, s2

MCSymmetry == Permutations(Calls) \cup Permutations(Sessions)
==============================================================================
