--------------------------- MODULE MCSessionStore ---------------------------
(* Two nodes, two calls in flight.                                         *)
EXTENDS SessionStore, TLC

CONSTANTS n1, n2, c1, c2

MCNodes == {n1, n2}
MCCalls == {c1, c2}
MCSymmetry == Permutations(MCNodes) \cup Permutations(MCCalls)
=============================================================================
