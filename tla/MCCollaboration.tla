-------------------------- MODULE MCCollaboration --------------------------
(* Two users, two calls in flight and four calls in all: a creation, a     *)
(* join and two handoffs fit, so do a leave and a rejoin.                  *)
EXTENDS Collaboration, TLC

ReadWrite == {"read", "write"}

MCJoinPerms == {ReadWrite, {"owner"}}

MCDefaultPerms == {ReadWrite}

Symmetry == Permutations(Requests)
=============================================================================
