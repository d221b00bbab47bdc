-------------------------- MODULE MCWatchtowerJob --------------------------
(* Two runs, one with a builtAt of its own, and two jobs that may overlap: *)
(* two rows are a chain, a fork or a run attested twice.                   *)
EXTENDS WatchtowerJob, TLC

CONSTANTS r1, r2

MCBuiltAt == r1 :> NoTime @@ r2 :> 1

Symmetry == Permutations(Jobs)
=============================================================================
