----------------------------- MODULE MCNetwork -----------------------------
(* Sandboxes created and torn down at the same time, for TLC. *)
EXTENDS Network, TLC

Symmetry == Permutations(Names)
=============================================================================
