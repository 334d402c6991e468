--------------------------- MODULE MCDescriptors ---------------------------
(* Small instances of Descriptors for TLC. *)
EXTENDS Descriptors, TLC

Symmetry == Permutations(Threads)
=============================================================================
