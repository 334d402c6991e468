------------------------------ MODULE MCSocket ------------------------------
(* Small instances of Socket for TLC. *)
EXTENDS Socket, TLC
=============================================================================
