------------------------------- MODULE MCMount -------------------------------
(* Small instances of DbfsMount for TLC. *)
EXTENDS DbfsMount

CONSTANTS t1, t2
=============================================================================
