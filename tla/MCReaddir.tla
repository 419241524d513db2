------------------------------ MODULE MCReaddir ------------------------------
(* Small instances of DbfsReaddir for TLC. *)
EXTENDS DbfsReaddir, TLC

CONSTANTS l1, l2

Symm == Permutations(Listers)
=============================================================================
