-------------------------------- MODULE MCFile --------------------------------
(* Small instances of DbfsFile for TLC. *)
EXTENDS DbfsFile, TLC

CONSTANTS f1, t1, t2

Symm == Permutations(Threads)

SetuidMode == S_IFREG \cup S_ISUID \cup Perm777
=============================================================================
