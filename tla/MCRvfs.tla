-------------------------------- MODULE MCRvfs --------------------------------
(* Small instances of DbfsRvfs for TLC. *)
EXTENDS DbfsRvfs, TLC

CONSTANTS a, b, x1, x2, x3

MCNames == {a, b}
MCPlaces == {RootPlace, x1, x2, x3}
FilesAndDirs == {S_IFREG, S_IFDIR}
Symm == Permutations(MCNames) \cup Permutations({x1, x2, x3})
=============================================================================
