----------------------------- MODULE MCNamespace -----------------------------
(* Small instances of DbfsNamespace for TLC. *)
EXTENDS DbfsNamespace, TLC

CONSTANTS a, b

MCNames == {a, b}
Symm == Permutations(MCNames)

Super == [uid |-> 0, gid |-> 0]
User == [uid |-> 1, gid |-> 1]
Other == [uid |-> 2, gid |-> 1]

RWX == Perm777
RX == Perm777 \ {7, 4, 1}
Sticky == Perm777 \cup S_ISVTX

OneCred == {Super}
TwoCreds == {User, Other}
PlainModes == {RWX}
StickyModes == {Sticky}
NoModes == {}
ReadOnly == {RX}
Files == {S_IFREG}
Symlinks == {S_IFLNK}
Move == {"NONE"}
MoveExchange == {"NONE", "EXCHANGE"}
=============================================================================
