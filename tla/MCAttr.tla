-------------------------------- MODULE MCAttr --------------------------------
(* Small instances of DbfsAttr for TLC. *)
EXTENDS DbfsAttr, TLC

Super == [uid |-> 0, gid |-> 0]
User == [uid |-> 1, gid |-> 1]

BothCreds == {Super, User}
SpecialModes == {{8, 7, 6} \cup S_ISUID \cup S_ISGID, {8, 7, 6, 3} \cup S_ISUID \cup S_ISGID}

Ask(kinds, mode, uid, gid) == [kinds |-> kinds, mode |-> mode, uid |-> uid, gid |-> gid]
SomeRequests ==
  {Ask(kinds, {8, 7, 5}, None, None) : kinds \in SUBSET {"mode", "size", "times"}}
  \cup {Ask({}, {}, uid, gid) : uid, gid \in {1, None}}
  \cup {Ask({"mode"}, {8, 7, 6} \cup S_ISUID, 1, None), Ask({}, {}, 0, None)}
Prefix == [k \in {"user.a", "trusted.a", "size"} |->
             IF k = "user.a" THEN "user." ELSE IF k = "trusted.a" THEN "trusted." ELSE "other"]
=============================================================================
