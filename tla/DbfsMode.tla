------------------------------ MODULE DbfsMode ------------------------------
(***************************************************************************)
(* The 16-bit mode word of an inode (DbfsPermission, a bitflags type over  *)
(* u16) as the set of the positions of its one bits.  The flags that give  *)
(* the file type overlap: S_IFSOCK and S_IFBLK include the bit of S_IFDIR, *)
(* S_IFLNK includes the bit of S_IFCHR.  The code tests them with          *)
(* `contains', so the overlap is kept here.  Then the rules of access and  *)
(* of ownership that the handlers share.                                   *)
(***************************************************************************)
EXTENDS Integers

Bit == 0..15

S_IFSOCK == {15, 14}
S_IFLNK == {15, 13}
S_IFREG == {15}
S_IFBLK == {14, 13}
S_IFDIR == {14}
S_IFCHR == {13}
S_IFIFO == {12}
S_ISUID == {11}
S_ISGID == {10}
S_ISVTX == {9}
S_IXUSR == {6}
S_IXGRP == {3}
S_IXOTH == {0}

S_IFMT == 12..15
Perm777 == 0..8

ACCESS_R_OK == {2}
ACCESS_W_OK == {1}
ACCESS_X_OK == {0}

FileTypes == {S_IFSOCK, S_IFLNK, S_IFREG, S_IFBLK, S_IFDIR, S_IFCHR, S_IFIFO}

(* bitflags: value.contains(flag) *)
Has(mode, flag) == flag \subseteq mode

(* mode >> k *)
Shift(mode, k) == {b - k : b \in {c \in mode : c >= k}}

(* DbfsFileType::from: the order of the tests resolves the overlaps. *)
DbfsFileType(mode) ==
  IF Has(mode, S_IFSOCK) THEN "Socket"
  ELSE IF Has(mode, S_IFLNK) THEN "Symlink"
  ELSE IF Has(mode, S_IFREG) THEN "RegularFile"
  ELSE IF Has(mode, S_IFBLK) THEN "BlockDevice"
  ELSE IF Has(mode, S_IFDIR) THEN "Directory"
  ELSE IF Has(mode, S_IFCHR) THEN "CharDevice"
  ELSE "NamedPipe"

IsDirectory(mode) == DbfsFileType(mode) = "Directory"

(* May uid/gid use the bits of mask on an inode of p_uid/p_gid?  Root reads  *)
(* and writes anything and executes what somebody may execute.               *)
checkout_access(p_uid, p_gid, mode, uid, gid, mask) ==
  IF uid = 0
  THEN mask \cap ACCESS_X_OK \subseteq Shift(mode, 6) \cup Shift(mode, 3) \cup mode
  ELSE mask \subseteq Shift(mode, IF p_uid = uid THEN 6 ELSE IF p_gid = gid THEN 3 ELSE 0)

(* The group of a new inode. *)
creation_gid(p_gid, mode, gid) == IF Has(mode, S_ISGID) THEN p_gid ELSE gid

clear_suid_sgid(mode) ==
  IF Has(mode, S_IXGRP) THEN mode \ (S_ISUID \cup S_ISGID) ELSE mode \ S_ISUID

-----------------------------------------------------------------------------
(* chmod and chown of an inode b, a record with mode, uid and gid, by       *)
(* caller c.                                                                *)

None == -1     \* an Option that is None

ChmodDenied(c, b) == c.uid # 0 /\ (c.uid # b.uid \/ c.gid # b.gid)

ChmodMode(mode, m) == (mode \cap S_IFMT) \cup (m \cap Perm777)

ChownDenied(c, b, uid, gid) ==
  /\ c.uid # 0
  /\ \/ gid # None /\ (c.gid # gid \/ c.uid # b.uid)
     \/ uid # None /\ (uid # b.uid \/ c.uid # b.uid)

ChownMode(mode, uid, gid) ==
  LET execs == mode \cap (S_IXUSR \cup S_IXGRP \cup S_IXOTH) # {}
  IN (IF execs THEN clear_suid_sgid(mode) ELSE mode)
     \ ((IF uid # None THEN S_ISUID ELSE {}) \cup (IF gid # None THEN S_ISGID ELSE {}))

Chowned(b, uid, gid) ==
  [b EXCEPT !.uid = IF uid = None THEN @ ELSE uid,
            !.gid = IF gid = None THEN @ ELSE gid,
            !.mode = ChownMode(@, uid, gid)]
=============================================================================
