------------------------------- MODULE DbfsAttr -------------------------------
(***************************************************************************)
(* The attributes of one file: mode, owner, times and the extended         *)
(* attributes, which are further keys of the inode's bucket.  The actions  *)
(* are the requests of the FUSE front end, one step each.  setattr stands  *)
(* for chmod, chown, truncate and utimens.  What truncate does to the      *)
(* contents is in DbfsFile; atime, which nothing but utimens sets, is left *)
(* out.                                                                    *)
(***************************************************************************)
EXTENDS DbfsMode

CONSTANTS
  Creds,        \* the callers, [uid, gid] records
  Creators,     \* those of them who may have created the file
  CreateModes,  \* permission words the file may have been created with
  Requests,     \* what is asked of setattr
  Keys,         \* attribute names that are asked for
  Namespace,    \* their prefix: a function from Keys
  MaxLen,       \* bound on the length of a value, which stands for the value
  MaxTime       \* bound on the clock

Prefixes == {"user.", "acl", "system.", "trusted.", "security.", "other"}

(* kinds: which of mode, size and times a request gives; uid and gid are    *)
(* None when it does not give them.                                         *)
Setattr ==
  [kinds : SUBSET {"mode", "size", "times"}, mode : SUBSET (0..11),
   uid : Nat \cup {None}, gid : Nat \cup {None}]

ASSUME AttrAssumption ==
  /\ Creds \subseteq [uid : Nat, gid : Nat] /\ Creators \subseteq Creds
  /\ CreateModes \subseteq SUBSET (0..11)
  /\ Requests \subseteq Setattr
  /\ Namespace \in [Keys -> Prefixes]     \* "acl": system.posix_acl_access
  /\ MaxLen \in Nat \ {0} /\ MaxTime \in Nat

VARIABLES
  inode,     \* mode, uid, gid, mtime, ctime and xattr
  now,       \* the system clock
  changed,   \* history: when an attribute was last changed
  reply      \* the last reply

vars == <<inode, now, changed, reply>>

NoValue == -1
Lengths == 0..MaxLen
Times == 0..MaxTime

Results == {"none", "Ok", "PermissionDenied", "AccessError", "NotSupported",
            "NoData", "RangeError", "NoSpace", "EIO"}

-----------------------------------------------------------------------------
(* No transaction is committed. *)
Fail(res) == reply' = res /\ UNCHANGED <<inode, changed>>

SansCtime(b) == [b EXCEPT !.ctime = 0]

(* A transaction that leaves the inode as b is committed. *)
Commit(b) ==
  /\ inode' = b
  /\ changed' = IF SansCtime(b) = SansCtime(inode) THEN changed ELSE now
  /\ reply' = "Ok"

MayAccess(c, mode, mask) ==
  checkout_access(inode.uid, inode.gid, mode, c.uid, c.gid, mask)

-----------------------------------------------------------------------------
(* setattr: only the first kind of attribute that the request gives is set. *)

(* dbfs_common_chmod: nothing is written when the mode stays the same. *)
Chmod(c, m) ==
  LET mode == ChmodMode(inode.mode, m)
  IN \/ ChmodDenied(c, inode) /\ Fail("PermissionDenied")
     \/ ~ChmodDenied(c, inode) /\ mode = inode.mode /\ Fail("Ok")
     \/ /\ ~ChmodDenied(c, inode) /\ mode # inode.mode
        /\ Commit([inode EXCEPT !.mode = mode, !.ctime = now])

ChownWritesNone(uid, gid) == [inode EXCEPT !.uid = uid, !.gid = gid, !.ctime = now]

ChownKeepsSetuid(uid, gid) ==
  [Chowned(inode, uid, gid) EXCEPT !.mode = inode.mode, !.ctime = now]

ChownKeepsSetgid(uid, gid) ==
  [Chowned(inode, uid, gid) EXCEPT !.mode = ChownMode(inode.mode, uid, None), !.ctime = now]

ChownedInode(uid, gid) == [Chowned(inode, uid, gid) EXCEPT !.ctime = now]

(* dbfs_common_chown *)
Chown(c, uid, gid) ==
  \/ ChownDenied(c, inode, uid, gid) /\ Fail("PermissionDenied")
  \/ ~ChownDenied(c, inode, uid, gid) /\ Commit(ChownedInode(uid, gid))

(* dbfs_common_truncate, with the space accounting of DbfsFile. *)
Truncate(c) ==
  \/ ~MayAccess(c, inode.mode, ACCESS_W_OK) /\ Fail("AccessError")
  \/ MayAccess(c, inode.mode, ACCESS_W_OK) /\ Fail("NoSpace")
  \/ /\ MayAccess(c, inode.mode, ACCESS_W_OK)
     /\ Commit([inode EXCEPT !.mode = clear_suid_sgid(@), !.mtime = now, !.ctime = now])

UtimensForgetsCtime(time) == [inode EXCEPT !.mtime = time]

UtimensInode(time) == [inode EXCEPT !.mtime = time, !.ctime = now]

(* dbfs_common_utimens: of a file that is not root's, only its owner.  With *)
(* atime alone mtime stays, which is the case of a time equal to it.        *)
Utimens(c, time) ==
  LET owner == inode.uid = c.uid
      writes == MayAccess(c, inode.mode \cap Perm777, ACCESS_W_OK)
  IN \/ ~owner /\ inode.uid # 0 /\ Fail("PermissionDenied")
     \/ ~owner /\ inode.uid = 0 /\ ~writes /\ Fail("AccessError")
     \/ (owner \/ (inode.uid = 0 /\ writes)) /\ Commit(UtimensInode(time))

(* The reply of a request that gives nothing is dropped, which fuser        *)
(* answers with an I/O error.                                               *)
setattr(c, r, time) ==
  LET owner == r.uid # None \/ r.gid # None
  IN /\ \/ "mode" \in r.kinds /\ Chmod(c, r.mode)
        \/ "mode" \notin r.kinds /\ owner /\ Chown(c, r.uid, r.gid)
        \/ "mode" \notin r.kinds /\ ~owner /\ "size" \in r.kinds /\ Truncate(c)
        \/ r.kinds = {"times"} /\ ~owner /\ Utimens(c, time)
        \/ r.kinds = {} /\ ~owner /\ Fail("EIO")
     /\ UNCHANGED now

-----------------------------------------------------------------------------
(* Extended attributes.                                                     *)

(* parse_xattr_namespace and xattr_access_check *)
XattrError(c, k, mask) ==
  CASE Namespace[k] = "other" -> "NotSupported"
    [] Namespace[k] \in {"user.", "acl"} ->
         IF MayAccess(c, inode.mode \cap Perm777, mask) THEN "Ok" ELSE "PermissionDenied"
    [] Namespace[k] \in {"system.", "trusted."} ->
         IF c.uid = 0 THEN "Ok" ELSE "PermissionDenied"
    [] Namespace[k] = "security." ->
         IF mask = ACCESS_R_OK \/ c.uid = 0 THEN "Ok" ELSE "PermissionDenied"

(* dbfs_common_setxattr *)
setxattr(c, k, len) ==
  LET error == XattrError(c, k, ACCESS_R_OK)
  IN /\ \/ error # "Ok" /\ Fail(error)
        \/ error = "Ok" /\ Commit([inode EXCEPT !.xattr[k] = len, !.ctime = now])
     /\ UNCHANGED now

(* dbfs_common_getxattr; a caller asks for the length with an empty buffer. *)
getxattr(c, k, size) ==
  LET error == XattrError(c, k, ACCESS_R_OK)
      len == inode.xattr[k]
  IN /\ \/ error # "Ok" /\ Fail(error)
        \/ error = "Ok" /\ len = NoValue /\ Fail("NoData")
        \/ error = "Ok" /\ len # NoValue /\ (size = 0 \/ size >= len) /\ Fail("Ok")
        \/ error = "Ok" /\ size # 0 /\ size < len /\ Fail("RangeError")
     /\ UNCHANGED now

(* The end of dbfs_common_removexattr: the key is deleted and ctime put in  *)
(* a transaction that is dropped, not committed.                            *)
RemoveDropped(k) == Fail("Ok")

removexattr(c, k) ==
  LET error == XattrError(c, k, ACCESS_W_OK)
  IN /\ \/ error # "Ok" /\ Fail(error)
        \/ error = "Ok" /\ inode.xattr[k] = NoValue /\ Fail("NoData")
        \/ error = "Ok" /\ inode.xattr[k] # NoValue /\ RemoveDropped(k)
     /\ UNCHANGED now

-----------------------------------------------------------------------------
Tick ==
  /\ now < MaxTime
  /\ now' = now + 1
  /\ UNCHANGED <<inode, changed, reply>>

(* dbfs_common_create, as far as the attributes go: only root creates       *)
(* setuid and setgid files, and a setgid one gets the group of its          *)
(* directory, here p's.                                                     *)
CreatedMode(c, m) ==
  S_IFREG \cup (IF c.uid # 0 THEN m \ (S_ISUID \cup S_ISGID) ELSE m)

Init ==
  /\ \E c \in Creators, p \in Creds, m \in CreateModes :
       inode = [mode |-> CreatedMode(c, m), uid |-> c.uid, gid |-> creation_gid(p.gid, m, c.gid),
                mtime |-> 0, ctime |-> 0, xattr |-> [k \in Keys |-> NoValue]]
  /\ now = 0 /\ changed = 0
  /\ reply = "none"

Next ==
  \/ Tick
  \/ \E c \in Creds :
       \/ \E r \in Requests, time \in Times : setattr(c, r, time)
       \/ \E k \in Keys :
            \/ \E len \in Lengths : setxattr(c, k, len)
            \/ \E size \in Lengths : getxattr(c, k, size)
            \/ removexattr(c, k)

Spec == Init /\ [][Next]_vars

-----------------------------------------------------------------------------
(* Properties.                                                              *)

(* A complete inode, a clock and replies of their types. *)
TypeOK ==
  /\ inode \in [mode : SUBSET Bit, uid : Nat, gid : Nat,
                mtime : Times, ctime : Times, xattr : [Keys -> Lengths \cup {NoValue}]]
  /\ now \in Times /\ changed \in Times
  /\ reply \in Results

(* A setuid file is root's, after any history of chmod, chown and truncate: *)
(* dbfs_common_chown takes the bit away whenever it gives a file an owner.  *)
SetuidIsRoots == Has(inode.mode, S_ISUID) => inode.uid = 0

(* "Time of last change": ctime is not older than the last change that      *)
(* chmod, chown, truncate, utimens or setxattr made, and not in the future. *)
CtimeCoversChanges == changed <= inode.ctime /\ inode.ctime <= now

(* The setgid bit stays with the group that the file was created with: no   *)
(* request sets it, and the one that gives the file another group,          *)
(* dbfs_common_chown, takes it away, also from a file that the group cannot *)
(* execute and whose bit truncate leaves alone.                             *)
SetgidKeepsGroup ==
  [][Has(inode'.mode, S_ISGID) => Has(inode.mode, S_ISGID) /\ inode'.gid = inode.gid]_vars
=============================================================================
