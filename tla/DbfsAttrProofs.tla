---------------------------- MODULE DbfsAttrProofs ----------------------------
(***************************************************************************)
(* Proofs about DbfsAttr, for any callers, requests, attribute names and   *)
(* bounds.                                                                 *)
(***************************************************************************)
EXTENDS DbfsAttr, TLAPS

IInv == TypeOK /\ SetuidIsRoots /\ CtimeCoversChanges

(* What every committed inode satisfies. *)
InodeOK(b) ==
  /\ b \in [mode : SUBSET Bit, uid : Nat, gid : Nat, mtime : Times, ctime : Times,
            xattr : [Keys -> Lengths \cup {NoValue}]]
  /\ Has(b.mode, S_ISUID) => b.uid = 0

-----------------------------------------------------------------------------
(* The mode words that chmod, chown and truncate compute, and the one a     *)
(* file is created with, are words again, and none of them has a setuid bit *)
(* that it should not have.                                                 *)
LEMMA ModeFacts ==
  ASSUME NEW mode \in SUBSET Bit
  PROVE  /\ \A m \in SUBSET (0..11) :
              ChmodMode(mode, m) \in SUBSET Bit /\ ~Has(ChmodMode(mode, m), S_ISUID)
         /\ clear_suid_sgid(mode) \in SUBSET Bit /\ ~Has(clear_suid_sgid(mode), S_ISUID)
         /\ \A uid, gid :
              /\ ChownMode(mode, uid, gid) \subseteq mode
              /\ uid # None => ~Has(ChownMode(mode, uid, gid), S_ISUID)
<1>1. ASSUME NEW m \in SUBSET (0..11)
      PROVE  ChmodMode(mode, m) \in SUBSET Bit /\ ~Has(ChmodMode(mode, m), S_ISUID)
  BY DEF ChmodMode, Bit, Has, S_ISUID, S_IFMT, Perm777
<1>2. clear_suid_sgid(mode) \subseteq mode /\ 11 \notin clear_suid_sgid(mode)
  BY DEF clear_suid_sgid, S_ISUID, S_ISGID
<1>3. ASSUME NEW uid, NEW gid
      PROVE  /\ ChownMode(mode, uid, gid) \subseteq mode
             /\ uid # None => ~Has(ChownMode(mode, uid, gid), S_ISUID)
  BY <1>2 DEF ChownMode, Has, S_ISUID
<1>4. QED
  BY <1>1, <1>2, <1>3 DEF Has, S_ISUID

LEMMA CreatedModeFacts ==
  ASSUME NEW c \in Creds, NEW m \in SUBSET (0..11)
  PROVE  CreatedMode(c, m) \in SUBSET Bit /\ (Has(CreatedMode(c, m), S_ISUID) => c.uid = 0)
BY DEF CreatedMode, Bit, Has, S_IFREG, S_ISUID, S_ISGID

(* A chown leaves a sound inode. *)
LEMMA ChownedFacts ==
  ASSUME InodeOK(inode), now \in Times, NEW uid \in Nat \cup {None}, NEW gid \in Nat \cup {None}
  PROVE  InodeOK(ChownedInode(uid, gid)) /\ ChownedInode(uid, gid).ctime = now
<1> DEFINE a == Chowned(inode, uid, gid)
           b == ChownedInode(uid, gid)
           mode == ChownMode(inode.mode, uid, gid)
<1>a. a = [mode |-> mode, uid |-> IF uid = None THEN inode.uid ELSE uid,
           gid |-> IF gid = None THEN inode.gid ELSE gid, mtime |-> inode.mtime,
           ctime |-> inode.ctime, xattr |-> inode.xattr]
  <2> HIDE DEF mode
  <2>1. a = [inode EXCEPT !.uid = IF uid = None THEN inode.uid ELSE uid,
                          !.gid = IF gid = None THEN inode.gid ELSE gid, !.mode = mode]
    BY DEF Chowned, mode
  <2>2. QED
    BY <2>1 DEF InodeOK
<1>b. b = [a EXCEPT !.ctime = now]
  BY DEF ChownedInode
<1> HIDE DEF a, b
<1>1. /\ b.uid = IF uid = None THEN inode.uid ELSE uid
      /\ b.gid = IF gid = None THEN inode.gid ELSE gid
      /\ b.mode = mode /\ b.mtime = inode.mtime /\ b.ctime = now /\ b.xattr = inode.xattr
      /\ b = [mode |-> b.mode, uid |-> b.uid, gid |-> b.gid, mtime |-> b.mtime,
              ctime |-> b.ctime, xattr |-> b.xattr]
  BY <1>a, <1>b
<1>2. mode \subseteq inode.mode /\ (uid # None => ~Has(mode, S_ISUID))
  BY ModeFacts DEF InodeOK
<1>3. b.uid \in Nat /\ b.gid \in Nat
  BY <1>1 DEF InodeOK, None
<1>4. mode \in SUBSET Bit
  BY <1>2 DEF InodeOK
<1>5. Has(mode, S_ISUID) => b.uid = 0
  BY <1>1, <1>2 DEF InodeOK, Has
<1>6. QED
  BY <1>1, <1>3, <1>4, <1>5 DEF InodeOK, b

-----------------------------------------------------------------------------
(* A step that changes nothing but the reply.                               *)
LEMMA FailStep ==
  ASSUME IInv, NEW res \in Results, Fail(res), now' = now
  PROVE  IInv'
BY DEF IInv, TypeOK, SetuidIsRoots, CtimeCoversChanges, Fail

(* A committed transaction that sets ctime. *)
LEMMA CommitStep ==
  ASSUME IInv, NEW b, InodeOK(b), b.ctime = now, Commit(b), now' = now
  PROVE  IInv'
<1>1. changed' \in {changed, now} /\ inode' = b /\ reply' = "Ok"
  BY DEF Commit
<1>2. TypeOK'
  BY <1>1 DEF IInv, TypeOK, InodeOK, Results
<1>3. SetuidIsRoots'
  BY <1>1 DEF InodeOK, SetuidIsRoots
<1>4. CtimeCoversChanges'
  BY <1>1 DEF IInv, TypeOK, CtimeCoversChanges, Times
<1>5. QED
  BY <1>2, <1>3, <1>4 DEF IInv

LEMMA Sound == ASSUME IInv PROVE InodeOK(inode) /\ now \in Times
BY DEF IInv, TypeOK, SetuidIsRoots, InodeOK

LEMMA SetattrStep ==
  ASSUME IInv, NEW c \in Creds, NEW r \in Requests, NEW time \in Times, setattr(c, r, time)
  PROVE  IInv'
<1> USE Sound
<1>1. now' = now
  BY DEF setattr
<1>2. r.mode \in SUBSET (0..11) /\ r.uid \in Nat \cup {None} /\ r.gid \in Nat \cup {None}
  BY AttrAssumption DEF Setattr
<1>3. ASSUME NEW res \in Results, Fail(res) PROVE IInv'
  BY <1>1, <1>3, FailStep
<1>4. CASE Chmod(c, r.mode)
  <2> DEFINE b == [inode EXCEPT !.mode = ChmodMode(inode.mode, r.mode), !.ctime = now]
  <2>1. InodeOK(b) /\ b.ctime = now
    BY <1>2, ModeFacts DEF InodeOK
  <2>2. Commit(b) => IInv'
    BY <1>1, <2>1, CommitStep
  <2>3. QED
    BY <1>3, <1>4, <2>2 DEF Chmod, Results
<1>5. CASE Chown(c, r.uid, r.gid)
  <2> DEFINE b == ChownedInode(r.uid, r.gid)
  <2>1. InodeOK(b) /\ b.ctime = now
    BY <1>2, ChownedFacts
  <2>2. Commit(b) => IInv'
    BY <1>1, <2>1, CommitStep
  <2>3. QED
    BY <1>3, <1>5, <2>2 DEF Chown, Results
<1>6. CASE Truncate(c)
  <2> DEFINE b == [inode EXCEPT !.mode = clear_suid_sgid(inode.mode), !.mtime = now, !.ctime = now]
  <2>1. InodeOK(b) /\ b.ctime = now
    BY ModeFacts DEF InodeOK
  <2>2. Commit(b) => IInv'
    BY <1>1, <2>1, CommitStep
  <2>3. QED
    BY <1>3, <1>6, <2>2 DEF Truncate, Results
<1>7. CASE Utimens(c, time)
  <2>1. LET b == UtimensInode(time) IN InodeOK(b) /\ b.ctime = now
    BY DEF UtimensInode, InodeOK
  <2>2. Commit(UtimensInode(time)) => IInv'
    BY <1>1, <2>1, CommitStep
  <2>3. QED
    BY <1>3, <1>7, <2>2 DEF Utimens, Results
<1>8. QED
  BY <1>3, <1>4, <1>5, <1>6, <1>7 DEF setattr, Results

-----------------------------------------------------------------------------
(* Extended attributes.                                                     *)

LEMMA XattrErrorType ==
  ASSUME NEW c \in Creds, NEW k \in Keys, NEW mask
  PROVE  XattrError(c, k, mask) \in Results
<1>1. Namespace[k] \in Prefixes
  BY AttrAssumption
<1>2. QED
  BY <1>1 DEF XattrError, Prefixes, Results

LEMMA SetxattrStep ==
  ASSUME IInv, NEW c \in Creds, NEW k \in Keys, NEW len \in Lengths, setxattr(c, k, len)
  PROVE  IInv'
<1> DEFINE b == [inode EXCEPT !.xattr[k] = len, !.ctime = now]
<1>1. InodeOK(b) /\ b.ctime = now
  BY Sound DEF InodeOK
<1>2. Commit(b) /\ now' = now => IInv'
  BY <1>1, CommitStep
<1>3. QED
  BY <1>2, XattrErrorType, FailStep DEF setxattr

LEMMA GetxattrStep ==
  ASSUME IInv, NEW c \in Creds, NEW k \in Keys, NEW size \in Lengths, getxattr(c, k, size)
  PROVE  IInv'
BY XattrErrorType, FailStep DEF getxattr, Results

LEMMA RemovexattrStep ==
  ASSUME IInv, NEW c \in Creds, NEW k \in Keys, removexattr(c, k)
  PROVE  IInv'
BY XattrErrorType, FailStep DEF removexattr, RemoveDropped, Results

-----------------------------------------------------------------------------
LEMMA InitIInv == Init => IInv
<1> SUFFICES ASSUME Init PROVE IInv
  OBVIOUS
<1>1. PICK c \in Creators, p \in Creds, m \in CreateModes :
        inode = [mode |-> CreatedMode(c, m), uid |-> c.uid, gid |-> creation_gid(p.gid, m, c.gid),
                 mtime |-> 0, ctime |-> 0, xattr |-> [k \in Keys |-> NoValue]]
  BY DEF Init
<1>2. c \in Creds /\ m \in SUBSET (0..11) /\ c.uid \in Nat /\ 0 \in Times
      /\ creation_gid(p.gid, m, c.gid) \in Nat
  BY AttrAssumption DEF Times, creation_gid
<1>3. CreatedMode(c, m) \in SUBSET Bit /\ (Has(CreatedMode(c, m), S_ISUID) => c.uid = 0)
  BY <1>2, CreatedModeFacts
<1>4. TypeOK
  BY <1>1, <1>2, <1>3 DEF Init, TypeOK, Results
<1>5. QED
  BY <1>1, <1>3, <1>4 DEF Init, IInv, SetuidIsRoots, CtimeCoversChanges

LEMMA NextIInv == IInv /\ [Next]_vars => IInv'
<1> SUFFICES ASSUME IInv, [Next]_vars PROVE IInv'
  OBVIOUS
<1>1. CASE Tick
  BY <1>1, AttrAssumption
     DEF Tick, IInv, TypeOK, SetuidIsRoots, CtimeCoversChanges, Times
<1>2. CASE UNCHANGED vars
  BY <1>2 DEF vars, IInv, TypeOK, SetuidIsRoots, CtimeCoversChanges
<1>3. QED
  BY <1>1, <1>2, SetattrStep, SetxattrStep, GetxattrStep, RemovexattrStep DEF Next

LEMMA Inductive == Spec => []IInv
BY InitIInv, NextIInv, PTL DEF Spec

(* Every committed inode is well-typed: chown never stores an absent owner. *)
THEOREM AttrTypeCorrect == Spec => []TypeOK
<1>1. IInv => TypeOK
  BY DEF IInv
<1>2. QED
  BY Inductive, <1>1, PTL

(* Whoever calls chmod, chown and truncate, in whatever order, a file with  *)
(* the setuid bit belongs to root.                                          *)
THEOREM SetuidStaysWithRoot == Spec => []SetuidIsRoots
<1>1. IInv => SetuidIsRoots
  BY DEF IInv
<1>2. QED
  BY Inductive, <1>1, PTL

(* Every handler that changes an attribute stamps ctime in the same         *)
(* transaction.                                                             *)
THEOREM CtimeIsKept == Spec => []CtimeCoversChanges
<1>1. IInv => CtimeCoversChanges
  BY DEF IInv
<1>2. QED
  BY Inductive, <1>1, PTL

-----------------------------------------------------------------------------
(* The setgid bit.                                                          *)

(* Inode b has the setgid bit only if the file has it and keeps its group. *)
KeepsSetgid(b) == Has(b.mode, S_ISGID) => Has(inode.mode, S_ISGID) /\ b.gid = inode.gid

(* chmod and chown either keep the group or drop the bit. *)
LEMMA SetgidModes ==
  ASSUME NEW mode \in SUBSET Bit
  PROVE  /\ \A m \in SUBSET (0..11) : ~Has(ChmodMode(mode, m), S_ISGID)
         /\ clear_suid_sgid(mode) \subseteq mode
         /\ \A uid, gid : gid # None => ~Has(ChownMode(mode, uid, gid), S_ISGID)
<1>1. ASSUME NEW m \in SUBSET (0..11) PROVE ~Has(ChmodMode(mode, m), S_ISGID)
  BY DEF ChmodMode, Has, S_ISGID, S_IFMT, Perm777
<1>2. clear_suid_sgid(mode) \subseteq mode
  BY DEF clear_suid_sgid
<1>3. ASSUME NEW uid, NEW gid, gid # None PROVE ~Has(ChownMode(mode, uid, gid), S_ISGID)
  BY <1>3 DEF ChownMode, Has, S_ISGID
<1>4. QED
  BY <1>1, <1>2, <1>3

LEMMA CommitKeepsSetgid ==
  ASSUME NEW b, KeepsSetgid(b), Commit(b)
  PROVE  KeepsSetgid(inode')
BY DEF Commit

LEMMA SetattrKeepsSetgid ==
  ASSUME IInv, NEW c \in Creds, NEW r \in Requests, NEW time \in Times, setattr(c, r, time)
  PROVE  KeepsSetgid(inode')
<1>1. r.mode \in SUBSET (0..11) /\ inode.mode \in SUBSET Bit
  BY AttrAssumption DEF Setattr, IInv, TypeOK
<1>2. ASSUME NEW res, Fail(res) PROVE KeepsSetgid(inode')
  BY <1>2 DEF Fail, KeepsSetgid
<1>3. CASE Chmod(c, r.mode)
  <2>1. KeepsSetgid([inode EXCEPT !.mode = ChmodMode(inode.mode, r.mode), !.ctime = now])
    BY <1>1, SetgidModes DEF KeepsSetgid, IInv, TypeOK
  <2>2. QED
    BY <1>2, <1>3, <2>1, CommitKeepsSetgid DEF Chmod
<1>4. CASE Chown(c, r.uid, r.gid)
  <2>1. /\ ChownedInode(r.uid, r.gid).mode = ChownMode(inode.mode, r.uid, r.gid)
        /\ ChownedInode(r.uid, r.gid).gid = IF r.gid = None THEN inode.gid ELSE r.gid
    BY DEF ChownedInode, Chowned, IInv, TypeOK
  <2>2. /\ ChownMode(inode.mode, r.uid, r.gid) \subseteq inode.mode
        /\ r.gid # None => ~Has(ChownMode(inode.mode, r.uid, r.gid), S_ISGID)
    BY <1>1, ModeFacts, SetgidModes
  <2>3. KeepsSetgid(ChownedInode(r.uid, r.gid))
    BY <2>1, <2>2 DEF KeepsSetgid, Has
  <2>4. QED
    BY <1>2, <1>4, <2>3, CommitKeepsSetgid DEF Chown
<1>5. CASE Truncate(c)
  <2>1. KeepsSetgid([inode EXCEPT !.mode = clear_suid_sgid(inode.mode), !.mtime = now, !.ctime = now])
    BY <1>1, SetgidModes DEF KeepsSetgid, Has, IInv, TypeOK
  <2>2. QED
    BY <1>2, <1>5, <2>1, CommitKeepsSetgid DEF Truncate
<1>6. CASE Utimens(c, time)
  <2>1. KeepsSetgid(UtimensInode(time))
    BY DEF KeepsSetgid, UtimensInode, IInv, TypeOK
  <2>2. QED
    BY <1>2, <1>6, <2>1, CommitKeepsSetgid DEF Utimens
<1>7. QED
  BY <1>2, <1>3, <1>4, <1>5, <1>6 DEF setattr

LEMMA NextKeepsSetgid ==
  ASSUME IInv, [Next]_vars
  PROVE  KeepsSetgid(inode')
<1>1. ASSUME NEW c \in Creds, NEW k \in Keys, NEW len \in Lengths, setxattr(c, k, len)
      PROVE  KeepsSetgid(inode')
  <2>1. KeepsSetgid([inode EXCEPT !.xattr[k] = len, !.ctime = now])
    BY DEF KeepsSetgid, IInv, TypeOK
  <2>2. ASSUME NEW res, Fail(res) PROVE KeepsSetgid(inode')
    BY <2>2 DEF Fail, KeepsSetgid
  <2>3. QED
    BY <1>1, <2>1, <2>2, CommitKeepsSetgid DEF setxattr
<1>2. inode' = inode => KeepsSetgid(inode')
  BY DEF KeepsSetgid
<1>3. QED
  BY <1>1, <1>2, SetattrKeepsSetgid
     DEF Next, Tick, getxattr, removexattr, RemoveDropped, Fail, vars

(* No history of chmod, chown, truncate and utimens leaves the setgid bit   *)
(* on a file that was given to another group.                               *)
THEOREM SetgidStaysWithGroup == Spec => SetgidKeepsGroup
<1>1. IInv /\ [Next]_vars =>
        [Has(inode'.mode, S_ISGID) => Has(inode.mode, S_ISGID) /\ inode'.gid = inode.gid]_vars
  BY NextKeepsSetgid DEF KeepsSetgid
<1>2. QED
  BY Inductive, <1>1, PTL DEF Spec, SetgidKeepsGroup
=============================================================================
