-------------------------- MODULE DbfsMountProofs --------------------------
(***************************************************************************)
(* Proofs about DbfsMount, for any threads, any bound on inode numbers and *)
(* any number of crashes.                                                  *)
(***************************************************************************)
EXTENDS DbfsMount, TLAPS

(* The states of the life cycle: the super block exists once the process    *)
(* has booted, and the root inode before anything else happens.  Until it   *)
(* is removed, no number but 1 is saved without a root inode.               *)
LifeInv ==
  /\ phase # "down" => continue_number # 0
  /\ phase = "booted" => front = "rvfs"
  /\ phase = "loaded" => num = IF front = "rvfs" THEN continue_number ELSE Root
  /\ ~unrooted /\ phase = "mounted" => Root \in inodes
  /\ ~unrooted /\ Root \notin inodes => continue_number \in {0, 1}

IInv == TypeOK /\ LifeInv

(* Every number in use is below the one that the next mount, or the next    *)
(* create, starts from.                                                     *)
InUseBelow(n) ==
  /\ \A i \in inodes : i < n
  /\ \A t \in Threads : pend[t] < n

NumberInv ==
  /\ NumberRestored
  /\ FreshNumbers
  /\ front = "rvfs" /\ crashes = 0 /\ phase = "mounted" => InUseBelow(num)
  /\ front = "rvfs" /\ crashes = 0 /\ phase # "mounted" => \A i \in inodes : i < continue_number

-----------------------------------------------------------------------------
(* The life-cycle invariant, for both front ends.                           *)

LEMMA InitIInv == Init => IInv
<1> SUFFICES ASSUME Init PROVE IInv
  OBVIOUS
<1>1. TypeOK
  <2>1. Idle \in [Threads -> 0..MaxIno] /\ 0 \in 0 .. MaxIno + 1 /\ 1 \in 1 .. MaxIno + 1
        /\ 0 \in 0..MaxCrashes
    BY MountAssumption DEF Idle
  <2>2. QED
    BY <2>1 DEF Init, TypeOK
<1>2. LifeInv
  BY DEF Init, LifeInv, Root
<1>3. QED
  BY <1>1, <1>2 DEF IInv

LEMMA NextIInv == IInv /\ [Next]_vars => IInv'
<1> SUFFICES ASSUME IInv, [Next]_vars PROVE IInv'
  OBVIOUS
<1> USE MountAssumption DEF IInv, TypeOK, LifeInv, Ino, Root
<1>1. CASE Boot
  BY <1>1 DEF Boot, InitialNumber
<1>2. CASE LoadNumber
  BY <1>2 DEF LoadNumber, NumberLoaded
<1>3. CASE RootInode
  <2>1. CASE Root \in inodes
    BY <1>3, <2>1 DEF RootInode
  <2>2. CASE Root \notin inodes /\ num = Root
    <3>1. inodes' = inodes \cup {Root} /\ num' = num + 1 /\ phase' = "mounted"
      BY <1>3, <2>2 DEF RootInode
    <3>2. QED
      BY <1>3, <2>2, <3>1 DEF RootInode
  <2>3. CASE Root \notin inodes /\ num # Root
    <3>1. inodes' = inodes /\ num' = 1 /\ phase' = "down"
      BY <1>3, <2>3 DEF RootInode
    <3>2. pend' = Idle /\ Idle' = Idle
      BY <1>3 DEF RootInode, Idle
    <3>3. QED
      BY <1>3, <2>3, <3>1, <3>2 DEF RootInode
  <2>4. QED
    BY <2>1, <2>2, <2>3
<1>4. CASE SyncFs
  BY <1>4 DEF SyncFs
<1>5. CASE Umount
  BY <1>5 DEF Umount, NumberSaved
<1>6. CASE Crash
  <2>1. Idle \in [Threads -> 0..MaxIno]
    BY DEF Idle
  <2>2. QED
    BY <1>6, <2>1 DEF Crash
<1>7. ASSUME NEW t \in Threads, TakeNumber(t) PROVE IInv'
  BY <1>7 DEF TakeNumber, NextNumber
<1>8. ASSUME NEW t \in Threads, CreateTx(t) PROVE IInv'
  <2>1. phase = "mounted"
    BY <1>8 DEF CreateTx, Idle
  <2>2. inodes \subseteq inodes' /\ inodes' \subseteq inodes \cup {pend[t]}
    BY <1>8 DEF CreateTx
  <2>3. pend[t] \in Ino
    BY <1>8 DEF CreateTx
  <2>4. QED
    BY <1>8, <2>1, <2>2, <2>3 DEF CreateTx
<1>9. ASSUME NEW i \in Ino, Remove(i) PROVE IInv'
  BY <1>9 DEF Remove
<1>10. CASE UNCHANGED vars
  BY <1>10 DEF vars, Idle
<1>11. QED
  BY <1>1, <1>2, <1>3, <1>4, <1>5, <1>6, <1>7, <1>8, <1>9, <1>10 DEF Next

(* The counter, the saved number and the pending numbers stay in bounds,    *)
(* whichever front end runs and wherever it crashes.                        *)
THEOREM TypeCorrect == Spec => []TypeOK
<1>1. IInv => TypeOK
  BY DEF IInv
<1>2. QED
  BY InitIInv, NextIInv, <1>1, PTL DEF Spec

(* The assert_eq! in dbfs_common_root_inode never fails for either front    *)
(* end as long as the root inode was not removed, whatever boots and mounts *)
(* crashed on the way.                                                      *)
THEOREM RootAssertionHolds == Spec => []RootAssertion
<1>1. IInv => RootAssertion
  BY MountAssumption DEF IInv, TypeOK, LifeInv, RootAssertion, Root, Ino
<1>2. QED
  BY InitIInv, NextIInv, <1>1, PTL DEF Spec

-----------------------------------------------------------------------------
(* The numbers under rvfs, which loads the saved number when it mounts.      *)

LEMMA InitNumberInv == Init => NumberInv
BY DEF Init, NumberInv, NumberRestored, FreshNumbers, InUseBelow, Idle

LEMMA NextNumberInv ==
  ASSUME IInv, NumberInv, [Next]_vars
  PROVE  NumberInv'
<1> USE MountAssumption
    DEF IInv, TypeOK, LifeInv, Ino, Root, NumberInv, NumberRestored, FreshNumbers, InUseBelow
<1>1. CASE Boot
  BY <1>1 DEF Boot, InitialNumber, Idle
<1>2. CASE LoadNumber
  BY <1>2 DEF LoadNumber, NumberLoaded, Idle
<1>3. CASE RootInode
  <2>1. /\ phase = "loaded" /\ pend = Idle
        /\ UNCHANGED <<front, continue_number, pend, crashes>>
    BY <1>3 DEF RootInode
  <2>2. CASE Root \in inodes
    <3>1. inodes' = inodes /\ num' = num /\ phase' = "mounted"
      BY <1>3, <2>2 DEF RootInode
    <3>2. QED
      BY <2>1, <3>1 DEF Idle
  <2>3. CASE Root \notin inodes /\ num = Root
    <3>1. inodes' = inodes \cup {Root} /\ num' = num + 1 /\ phase' = "mounted"
      BY <1>3, <2>3 DEF RootInode
    <3>2. QED
      BY <2>1, <2>3, <3>1 DEF Idle
  <2>4. CASE Root \notin inodes /\ num # Root
    <3>1. inodes' = inodes /\ phase' = "down"
      BY <1>3, <2>4 DEF RootInode
    <3>2. QED
      BY <2>1, <3>1 DEF Idle
  <2>5. QED
    BY <2>2, <2>3, <2>4
<1>4. CASE SyncFs
  BY <1>4 DEF SyncFs
<1>5. CASE Umount
  BY <1>5 DEF Umount, NumberSaved, Idle
<1>6. CASE Crash
  BY <1>6 DEF Crash
<1>7. ASSUME NEW t \in Threads, TakeNumber(t) PROVE NumberInv'
  BY <1>7 DEF TakeNumber, NextNumber
<1>8. ASSUME NEW t \in Threads, CreateTx(t) PROVE NumberInv'
  <2>1. phase = "mounted"
    BY <1>8 DEF CreateTx, Idle
  <2>2. inodes' \subseteq inodes \cup {pend[t]}
    BY <1>8 DEF CreateTx
  <2>3. \A u \in Threads : pend'[u] = IF u = t THEN 0 ELSE pend[u]
    BY <1>8 DEF CreateTx
  <2>4. QED
    BY <1>8, <2>1, <2>2, <2>3 DEF CreateTx
<1>9. ASSUME NEW i \in Ino, Remove(i) PROVE NumberInv'
  BY <1>9 DEF Remove
<1>10. CASE UNCHANGED vars
  BY <1>10 DEF vars
<1>11. QED
  BY <1>1, <1>2, <1>3, <1>4, <1>5, <1>6, <1>7, <1>8, <1>9, <1>10 DEF Next

LEMMA NumbersInvariant == Spec => [](IInv /\ NumberInv)
<1>1. IInv /\ NumberInv /\ [Next]_vars => (IInv /\ NumberInv)'
  BY NextIInv, NextNumberInv
<1>2. QED
  BY InitIInv, InitNumberInv, <1>1, PTL DEF Spec

(* Under rvfs a mounted file system never hands out a number below the      *)
(* saved one, crashes or not.                                               *)
THEOREM RvfsRestoresNumber == Spec => []NumberRestored
<1>1. IInv /\ NumberInv => NumberRestored
  BY DEF NumberInv
<1>2. QED
  BY NumbersInvariant, <1>1, PTL

(* Under rvfs, as long as nothing crashed, create_bucket is never called    *)
(* with a number that has a bucket, whatever the interleaving of creates,   *)
(* removals, syncs and remounts.                                            *)
THEOREM RvfsNumbersAreFresh == Spec => []FreshNumbers
<1>1. IInv /\ NumberInv => FreshNumbers
  BY DEF NumberInv
<1>2. QED
  BY NumbersInvariant, <1>1, PTL

(* Under rvfs the saved number never goes back.                             *)
THEOREM RvfsSavedNumberGrows == Spec => SavedNumberGrows
<1>1. IInv /\ NumberInv /\ [Next]_vars => [front = "rvfs" => continue_number' >= continue_number]_vars
  BY DEF IInv, TypeOK, NumberInv, NumberRestored, Next, Boot, LoadNumber, RootInode,
         SyncFs, Umount, Crash, TakeNumber, CreateTx, Remove, NumberSaved, InitialNumber, vars
<1>2. QED
  BY NumbersInvariant, <1>1, PTL DEF Spec, SavedNumberGrows
=============================================================================
