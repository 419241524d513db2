------------------------------ MODULE DbfsMount ------------------------------
(***************************************************************************)
(* The life of a DBFS instance and of its inode numbers: the super block   *)
(* is initialised, the file system mounted, inodes created by threads that *)
(* take a number from a counter in memory and then run a transaction, the  *)
(* counter written back on sync and unmount, and the process killed at any *)
(* point.  Database transactions are atomic and survive a crash.           *)
(***************************************************************************)
EXTENDS Integers

CONSTANTS
  Threads,      \* threads that create inodes
  FrontEnds,    \* a subset of {"rvfs", "fuse"}
  MaxIno,       \* bound on inode numbers
  MaxCrashes    \* bound on crashes

ASSUME MountAssumption ==
  /\ FrontEnds \subseteq {"rvfs", "fuse"}
  /\ MaxIno \in Nat \ {0}
  /\ MaxCrashes \in Nat

VARIABLES
  front,            \* the front end this instance was built with
  continue_number,  \* key of the super_blk bucket; 0 when there is no bucket
  inodes,           \* inode numbers that have a bucket
  num,              \* DBFS_INODE_NUMBER, a static in memory
  phase,            \* "down", "booted", "loaded" or "mounted"
  pend,             \* the number a thread took for a create not yet run; or 0
  crashes,          \* crashes so far
  unrooted          \* history: the root inode was removed

vars == <<front, continue_number, inodes, num, phase, pend, crashes, unrooted>>

Root == 1
Ino == 1..MaxIno
Idle == [t \in Threads |-> 0]

Init ==
  /\ front \in FrontEnds
  /\ continue_number = 0
  /\ inodes = {}
  /\ num = 1
  /\ phase = "down"
  /\ pend = Idle
  /\ crashes = 0
  /\ unrooted = FALSE

InitialNumberZero == 0

InitialNumberAfterRoot == 2

(* continue_number in a super block that init_db creates. *)
InitialNumber == 1

(* The process starts, opens the database and runs init_db, which does      *)
(* nothing when the super block exists.  FUSE's init goes straight on to    *)
(* the root inode.                                                          *)
Boot ==
  /\ phase = "down"
  /\ num' = 1
  /\ continue_number' = IF continue_number = 0 THEN InitialNumber ELSE continue_number
  /\ phase' = IF front = "fuse" THEN "loaded" ELSE "booted"
  /\ UNCHANGED <<front, inodes, pend, crashes, unrooted>>

NumberKept == num

(* The value dbfs_create_simple_super_blk stores into the counter. *)
NumberLoaded == continue_number

LoadNumber ==
  /\ phase = "booted"
  /\ num' = NumberLoaded
  /\ phase' = "loaded"
  /\ UNCHANGED <<front, continue_number, inodes, pend, crashes, unrooted>>

(* dbfs_common_root_inode.  A root inode that does not get number 1 fails an *)
(* assertion: the transaction is dropped and the process, or the kernel, ends. *)
RootInode ==
  /\ phase = "loaded"
  /\ \/ /\ Root \in inodes
        /\ phase' = "mounted"
        /\ UNCHANGED <<inodes, num>>
     \/ /\ Root \notin inodes /\ num = Root
        /\ inodes' = inodes \cup {Root}
        /\ num' = num + 1
        /\ phase' = "mounted"
     \/ /\ Root \notin inodes /\ num # Root
        /\ num' = 1
        /\ phase' = "down"
        /\ UNCHANGED inodes
  /\ UNCHANGED <<front, continue_number, pend, crashes, unrooted>>

NextIfFree(n) == IF n \in inodes THEN n ELSE n + 1

(* fetch_add(1) *)
NextNumber(n) == n + 1

(* The first statement of dbfs_common_create. *)
TakeNumber(t) ==
  /\ phase = "mounted" /\ pend[t] = 0
  /\ num \in Ino
  /\ pend' = [pend EXCEPT ![t] = num]
  /\ num' = NextNumber(num)
  /\ UNCHANGED <<front, continue_number, inodes, phase, crashes, unrooted>>

(* The rest of dbfs_common_create: a transaction that commits, or is given  *)
(* up because the parent refuses or because the bucket exists already.      *)
CreateTx(t) ==
  /\ pend[t] # 0
  /\ pend' = [pend EXCEPT ![t] = 0]
  /\ \/ pend[t] \notin inodes /\ inodes' = inodes \cup {pend[t]}
     \/ UNCHANGED inodes
  /\ UNCHANGED <<front, continue_number, num, phase, crashes, unrooted>>

(* unlink of a last link, rmdir.  No name leads to the root under FUSE.     *)
(* Under rvfs a rename inside the root makes one (DbfsRvfs), so that rmdir  *)
(* may delete the root too; renames are not modelled here, and it may go at *)
(* any time.                                                                *)
Remove(i) ==
  /\ phase = "mounted"
  /\ i \in inodes
  /\ i = Root => front = "rvfs"
  /\ inodes' = inodes \ {i}
  /\ unrooted' = (unrooted \/ i = Root)
  /\ UNCHANGED <<front, continue_number, num, phase, pend, crashes>>

(* dbfs_sync_fs, an operation of the rvfs super block only *)
SyncFs ==
  /\ front = "rvfs" /\ phase = "mounted"
  /\ continue_number' = num
  /\ UNCHANGED <<front, inodes, num, phase, pend, crashes, unrooted>>

UmountForgets == continue_number

(* What dbfs_common_umount writes back. *)
NumberSaved == num

(* The VFS unmounts only a file system that is not in use.  An rvfs kernel  *)
(* goes on and may mount again; the FUSE process ends.                      *)
Umount ==
  /\ phase = "mounted" /\ pend = Idle
  /\ continue_number' = NumberSaved
  /\ phase' = IF front = "rvfs" THEN "booted" ELSE "down"
  /\ UNCHANGED <<front, inodes, num, pend, crashes, unrooted>>

(* The process or the kernel dies; the counter is gone. *)
Crash ==
  /\ phase # "down" /\ crashes < MaxCrashes
  /\ phase' = "down"
  /\ num' = 1
  /\ pend' = Idle
  /\ crashes' = crashes + 1
  /\ UNCHANGED <<front, continue_number, inodes, unrooted>>

Next ==
  \/ Boot \/ LoadNumber \/ RootInode \/ SyncFs \/ Umount \/ Crash
  \/ \E t \in Threads : TakeNumber(t) \/ CreateTx(t)
  \/ \E i \in Ino : Remove(i)

Spec == Init /\ [][Next]_vars

(* Callers keep creating, and a transaction that has begun ends. *)
Fairness ==
  /\ WF_vars(Boot) /\ WF_vars(LoadNumber) /\ WF_vars(RootInode)
  /\ \A t \in Threads : WF_vars(TakeNumber(t)) /\ WF_vars(CreateTx(t))

FairSpec == Spec /\ Fairness

-----------------------------------------------------------------------------
(* Properties.                                                              *)

(* Numbers stay in their bounds and a number is pending only in a mounted   *)
(* file system.                                                             *)
TypeOK ==
  /\ front \in FrontEnds
  /\ continue_number \in 0 .. MaxIno + 1
  /\ inodes \subseteq Ino
  /\ num \in 1 .. MaxIno + 1
  /\ phase \in {"down", "booted", "loaded", "mounted"}
  /\ pend \in [Threads -> 0..MaxIno]
  /\ crashes \in 0..MaxCrashes
  /\ unrooted \in BOOLEAN
  /\ phase # "mounted" => pend = Idle

(* Under rvfs, as long as nothing crashed, a number taken for a create has  *)
(* no bucket, and no other thread has it: create_bucket cannot fail, across *)
(* any number of unmounts and mounts.                                       *)
FreshNumbers ==
  front = "rvfs" /\ crashes = 0 =>
    \A t \in Threads : pend[t] # 0 =>
      /\ pend[t] \notin inodes
      /\ \A u \in Threads \ {t} : pend[u] # pend[t]

(* Under rvfs a mounted file system hands out no number below the saved     *)
(* one, also after crashes: inodes that the last write-back covered are out *)
(* of reach.  (FUSE never reads the saved number.)                          *)
NumberRestored == front = "rvfs" /\ phase = "mounted" => num >= continue_number

(* assert_eq!(old, 1) in dbfs_common_root_inode: as long as the root inode  *)
(* was never removed, it gets number 1 when it has to be created, however   *)
(* many boots and mounts crashed before the first that succeeds.  (Once     *)
(* rvfs has removed the root and saved a later number, no mount succeeds.)  *)
RootAssertion == phase = "loaded" /\ Root \notin inodes /\ ~unrooted => num = Root

(* Under rvfs the saved number never goes back. *)
SavedNumberGrows == [][front = "rvfs" => continue_number' >= continue_number]_vars

(* After a crash the counter may be behind the inodes that exist, and       *)
(* creates fail.  As each failed create uses up a number, they do not fail  *)
(* for ever.                                                                *)
CollisionsEnd == (phase = "mounted" /\ num \in inodes) ~> (phase # "mounted" \/ num \notin inodes)
=============================================================================
