---------------------------- MODULE DbfsNamespace ----------------------------
(***************************************************************************)
(* The directory tree of DBFS as it is kept in the key-value database: one *)
(* bucket per inode, named by the inode number, holding the attributes and,*)
(* for a directory, one "data:<name>" key per entry whose value is an      *)
(* inode number.                                                           *)
(*                                                                         *)
(* The actions are the requests of the FUSE front end.  The session loop   *)
(* hands them to the file system one at a time, and each handler commits   *)
(* at most one write transaction, so a request is one step.  A request     *)
(* that fails drops its transaction, which leaves the database as it was.  *)
(* The kernel's VFS resolves names before it sends a request; what it      *)
(* guarantees is written in the Vfs... operators.                          *)
(***************************************************************************)
EXTENDS DbfsMode, FiniteSets

CONSTANTS
  Names,        \* file names, other than "." and ".."
  MaxIno,       \* bound: inode numbers are 1..MaxIno
  MaxCount,     \* bound on a directory's size and on a link count
  Creds,        \* the callers, [uid, gid] records
  Mounter,      \* the caller who mounted the file system and owns the root
  Modes,        \* permission words (without type) requested when creating
  ChmodModes,   \* permission words requested of chmod
  ChownIds,     \* the owner and group numbers requested of chown
  Types,        \* the non-directory file types that are created
  RenameFlags,  \* a subset of {"NONE", "EXCHANGE"}
  TargetLen     \* length of a symbolic link's target

ASSUME ConstantsAssumption ==
  /\ IsFiniteSet(Names)
  /\ "." \notin Names /\ ".." \notin Names
  /\ MaxIno \in Nat \ {0}
  /\ MaxCount \in Nat
  /\ Creds \subseteq [uid : Nat, gid : Nat]
  /\ Mounter \in Creds
  /\ Modes \subseteq SUBSET (0..11)
  /\ ChmodModes \subseteq SUBSET (0..11)
  /\ ChownIds \subseteq Nat
  /\ Types \subseteq FileTypes \ {S_IFDIR}
  /\ RenameFlags \subseteq {"NONE", "EXCHANGE"}
  /\ TargetLen \in Nat

VARIABLES
  db,       \* the inode buckets: a function from the numbers that exist
  num,      \* DBFS_INODE_NUMBER, the next inode number, in memory only
  reply     \* who made the last request and what it returned

vars == <<db, num, reply>>

Ino == 1..MaxIno
RootIno == 1
NoIno == 0
AllNames == Names \cup {".", ".."}
NoData == [n \in AllNames |-> NoIno]

Bucket ==
  [mode : SUBSET Bit, uid : Nat, gid : Nat, size : Nat, hard_links : Nat,
   data : [AllNames -> Ino \cup {NoIno}]]

Results == {"none", "Ok", "AccessError", "PermissionDenied", "NotFound",
            "NotEmpty", "FileExists", "panic"}

Inodes == DOMAIN db

-----------------------------------------------------------------------------
(* Writes to buckets inside a transaction.                                  *)

PutEntry(f, d, n, i) == [f EXCEPT ![d].data[n] = i]

(* tx.delete_bucket *)
DeleteBucket(f, i) == [j \in DOMAIN f \ {i} |-> f[j]]

(* tx.create_bucket and the puts that fill the new bucket *)
PutBucket(f, i, b) == [j \in DOMAIN f \cup {i} |-> IF j = i THEN b ELSE f[j]]

AddEntryNoCount(f, d, n, i) == PutEntry(f, d, n, i)

(* Put the key of name n in directory d and add one to d's size. *)
AddEntry(f, d, n, i) == [PutEntry(f, d, n, i) EXCEPT ![d].size = @ + 1]

RemoveEntryTwice(f, d, n) == [PutEntry(f, d, n, NoIno) EXCEPT ![d].size = @ - 2]

(* Delete the key of name n from directory d and take one from d's size. *)
RemoveEntry(f, d, n) == [PutEntry(f, d, n, NoIno) EXCEPT ![d].size = @ - 1]

ParentKept(f, i, d) == f

(* Make d the parent of i when i is a directory. *)
SetParent(f, i, d) == IF Has(f[i].mode, S_IFDIR) THEN PutEntry(f, i, "..", d) ELSE f

-----------------------------------------------------------------------------
(* What the kernel establishes before it sends a request.  It resolves      *)
(* names with lookup and getattr; it refuses names that exist for create    *)
(* and link, names that do not for the others, requests in a directory      *)
(* that was removed or replaced, and renames that would make a directory    *)
(* its own ancestor.                                                        *)

(* dbfs_common_lookup: the entry's inode, and its attributes can be read. *)
Lookup(d, n) == db[d].data[n]
Found(d, n) == Lookup(d, n) \in Inodes
Absent(d, n) == Lookup(d, n) = NoIno

HasName(i) == i = RootIno \/ \E p \in Inodes, n \in Names : Lookup(p, n) = i

Dirs == {i \in Inodes : IsDirectory(db[i].mode)}
VfsDirs == {d \in Dirs : HasName(d)}
VfsFiles == {i \in Inodes \ Dirs : HasName(i)}

Children(i) == {Lookup(i, n) : n \in Names}

(* The inodes of the subtree of i: the least set with i and closed under    *)
(* Children.                                                                *)
Subtree(i) ==
  {j \in Inodes : \A S \in SUBSET Inodes :
     (i \in S /\ \A k \in S : Children(k) \cap Inodes \subseteq S) => j \in S}

VfsRename(od, on, nd, nn, flag) ==
  LET i == Lookup(od, on)
      t == Lookup(nd, nn)
  IN /\ Found(od, on)
     /\ Absent(nd, nn) \/ Found(nd, nn)
     /\ t # i
     /\ IF flag = "EXCHANGE" THEN Found(nd, nn)
        ELSE Found(nd, nn) => (i \in Dirs <=> t \in Dirs)
     /\ i \in Dirs => nd \notin Subtree(i)
     /\ t \in Dirs => od \notin Subtree(t)

-----------------------------------------------------------------------------
Up == reply.res # "panic"

Reply(c, res) == reply' = [by |-> c.uid, res |-> res]

(* The handler returns an error (or panics): its transaction is dropped. *)
Fail(c, res) == Reply(c, res) /\ UNCHANGED db

MayWrite(c, i) ==
  checkout_access(db[i].uid, db[i].gid, db[i].mode \cap Perm777, c.uid, c.gid, ACCESS_W_OK)

StickyIgnored(c, d, i) == FALSE

(* "Sticky bit" handling: c may not take away d's entry for inode i. *)
StickyDenies(c, d, i) ==
  Has(db[d].mode, S_ISVTX) /\ c.uid \notin {0, db[d].uid, db[i].uid}

-----------------------------------------------------------------------------
(* create, mkdir, mknod and symlink.                                        *)

IsSpecial(perm) == \E t \in {S_IFSOCK, S_IFCHR, S_IFBLK, S_IFIFO} : Has(perm, t)

NewSize(perm) ==
  IF IsSpecial(perm) THEN 0
  ELSE IF Has(perm, S_IFDIR) THEN 2
  ELSE IF Has(perm, S_IFLNK) THEN TargetLen
  ELSE 0

NewLinks(perm) == IF ~IsSpecial(perm) /\ Has(perm, S_IFDIR) THEN 2 ELSE 1

NewMode(c, d, perm) ==
  (IF c.uid # 0 THEN perm \ (S_ISUID \cup S_ISGID) ELSE perm)
  \cup (IF Has(perm, S_IFDIR) /\ Has(db[d].mode, S_IFDIR) THEN S_ISGID ELSE {})

NewData(d, new, perm) ==
  IF Has(perm, S_IFDIR) THEN [NoData EXCEPT !["."] = new, ![".."] = d] ELSE NoData

NewInode(c, d, new, perm) ==
  [mode |-> NewMode(c, d, perm), uid |-> c.uid,
   gid |-> creation_gid(db[d].gid, perm, c.gid), size |-> NewSize(perm),
   hard_links |-> NewLinks(perm), data |-> NewData(d, new, perm)]

(* dbfs_common_create.  The number is taken before anything is checked, so  *)
(* a request that fails has still used it up.                               *)
Create(c, d, n, perm) ==
  /\ Up /\ Absent(d, n)
  /\ num \in Ino /\ db[d].size < MaxCount
  /\ num' = num + 1
  /\ \/ ~MayWrite(c, d) /\ Fail(c, "AccessError")
     \/ MayWrite(c, d) /\ num \in Inodes /\ Fail(c, "FileExists")
     \/ /\ MayWrite(c, d) /\ num \notin Inodes
        /\ db' = PutBucket(AddEntry(db, d, n, num), num, NewInode(c, d, num, perm))
        /\ Reply(c, "Ok")

Mkdir(c, d, n, m) == Create(c, d, n, m \cup S_IFDIR)
Symlink(c, d, n) == Create(c, d, n, Perm777 \cup S_IFLNK)
Mknod(c, d, n, m, t) == Create(c, d, n, m \cup t)

-----------------------------------------------------------------------------
(* link, unlink and rmdir.                                                  *)

AddLinkForgotten(f, i) == f

AddLink(f, i) == [f EXCEPT ![i].hard_links = @ + 1]

(* dbfs_common_link: the attributes of the directory are read in a          *)
(* transaction of their own.                                                *)
Link(c, i, d, n) ==
  /\ Up /\ Absent(d, n)
  /\ db[d].size < MaxCount /\ db[i].hard_links < MaxCount
  /\ UNCHANGED num
  /\ \/ ~MayWrite(c, d) /\ Fail(c, "AccessError")
     \/ /\ MayWrite(c, d)
        /\ db' = AddLink(AddEntry(db, d, n, i), i)
        /\ Reply(c, "Ok")

DropLinkAlways(f, i) == DeleteBucket(f, i)

(* The last link takes the inode's bucket with it. *)
DropLink(f, i) ==
  IF f[i].hard_links = 1 THEN DeleteBucket(f, i)
  ELSE [f EXCEPT ![i].hard_links = @ - 1]

(* dbfs_common_unlink *)
Unlink(c, d, n) ==
  LET i == Lookup(d, n)
  IN /\ Up /\ Found(d, n) /\ i \notin Dirs
     /\ UNCHANGED num
     /\ \/ ~MayWrite(c, d) /\ Fail(c, "AccessError")
        \/ MayWrite(c, d) /\ StickyDenies(c, d, i) /\ Fail(c, "AccessError")
        \/ /\ MayWrite(c, d) /\ ~StickyDenies(c, d, i)
           /\ db' = DropLink(RemoveEntry(db, d, n), i)
           /\ Reply(c, "Ok")

NotEmptyOffByOne(i) == db[i].size > 3

(* A directory always counts "." and "..". *)
NotEmpty(i) == db[i].size > 2

(* dbfs_common_rmdir *)
Rmdir(c, d, n) ==
  LET i == Lookup(d, n)
      denied == ~MayWrite(c, d) \/ StickyDenies(c, d, i)
  IN /\ Up /\ Found(d, n) /\ i \in Dirs
     /\ UNCHANGED num
     /\ \/ NotEmpty(i) /\ Fail(c, "NotEmpty")
        \/ ~NotEmpty(i) /\ denied /\ Fail(c, "AccessError")
        \/ /\ ~NotEmpty(i) /\ ~denied
           /\ db' = DeleteBucket(RemoveEntry(db, d, n), i)
           /\ Reply(c, "Ok")

-----------------------------------------------------------------------------
(* rename: two read transactions decide, one write transaction acts.        *)

(* The inode that rename believes to be at the new name: it looks only in   *)
(* a directory with the sticky bit.                                         *)
RenameTarget(nd, nn) == IF Has(db[nd].mode, S_ISVTX) THEN Lookup(nd, nn) ELSE NoIno

RenameDenied(c, od, on, nd, nn) ==
  LET t == RenameTarget(nd, nn)
  IN \/ ~MayWrite(c, od)
     \/ StickyDenies(c, od, Lookup(od, on))
     \/ ~MayWrite(c, nd)
     \/ t # NoIno /\ StickyDenies(c, nd, t)

(* The RENAME_EXCHANGE branch.  The second update of a directory's parent   *)
(* goes to the key "..", the first one to the key ".".                      *)
Exchanged(od, on, nd, nn, t) ==
  LET i == Lookup(od, on)
      swapped == PutEntry(PutEntry(db, nd, nn, i), od, on, t)
      first == IF Has(db[i].mode, S_IFDIR) THEN PutEntry(swapped, i, ".", nd) ELSE swapped
  IN SetParent(first, t, od)

RenameExchange(c, od, on, nd, nn) ==
  LET t == RenameTarget(nd, nn)
      denied == RenameDenied(c, od, on, nd, nn)
  IN /\ Up /\ VfsRename(od, on, nd, nn, "EXCHANGE")
     /\ UNCHANGED num
     /\ \/ denied /\ Fail(c, "AccessError")
        \/ ~denied /\ t = NoIno /\ Fail(c, "NotFound")
        \/ /\ ~denied /\ t # NoIno
           /\ db' = Exchanged(od, on, nd, nn, t)
           /\ Reply(c, "Ok")

(* The write transaction of a move.  The size of the new directory is read  *)
(* first and written last, so when the directories are the same one it      *)
(* replaces what step 3.1 wrote.                                            *)
Moved(od, on, nd, nn, t) ==
  LET i == Lookup(od, on)
      gone == IF t = NoIno THEN db ELSE DeleteBucket(PutEntry(db, nd, nn, NoIno), t)
      left == IF t = NoIno THEN db[nd].size ELSE db[nd].size - 1
      put == PutEntry(RemoveEntry(gone, od, on), nd, nn, i)
      sized == [put EXCEPT ![nd].size = IF od = nd THEN left ELSE left + 1]
  IN SetParent(sized, i, nd)

(* dbfs_common_rename without RENAME_EXCHANGE.  For a target that is not a  *)
(* directory the four bytes of hard_links are read as eight: a panic.       *)
RenameMove(c, od, on, nd, nn) ==
  LET i == Lookup(od, on)
      t == RenameTarget(nd, nn)
      overDir == t # NoIno /\ Has(db[t].mode, S_IFDIR)
      denied == RenameDenied(c, od, on, nd, nn)
      fixed == Has(db[i].mode, S_IFDIR) /\ od # nd /\ ~MayWrite(c, i)
  IN /\ Up /\ VfsRename(od, on, nd, nn, "NONE")
     /\ db[nd].size < MaxCount
     /\ UNCHANGED num
     /\ \/ denied /\ Fail(c, "AccessError")
        \/ ~denied /\ overDir /\ NotEmpty(t) /\ Fail(c, "NotEmpty")
        \/ /\ ~denied /\ ~(overDir /\ NotEmpty(t))
           /\ \/ fixed /\ Fail(c, "AccessError")
              \/ ~fixed /\ t # NoIno /\ ~overDir /\ Fail(c, "panic")
              \/ /\ ~fixed /\ (t = NoIno \/ overDir)
                 /\ db' = Moved(od, on, nd, nn, t)
                 /\ Reply(c, "Ok")

-----------------------------------------------------------------------------
(* chmod and chown.                                                         *)

dbfs_common_chmod(c, i, m) ==
  /\ Up
  /\ UNCHANGED num
  /\ \/ ChmodDenied(c, db[i]) /\ Fail(c, "PermissionDenied")
     \/ /\ ~ChmodDenied(c, db[i])
        /\ db' = [db EXCEPT ![i].mode = ChmodMode(@, m)]
        /\ Reply(c, "Ok")

dbfs_common_chown(c, i, uid, gid) ==
  /\ Up
  /\ uid # None \/ gid # None
  /\ UNCHANGED num
  /\ \/ ChownDenied(c, db[i], uid, gid) /\ Fail(c, "PermissionDenied")
     \/ /\ ~ChownDenied(c, db[i], uid, gid)
        /\ db' = [db EXCEPT ![i] = Chowned(@, uid, gid)]
        /\ Reply(c, "Ok")

-----------------------------------------------------------------------------
(* The process ends, by unmounting or by dying, and is started again.  The  *)
(* committed buckets are still there, so init finds the root inode; the     *)
(* counter is a static and starts at 1.                                     *)
Restart ==
  /\ num' = 1
  /\ reply' = [by |-> 0, res |-> "none"]
  /\ UNCHANGED db

(* dbfs_common_root_inode *)
RootInode ==
  [mode |-> Perm777 \cup S_IFDIR, uid |-> Mounter.uid, gid |-> Mounter.gid, size |-> 1,
   hard_links |-> 2, data |-> [NoData EXCEPT !["."] = RootIno]]

Init ==
  /\ db = [i \in {RootIno} |-> RootInode]
  /\ num = RootIno + 1
  /\ reply = [by |-> 0, res |-> "none"]

Rename(c, od, on, nd, nn) ==
  \/ "NONE" \in RenameFlags /\ RenameMove(c, od, on, nd, nn)
  \/ "EXCHANGE" \in RenameFlags /\ RenameExchange(c, od, on, nd, nn)

Next ==
  \/ Restart
  \/ \E c \in Creds, d \in VfsDirs, n \in Names :
       \/ \E m \in Modes : Mkdir(c, d, n, m)
       \/ \E m \in Modes, t \in Types \ {S_IFLNK} : Mknod(c, d, n, m, t)
       \/ S_IFLNK \in Types /\ Symlink(c, d, n)
       \/ \E i \in VfsFiles : Link(c, i, d, n)
       \/ Unlink(c, d, n)
       \/ Rmdir(c, d, n)
       \/ \E nd \in VfsDirs, nn \in Names : Rename(c, d, n, nd, nn)
  \/ \E c \in Creds, i \in VfsDirs \cup VfsFiles :
       \/ \E m \in ChmodModes : dbfs_common_chmod(c, i, m)
       \/ \E uid, gid \in ChownIds \cup {None} : dbfs_common_chown(c, i, uid, gid)

Spec == Init /\ [][Next]_vars

-----------------------------------------------------------------------------
(* Properties.                                                              *)

Entries(b) == {n \in AllNames : b.data[n] # NoIno}

(* The places in the tree that name inode i. *)
Refs(f, i) == {p \in (DOMAIN f) \X Names : f[p[1]].data[p[2]] = i}

(* Every bucket holds a complete, well-typed inode, the counter stays in    *)
(* its bound, and sizes and link counts (usize and u32 in the code) never   *)
(* go below zero.                                                           *)
TypeOK ==
  /\ Inodes \subseteq Ino
  /\ RootIno \in Inodes
  /\ db = [i \in Inodes |-> db[i]]
  /\ \A i \in Inodes : db[i] \in Bucket
  /\ num \in 1 .. MaxIno + 1
  /\ reply \in [by : Nat, res : Results]

(* The "size" key of a directory counts at least the entries it has, "."    *)
(* and ".." included.  rmdir trusts that key to tell an empty directory, so *)
(* an undercount would throw entries away.                                  *)
SizeCoversEntries ==
  \A d \in Dirs : Cardinality(Entries(db[d])) <= db[d].size

(* The link count of a file covers the names it has, and a directory has    *)
(* one name at most.  unlink and rmdir delete the bucket on the strength of *)
(* it.                                                                      *)
LinksCoverNames ==
  \A i \in Inodes :
    Cardinality(Refs(db, i)) <= IF i \in Dirs THEN 1 ELSE db[i].hard_links

(* Every name in a directory leads to an inode that exists, after any       *)
(* history of create, link, unlink, rmdir, rename and restarts (which reuse *)
(* inode numbers).                                                          *)
NoDanglingEntry ==
  \A d \in Dirs, n \in Names : Lookup(d, n) \in Inodes \cup {NoIno}

(* "." and ".." of a directory that has a name: itself and the directory    *)
(* that holds the name.                                                     *)
DotsAreRight ==
  \A d \in Dirs, n \in Names :
    LET i == Lookup(d, n)
    IN i \in Dirs => db[i].data["."] = i /\ db[i].data[".."] = d

(* A directory whose bucket is deleted, by rmdir or by a rename onto it,    *)
(* has no names left in it: nothing below it is cut off.                    *)
OnlyEmptyDirsDeleted ==
  [][\A d \in Dirs \ Inodes' : \A n \in Names : Lookup(d, n) = NoIno]_vars

(* In a sticky directory only root, the directory's owner and the file's    *)
(* owner can take an entry away or make it lead elsewhere.                  *)
StickyProtects ==
  [][\A d \in Dirs, n \in Names :
       Has(db[d].mode, S_ISVTX) /\ Found(d, n)
       /\ (d \notin Inodes' \/ db'[d].data[n] # Lookup(d, n))
       => reply'.by \in {0, db[d].uid, db[Lookup(d, n)].uid}]_vars

-----------------------------------------------------------------------------
(* What a comment of the repository says and the code does not do: a run    *)
(* expects the violation.                                                   *)

(* "Only overwrite an existing directory if it's empty": a move that makes  *)
(* the name of a directory lead elsewhere finds no names in it.             *)
ReplacedDirsAreEmpty ==
  [][\A d \in Dirs \cap Inodes', n \in Names :
       LET t == Lookup(d, n)
       IN t \in Dirs /\ db'[d].data[n] \notin {t, NoIno}
          => \A m \in Names : Lookup(t, m) = NoIno]_vars
=============================================================================
