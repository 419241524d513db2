------------------------------- MODULE DbfsRvfs -------------------------------
(***************************************************************************)
(* The inode operations of the rvfs front end: the transactions of         *)
(* DbfsNamespace, together with what the operations do to the inodes in    *)
(* memory that the kernel's dentries hold.  A lookup makes an inode from   *)
(* the database; afterwards the operations adjust its file_size and        *)
(* hard_links by hand, beside the keys "size" and "hard_links".            *)
(*                                                                         *)
(* The kernel holds a directory during an operation in it, looks a name up *)
(* before it uses it, may drop a dentry that has none below it, and drops  *)
(* the two dentries of a rename.                                           *)
(***************************************************************************)
EXTENDS DbfsMode, FiniteSets

CONSTANTS
  Names, MaxIno, MaxCount,   \* as in DbfsNamespace
  Types,                     \* the types of the inodes created
  Places,                    \* places for inodes in memory
  RootPlace,                 \* the place of the root directory
  NoInode,                   \* stands for no dentry
  TmpLinks                   \* hard_links of an inode that rvfs makes

ASSUME RvfsAssumption ==
  /\ IsFiniteSet(Names) /\ "." \notin Names /\ ".." \notin Names
  /\ MaxIno \in Nat \ {0} /\ MaxCount \in Nat
  /\ IsFiniteSet(Places) /\ RootPlace \in Places /\ NoInode \notin Places
  /\ Types \subseteq {S_IFREG, S_IFDIR, S_IFLNK}
  /\ TmpLinks \in Nat \ {0}

VARIABLES
  db, num, reply,   \* as in DbfsNamespace
  text,             \* the inode numbers whose "size" is written as decimal text
  mem,              \* the inodes in memory
  dentry,           \* the inode of each cached name of a directory
  renamed           \* history: a rename was carried out

vars == <<db, num, reply, text, mem, dentry, renamed>>

Kernel == [uid |-> 0, gid |-> 0]

DB == INSTANCE DbfsNamespace WITH
  Creds <- {Kernel}, Mounter <- Kernel, Modes <- {Perm777}, ChmodModes <- {},
  ChownIds <- {}, Types <- Types \ {S_IFDIR}, RenameFlags <- {}, TargetLen <- 0

-----------------------------------------------------------------------------
Free == [number |-> 0, dir |-> FALSE, file_size |-> 0, hard_links |-> 0]

(* create_tmp_inode_from_sb_blk *)
TmpInode(i, t) ==
  [number |-> i, dir |-> t = S_IFDIR, file_size |-> 0, hard_links |-> TmpLinks]

(* The root inode that dbfs_create_root_inode makes. *)
RootInMemory(count) == [TmpInode(1, S_IFDIR) EXCEPT !.file_size = count, !.hard_links = 0]

OnlyRoot(count) == [x \in Places |-> IF x = RootPlace THEN RootInMemory(count) ELSE Free]

NoDentry == [p \in Places \X Names |-> NoInode]

Cached(o, n) == dentry[<<o, n>>]
Bind(o, n, x) == [dentry EXCEPT ![<<o, n>>] = x]

(* An inode is in memory as long as a dentry holds it. *)
Held(ms, ds) ==
  [x \in Places |-> IF x = RootPlace \/ \E p \in DOMAIN ds : ds[p] = x THEN ms[x] ELSE Free]

Leaf(x) == \A n \in Names : Cached(x, n) = NoInode

Number(x) == mem[x].number

(* file_size and hard_links wrap; the integer here stands for its residue. *)
Sized(o, k) == [mem EXCEPT ![o].file_size = @ + k]

Exists(o) == Number(o) \in DOMAIN db

(* usize! takes exactly eight bytes: it panics on a size stored as text. *)
Readable(i) == i \notin text

Running == reply.res # "panic"

Answer(res) == reply' = [by |-> Kernel.uid, res |-> res]

(* The operation returns an error or panics: its transaction is dropped. *)
Fail(res) == Answer(res) /\ UNCHANGED <<db, text, mem, dentry, renamed>>

(* What an operation in directory o does before it changes anything, when   *)
(* the bucket of o is gone or its size cannot be read.                      *)
Stops(o) ==
  \/ ~Exists(o) /\ Fail("NotFound")
  \/ Exists(o) /\ ~Readable(Number(o)) /\ Fail("panic")

Goes(o) == Exists(o) /\ Readable(Number(o))

(* The change in memory that follows a transaction.  A bucket that the      *)
(* transaction deleted takes its size with it.                              *)
Committed(ms, ds) ==
  /\ mem' = Held(ms, ds)
  /\ dentry' = ds
  /\ text' = text \cap DOMAIN db'
  /\ UNCHANGED renamed

-----------------------------------------------------------------------------
(* dbfs_lookup, of a name that is in the database (it changes nothing when  *)
(* there is none).                                                          *)
LookedUp(i) ==
  [number |-> i, dir |-> IsDirectory(db[i].mode),
   file_size |-> db[i].size, hard_links |-> db[i].hard_links]

dbfs_lookup(o, n, x) ==
  LET i == DB!Lookup(Number(o), n)
  IN /\ Exists(o) /\ Cached(o, n) = NoInode /\ i \in DOMAIN db
     /\ UNCHANGED num
     /\ \/ ~Readable(i) /\ Fail("panic")
        \/ /\ Readable(i)
           /\ mem' = [mem EXCEPT ![x] = LookedUp(i)]
           /\ dentry' = Bind(o, n, x)
           /\ Answer("Ok")
           /\ UNCHANGED <<db, text, renamed>>

(* The kernel looked the name up and dbfs_lookup found nothing. *)
KnownAbsent(o, n) ==
  Cached(o, n) = NoInode /\ (Exists(o) => DB!Absent(Number(o), n))

-----------------------------------------------------------------------------
CreatedForgetsSize(o, x, t) == [mem EXCEPT ![x] = TmpInode(num, t)]

CreatedReadsCounterAgain(o, x, t) == [Sized(o, 1) EXCEPT ![x] = TmpInode(num + 1, t)]

Created(o, x, t) == [Sized(o, 1) EXCEPT ![x] = TmpInode(num, t)]

(* dbfs_create, dbfs_mkdir and dbfs_symlink *)
dbfs_rvfs_create(o, n, x, t) ==
  /\ KnownAbsent(o, n)
  /\ \/ num \in DB!Ino /\ num' = num + 1 /\ Stops(o)
     \/ /\ Goes(o)
        /\ mem[o].file_size < MaxCount
        /\ DB!Create(Kernel, Number(o), n, Perm777 \cup t)
        /\ \/ reply'.res = "Ok" /\ Committed(Created(o, x, t), Bind(o, n, x))
           \/ reply'.res # "Ok" /\ UNCHANGED <<text, mem, dentry, renamed>>

LinkedForgetsInode(o, x) == Sized(o, 1)

Linked(o, x) == [Sized(o, 1) EXCEPT ![x].hard_links = @ + 1]

(* dbfs_link: the new dentry shares the inode of the old one.  The          *)
(* attributes of the inode are read after the commit: when its size is text *)
(* the link is stored, and the panic comes before the change in memory.     *)
dbfs_link(x, o, n) ==
  /\ ~mem[x].dir /\ KnownAbsent(o, n)
  /\ UNCHANGED num
  /\ \/ Stops(o)
     \/ Goes(o) /\ ~Exists(x) /\ Fail("NotFound")
     \/ /\ Goes(o) /\ Exists(x)
        /\ mem[o].file_size < MaxCount /\ mem[x].hard_links < MaxCount
        /\ \/ /\ Readable(Number(x))
              /\ DB!Link(Kernel, Number(x), Number(o), n)
              /\ Committed(Linked(o, x), Bind(o, n, x))
           \/ /\ ~Readable(Number(x))
              /\ db[Number(o)].size < MaxCount /\ db[Number(x)].hard_links < MaxCount
              /\ db' = DB!AddLink(DB!AddEntry(db, Number(o), n, Number(x)), Number(x))
              /\ Answer("panic")
              /\ UNCHANGED <<text, mem, dentry, renamed>>

Unlinked(o, n) == [mem EXCEPT ![Cached(o, n)].hard_links = @ - 1]

(* dbfs_unlink.  dbfs_common_unlink is told the inode of the dentry; the    *)
(* file_size of the directory stays as it is.                               *)
dbfs_unlink(o, n) ==
  LET x == Cached(o, n)
      named == Exists(o) /\ ~DB!Absent(Number(o), n)
  IN /\ x # NoInode /\ ~mem[x].dir
     /\ UNCHANGED num
     /\ \/ /\ ~Exists(o) \/ (named /\ ~Exists(x))
           /\ Fail("NotFound")
        \/ /\ Exists(o)
           /\ ~named \/ (Exists(x) /\ ~Readable(Number(o)))
           /\ Fail("panic")
        \/ /\ named /\ Exists(x) /\ Readable(Number(o))
           /\ db' = DB!DropLink(DB!RemoveEntry(db, Number(o), n), Number(x))
           /\ Answer("Ok")
           /\ Committed(Unlinked(o, n), Bind(o, n, NoInode))

Removed(o) == Sized(o, -1)

(* dbfs_rmdir.  The size of the directory to go is read before that of the  *)
(* directory it is in.                                                      *)
dbfs_rmdir(o, n) ==
  LET x == Cached(o, n)
      i == DB!Lookup(Number(o), n)
      found == Exists(o) /\ i \in DOMAIN db
  IN /\ x # NoInode /\ mem[x].dir /\ Leaf(x)
     /\ UNCHANGED num
     /\ \/ ~Exists(o) /\ Fail("NotFound")
        \/ /\ Exists(o)
           /\ ~found \/ ~Readable(i) \/ (found /\ ~DB!NotEmpty(i) /\ ~Readable(Number(o)))
           /\ Fail("panic")
        \/ found /\ Readable(i) /\ DB!NotEmpty(i) /\ Fail("NotEmpty")
        \/ /\ found /\ Readable(i) /\ ~DB!NotEmpty(i) /\ Readable(Number(o))
           /\ db' = DB!DeleteBucket(DB!RemoveEntry(db, Number(o), n), i)
           /\ Answer("Ok")
           /\ Committed(Removed(o), Bind(o, n, NoInode))

-----------------------------------------------------------------------------
(* dbfs_rename.  In one directory the old key is kept, and it is the number *)
(* of the directory that is stored under it.  Between two directories the   *)
(* new key too gets the number of its directory, and both sizes are written *)
(* as text.                                                                 *)
RenamedWithin(d, on) == DB!PutEntry(db, d, on, d)

RenamedAcross(d, on, e, nn) ==
  [DB!PutEntry(DB!RemoveEntry(db, d, on), e, nn, e) EXCEPT ![e].size = @ + 1]

dbfs_rename(o, on, p, nn) ==
  LET d == Number(o)
      e == Number(p)
      forgotten == [q \in DOMAIN dentry |-> IF q \in {<<o, on>>, <<p, nn>>} THEN NoInode ELSE dentry[q]]
      across == [mem EXCEPT ![o].file_size = @ - 1, ![p].file_size = @ + 1]
  IN /\ Cached(o, on) # NoInode /\ Leaf(Cached(o, on))
     /\ Cached(o, on) # p
     /\ Cached(p, nn) # NoInode => Leaf(Cached(p, nn)) /\ Cached(p, nn) # o
     /\ <<o, on>> # <<p, nn>>
     /\ UNCHANGED num
     /\ \/ ~Exists(o) /\ Fail("panic")
        \/ Exists(o) /\ DB!Absent(d, on) /\ Fail("NotFound")
        \/ /\ Exists(o) /\ ~DB!Absent(d, on) /\ d = e
           /\ db' = RenamedWithin(d, on)
           /\ dentry' = forgotten /\ mem' = Held(mem, forgotten)
           /\ renamed' = TRUE /\ Answer("Ok")
           /\ UNCHANGED text
        \/ /\ Exists(o) /\ ~DB!Absent(d, on) /\ d # e
           /\ ~Exists(p) \/ ~Readable(d) \/ ~Readable(e)
           /\ Fail("panic")
        \/ /\ Exists(o) /\ ~DB!Absent(d, on) /\ d # e
           /\ Exists(p) /\ Readable(d) /\ Readable(e)
           /\ db[e].size < MaxCount
           /\ db' = RenamedAcross(d, on, e, nn)
           /\ text' = text \cup {d, e}
           /\ dentry' = forgotten /\ mem' = Held(across, forgotten)
           /\ renamed' = TRUE /\ Answer("Ok")

-----------------------------------------------------------------------------
(* The kernel drops a dentry. *)
Evict(o, n) ==
  /\ Cached(o, n) # NoInode /\ Leaf(Cached(o, n))
  /\ dentry' = Bind(o, n, NoInode)
  /\ mem' = Held(mem, dentry')
  /\ UNCHANGED <<db, num, reply, text, renamed>>

(* The machine stops and mounts the database again.  The counter comes back *)
(* as a number it had at some sync (DbfsMount).  A root that was removed is *)
(* made anew, if the counter is 1.                                          *)
Mount ==
  LET rootless == 1 \notin DOMAIN db
  IN \E k \in 1..num :
       /\ dentry' = NoDentry
       /\ \/ /\ ~Readable(1) \/ (rootless /\ k # 1)
             /\ Answer("panic")
             /\ mem' = OnlyRoot(0)
             /\ num' = k
             /\ UNCHANGED db
          \/ /\ Readable(1) /\ (rootless => k = 1)
             /\ Answer("none")
             /\ num' = IF rootless THEN k + 1 ELSE k
             /\ db' = IF rootless THEN DB!PutBucket(db, 1, DB!RootInode) ELSE db
             /\ mem' = OnlyRoot(db'[1].size)
       /\ UNCHANGED <<text, renamed>>

Init ==
  /\ DB!Init
  /\ text = {}
  /\ mem = OnlyRoot(db[1].size)
  /\ dentry = NoDentry
  /\ renamed = FALSE

Next ==
  \/ Mount
  \/ /\ Running
     /\ \E o \in {x \in Places : mem[x].dir}, n \in Names :
          \/ \E x \in Places : mem[x] = Free /\ dbfs_lookup(o, n, x)
          \/ \E x \in Places, t \in Types : mem[x] = Free /\ dbfs_rvfs_create(o, n, x, t)
          \/ \E x \in Places : mem[x] # Free /\ dbfs_link(x, o, n)
          \/ dbfs_unlink(o, n)
          \/ dbfs_rmdir(o, n)
          \/ \E p \in {x \in Places : mem[x].dir}, m \in Names : dbfs_rename(o, n, p, m)
          \/ Evict(o, n)

Spec == Init /\ [][Next]_vars

-----------------------------------------------------------------------------
(* Properties.                                                              *)

NamesIn(i) == {n \in Names : ~DB!Absent(i, n)}
InMemory == {x \in Places : mem[x] # Free}
Dentries(x) == {q \in DOMAIN dentry : dentry[q] = x}

(* The buckets are well-typed (sizes and link counts never go below zero    *)
(* there), text is about buckets, and dentries lead to inodes in memory.    *)
TypeOK ==
  /\ \A i \in DOMAIN db : i \in DB!Ino /\ db[i] \in DB!Bucket
  /\ num \in 1 .. MaxIno + 1
  /\ reply \in [by : {Kernel.uid}, res : DB!Results]
  /\ text \subseteq DOMAIN db
  /\ mem \in [Places -> [number : 0..MaxIno, dir : BOOLEAN, file_size : Int, hard_links : Int]]
  /\ dentry \in [Places \X Names -> InMemory \cup {NoInode}]
  /\ renamed \in BOOLEAN

(* Until the first rename, the file_size of a directory in memory covers    *)
(* the names that the database has in it, although mkdir starts it at 0,    *)
(* lookup takes it from the database and unlink leaves it alone: dbfs_rmdir *)
(* can take one away.                                                       *)
MemoryCoversNames ==
  ~renamed => \A x \in InMemory :
    mem[x].dir /\ Exists(x) => Cardinality(NamesIn(Number(x))) <= mem[x].file_size

(* The hard_links of an inode in memory cover the dentries that share it,   *)
(* so that dbfs_unlink of each of them can take one away; other inodes in   *)
(* memory may stand for the same file.                                      *)
MemoryCoversLinks ==
  \A x \in InMemory : Cardinality(Dentries(x)) <= mem[x].hard_links

(* Until the first rename, a cached name leads where the database says.     *)
(* dbfs_unlink gives the number in memory to dbfs_common_unlink, which      *)
(* drops a link of that inode and the key of that name.                     *)
CacheAgrees ==
  ~renamed => \A q \in DOMAIN dentry :
    dentry[q] # NoInode =>
      Exists(q[1]) /\ DB!Lookup(Number(q[1]), q[2]) = Number(dentry[q])

(* Until the first rename, an operation that changes the database is a      *)
(* request of DbfsNamespace: what the kernel knows from its dentries is     *)
(* what DbfsNamespace assumes of it, and the tree keeps its invariants.     *)
ImplementsNamespace ==
  [][renamed' \/ (num' <= num /\ UNCHANGED db) \/ DB!Next]_<<db, num, reply>>

(* Until the first rename, nothing panics: the names that dbfs_unlink and   *)
(* dbfs_rmdir unwrap, because a dentry has them, are in the database, the   *)
(* bucket that dbfs_rmdir unwraps is there, every size is eight bytes, and  *)
(* each mount finds the root.                                               *)
OnlyRenamePanics == reply.res = "panic" => renamed
=============================================================================
