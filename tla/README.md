# A TLA+ model of DBFS

DBFS (`src/`) is a file system kept in a key-value database (jammdb). One layer
of functions, `dbfs_common_*`, does the work. Two front ends call it: FUSE
(`src/src/fuse/`) and rvfs, a VFS for a kernel written in Rust
(`src/src/inode.rs`, `file.rs`, `fs_type.rs`, the functions named `dbfs_*`).
Applications may also send operations on buckets directly (`extend.rs`).

This directory models all parts that change state. TLC checks the models on
small instances. TLAPS proves most of their properties for all instances.

## 1. Inventory

| Part | Source | State it changes | Model |
|---|---|---|---|
| Directory tree | `inode.rs`, `link.rs` | inode buckets: `data:<name>` keys, `size`, `hard_links` | `DbfsNamespace` |
| Attributes, extended attributes | `attr.rs`, `fuse/attr.rs` | `mode`, `uid`, `gid`, times, attribute keys | `DbfsAttr` (chmod and chown also in `DbfsNamespace`) |
| Permission words | `common.rs` 96-181, `inode.rs` 505-546 | none | `DbfsMode` |
| File contents | `file.rs`, `inode.rs` 702-902 | `zdata:<i>` keys, `size`, `disk_size` | `DbfsFile`, `ByteFile` |
| Directory reading | `file.rs` 293-438, `fuse/file.rs` 117-207, `common.rs` 322-353 | `GLOBAL_READDIR_TABLE` | `DbfsReaddir` |
| Mount and inode numbers | `fs_type.rs`, `fuse/mkfs.rs`, `fuse/sblk.rs` | `continue_number`, `DBFS_INODE_NUMBER`, root inode | `DbfsMount` |
| FUSE dispatch | `fuse/mod.rs`, `fuse/inode.rs`, `fuse/link.rs` | as above | guards and `Next` of these modules |
| rvfs adapter | `inode.rs` 60-503, `file.rs` 49-67, `fs_type.rs` | inodes in memory beside the database | `DbfsRvfs`; files, listings and mounting in their modules |
| Extend interface | `extend.rs` | any bucket | `DbfsExtend` |
| Slice buffers | `lib.rs` | buddy allocator | contents of a buffer (`Garbage`); not the allocator |

How the parts interact: a front end receives a request, resolves names through
`dbfs_common_lookup`, and calls one `dbfs_common_*` function. That function
opens one or more transactions on the global database. A write transaction is
atomic and durable once committed; a function that returns early drops its
transaction and so changes nothing. Three things live outside transactions: the
inode counter `DBFS_INODE_NUMBER`, the readdir table, and the inodes that an
rvfs kernel keeps in memory.

## 2. Modules

### DbfsMode

A mode word is the set of positions of its 1 bits. `Has(mode, flag)` is
bitflags' `contains`: all bits of the flag are there. File types share bits
(`S_IFSOCK` and `S_IFBLK` contain `S_IFDIR`'s bit, `S_IFLNK` contains
`S_IFCHR`'s), so the order of tests in the code matters, and the model keeps it.
The rules of chmod and chown are here because two modules use them.

### DbfsNamespace

State: `db`, the inode buckets as a function from the inode numbers that exist;
`num`, the counter; `reply`, the caller and result of the last request.
An action is one FUSE request. The session loop hands requests over one at a
time, and each handler commits at most one write transaction, so a request is
one step. `reply.res = "panic"` stands for a panicking handler; after it only
`Restart` is possible.

What the Linux VFS guarantees before it sends a request is in `VfsDirs`,
`VfsFiles`, `VfsRename`, `Absent` and `Found`: names resolved, no create of an
existing name, no request in a directory that was removed, no directory moved
below itself. The VFS also never sends a rename between two names of one inode.

| Action | Code |
|---|---|
| `Create` (`Mkdir`, `Mknod`, `Symlink`) | `dbfs_common_create` |
| `Link`, `Unlink`, `Rmdir` | `dbfs_common_link`, `_unlink`, `_rmdir` |
| `RenameMove`, `RenameExchange` | `dbfs_common_rename` without and with `RENAME_EXCHANGE` |
| `dbfs_common_chmod`, `dbfs_common_chown` | the functions of those names |
| `Restart` | the process ends, by unmount or crash, and `init` runs again |

Times, block sizes and device numbers are left out. Names are model values, a
symbolic link's target is its length.

### DbfsAttr

One file: its mode, owner, `mtime`, `ctime` and extended attributes, and the
system clock. An action is one FUSE request. `setattr` carries any mix of mode,
owner, size and times, and the handler applies the first kind it finds; its
four branches are `Chmod`, `Chown`, `Truncate` and `Utimens`. `setxattr`,
`getxattr` and `removexattr` check the prefix of the key and then the caller.
A value of an attribute is its length. `changed` is a history variable: the time
of the last change of an attribute.

### DbfsFile and ByteFile

`DbfsFile` has one step per transaction. `dbfs_common_write` is one step,
`dbfs_common_truncate` two (`TruncateAttr` reads the attributes, `TruncateTx`
uses them), `dbfs_common_copy_file_range` three (its fourth transaction only
sets times). What a thread read and has not used yet is in `op`. rvfs threads
write and truncate. `dbfs_truncate` locks an inode in memory; a write does not
take that lock, and two hard links that were looked up separately have two such
inodes, so the lock excludes nothing here.
Only FUSE allocates and copies, on one thread. A request that the access check
refuses changes nothing and is not an action of its own here.

`Read` follows the loop of `dbfs_common_read`, slice by slice, with its counter.
The slice buffer of a write is not initialised: `Garbage` is the set of values
its bytes may have. `covered` is a history variable: the bytes that writes have
covered since they were last cut off. No guard reads it.

`ByteFile` is the abstract file: a sequence of bytes, changed by `Write` and
`Resize`; bytes never written read as `Fill`. `DbfsFile` implements it in two
ways. Its covered bytes are one, whatever the buffers held
(`KeepsWrittenBytes`). All its bytes are a `ByteFile` with `Fill` 0 if the part
of a new slice that no write covers is zero (`ImplementsByteFile`).

### DbfsReaddir

One directory and its slot of `GLOBAL_READDIR_TABLE`. Names are numbers in the
order of their keys. Under FUSE a lister is an open handle and a request is one
step; how much fits in a reply, and how much of it the kernel hands on before
it asks again, is chosen freely. Under rvfs a lister is a thread in
`dbfs_readdir`, with one step per access to the table. Names are added and
removed between any two steps. A failing assertion sets `crashed`; then only
`Restart` is possible. `hist` is a history variable: what a lister has got and
whether it was disturbed.

`dbfs_common_readdir` clears its buffer before it takes the buffer's length, so
the length never ends its loop and it returns all entries after the saved one.

### DbfsMount

State: `continue_number` and `inodes` (durable), `num`, `phase` and `pend` (in
memory), `crashes`. Creating an inode is two steps because the code takes a
number (`TakeNumber`) before its transaction begins (`CreateTx`). `Crash` can
come between any two steps. `front` selects the mount sequence: rvfs loads the
saved number, FUSE does not. `Remove` takes any inode away, under rvfs the root
too (see `DbfsRvfs`); `unrooted` is a history variable that remembers this.
`RootInode` makes a missing root if the counter is 1, and otherwise its assertion
fails and the mount is given up.

### DbfsRvfs

The inode operations of rvfs, on top of `DbfsNamespace`, which it instantiates
as `DB` with the kernel as the only caller. Its own state: `mem`, the inodes in
memory with their `file_size` and `hard_links`; `dentry`, the cached names and
the inodes they hold; `text`, the inode numbers whose `size` key is decimal text
(`dbfs_rename` writes it so, and `usize!` panics on it) for as long as their
buckets exist. A lookup fills an inode
from the database, the operations then adjust it by hand. The kernel may drop a
dentry that has none below it, and remount at any time. `TmpLinks` is the link
count that rvfs gives a new inode.

`renamed` is a history variable. `dbfs_rename` stores the number of the new
directory as the inode number of the entry, so after it the tree is not one
that any request of `DbfsNamespace` could have made; most properties stop there.
A panic answers `"panic"`. `dbfs_link` reads the attributes of the linked inode
after its commit; if that inode's size is text, the link is stored, the panic
follows, and the inodes in memory do not learn of it.

### DbfsExtend

`store` is a function from paths to values, with a mark for buckets, and `tx`
what the open transaction has made of it. A program is a list of operations,
some with lists for the bucket inside, and is one transaction. The code is
recursive, so the calls that have not returned are state: `calls` has the bucket,
the list and the index of each call of `execute_operate_real`, `copies` the two
buckets of each call of `copy_bucket_data_recursive` and the keys that its cursor
has yet to visit, in any order. A step is one operation
(`execute_operate_real`), one key of a copy (`copy_bucket_data_recursive`), the
return of a call, the delete that ends the rename of a bucket (`DeleteOld`), or
the commit. An unwrap that fails drops the transaction (`Unwind`). A sender that
does not see the answer sends its list again; `again` marks that. `moving.was`,
the buckets before the rename under way, is a history value. An operation with
several keys is several operations with one, and what `Read` copies into the
caller's buffer is left out.

### Composition

`DbfsRvfs` composes the tree with the inodes in memory, and its property
`ImplementsNamespace` shows that this composition takes only steps of the tree.
`DbfsNamespace` contains the part of `DbfsMount` that FUSE exhibits (a counter
that restarts at 1), and `DbfsRvfs` the part that rvfs exhibits (a counter that
comes back as an earlier one), so that reuse of inode numbers is explored
together with the tree. The other modules share no variables: the tree uses
`size` of directories, the files use `size` of regular files, and the truncate
of `DbfsAttr` is the attribute part of the one in `DbfsFile`.

## 3. Runs

Passing runs. Deadlock is checked in all of them.

| Run | Instance | Shows |
|---|---|---|
| `namespace_move` | 2 names, 4 inodes, one caller, sticky and plain directories, plain rename | sizes, link counts, names and dot entries stay consistent; only empty directories are deleted |
| `namespace_sticky` | 2 names, 3 inodes, 2 callers, symbolic links, moves and exchanges, chmod and chown | an entry of a sticky directory is taken away only by its owner, the directory's owner or root; sizes and names stay consistent |
| `mount` | both front ends, 2 threads, 5 numbers, 2 crashes | under rvfs numbers are fresh, restored and saved forwards; the root assertion holds unless the root was removed; creates that collide with old inodes stop colliding |
| `file_fuse` | 1 file of up to 5 bytes, slices of 2 bytes, write, truncate, fallocate, copy within the file | refinement of `ByteFile`, no slice beyond the end, aligned reads exact also over a gap |
| `file_rvfs` | 2 threads, 3 bytes in slices of 2, arbitrary buffers | written bytes survive writes between the steps of a truncate |
| `readdir` | both front ends, 2 listers, 3 names, batches of 2 | a listing that had the directory to itself is exact; nothing that earlier listings left makes it fail; no slot outlives the handles |
| `attr` | root and a user, setuid and setgid files, 3 keys, lengths up to 2 | setuid stays with root, setgid with the group, ctime covers changes |
| `rvfs` | 2 names, 3 inode numbers, 3 places in memory | memory covers what the database has, cached names are right, every step is one of `DbfsNamespace` and none panics until a rename |
| `extend` | 2 keys, 2 values, depth 4, 5 paths, lists of 2 operations, one level nested | buckets stay a forest, renaming a bucket moves all of it, adding twice is adding once |

Bounds. Four inodes give a root, a directory, a file and one more to move or
replace, and restarts make their numbers collide. Two names are enough for a
hard link and for a directory that is not empty. `MaxCount` bounds directory
sizes, which drift upwards (`rvfs` was also run with 4 in place of 3). Five
bytes in slices of two give a first, a middle and a partial last slice, and
writes that begin and end inside slices; with two threads, three bytes are
enough for a truncate to free a slice that a write has just stored. `DiskSize` is small enough for the
space check to refuse. Copying runs through the same steps whether or not source
and destination are one file, so one file is enough. Three names make replies
that end before, in and after the middle; the batch of 16 is 2, so that the loop
of `dbfs_readdir` goes round. One tick of the clock is enough to tell old times
from new. Five paths let a bucket with a bucket and a key inside be renamed; the
bound is on what is committed, and a commit beyond it fails like one on a full
disk (`Fits`). The panic of `dbfs_link` after its commit needs more places and
numbers than the `rvfs` run has: a file in memory whose number has come to be
that of a directory. The theorems about `DbfsRvfs` include it. Names, threads, listers and places are symmetric; symmetry is not used
with liveness.

Fairness. Only `CollisionsEnd` needs it. `Fairness` says that a boot or mount
that has begun goes on, that callers keep creating, and that a create that has
taken its number ends. The last holds because transactions do not wait for each
other for ever; the first two are about the environment, and without callers
that create there is nothing to end. Nothing is assumed of unmounts and crashes.

Runs that expect a violation. Each states what a comment of the repository says
and TLC shows a behaviour of the code against it.

| Run | Statement | What happens |
|---|---|---|
| `bug_overwrite` | only empty directories are overwritten | only if the parent is sticky |
| `bug_unaligned` | the offset is taken in the slice where the read starts | it is 0 in all slices but the first |
| `bug_readdir` | a directory can be read on when readdir is called again | the entry that did not fit is saved as if it had been returned; the next request fails an assertion |

The models show more of the kind, which no run states and which the properties
above leave room for:

- A move onto an existing name outside a sticky directory overcounts the size of
  the directory and keeps the link count of the file that lost its name, so
  `SizeCoversEntries` and `LinksCoverNames` are bounds and not equalities.
- A move onto a file inside a sticky directory reads the four bytes of
  `hard_links` as eight and panics (`inode.rs` 1126).
- An exchange outside a sticky directory is answered with `NotFound`. Inside
  one it writes the first directory's new parent to `.` and not to `..`, so
  `DotsAreRight` is checked without exchanges.
- Sockets and block devices count as directories where rename tests
  `contains(S_IFDIR)`: a move onto one of two names of a socket deletes its
  bucket. The theorems about the tree assume that there are none (`PlainTypes`).
- FUSE saves `continue_number` on unmount and never loads it.
- A read over two gaps drops the first slice of the second, and a gap at the end
  of a read is not filled (`OneGap` in `AlignedReadsAreExact`).
- With two threads, a write between the two transactions of a truncate leaves a
  slice behind the new end; `NoSliceBeyondEnd` is about one thread.
- `disk_size` grows when written data is truncated, as writing took nothing.
- A partly written new slice keeps the rest of its buffer, which shows when the
  file grows; hence two refinements, one of all bytes and one of those written.
- Two listings of one directory that overlap share a slot, and a saved name that
  is unlinked is not found again: both make an assertion fail.
- `removexattr` never commits: it reports success and removes nothing.
- `setattr` with several kinds of attributes applies one and reports success;
  with none of them it sends no answer.
- An rvfs rename inside one directory changes no name but makes the old one lead
  to the directory itself, so that a later rmdir of that name may delete it. A
  rename between two directories writes their sizes as text, after which create,
  link, unlink and rmdir in them panic, and so does a remount if one is the root.
- A root that was removed in this way is not made again: the assertion in
  `dbfs_common_root_inode` fails on every mount whose counter is not 1.
- A caller of `getxattr` may be told a length that a `setxattr` in between
  makes too small; the read is then refused and has to be repeated.

## 4. Proofs

| Theorems | Assume | Say |
|---|---|---|
| `DbfsNamespaceProofs`: `TypeCorrect`, `SizesCover`, `LinksCover`, `NamesLeadSomewhere`, `DeletedDirsWereEmpty` | no sockets or block devices are created (`PlainTypes`) | `TypeOK`, `SizeCoversEntries`, `LinksCoverNames`, `NoDanglingEntry`, `OnlyEmptyDirsDeleted` |
| `DbfsNamespaceProofs!StickyHolds` | `PlainTypes` | `StickyProtects` |
| `DbfsNamespaceProofs!DotsStayRight` | `PlainTypes`, no `RENAME_EXCHANGE` (`NoExchange`) | `DotsAreRight` |
| `DbfsMountProofs`: `TypeCorrect`, `RootAssertionHolds`, `RvfsRestoresNumber`, `RvfsNumbersAreFresh`, `RvfsSavedNumberGrows` | | `TypeOK`, `RootAssertion` (for a root that was not removed), `NumberRestored`, `FreshNumbers`, `SavedNumberGrows` |
| `DbfsFileProofs`: `FileTypeCorrect`, `WrittenBytesAreKept`, `ReadsAreExact` | | `TypeOK`, the refinement `KeepsWrittenBytes` for any threads and buffers, and `AlignedReadsAreExact` |
| `DbfsFileProofs`: `NothingBehindEnd`, `SlicesImplementBytes` | one thread; the second also that uncovered bytes of new slices are zero (`CleanStep`) | `NoSliceBeyondEnd`, and the refinement `ImplementsByteFile` |
| `DbfsReaddirProofs`: `ReaddirTypeCorrect`, `ListingsExact`, `UndisturbedSucceed`, `SlotsAreReleased` | | `TypeOK`, `ListingsAreExact`, `UndisturbedListingsSucceed`, `NoSlotWithoutHandle` |
| `DbfsRvfsSafety`: `TypeCorrect`, `LinksInMemory` | | `TypeOK`, `MemoryCoversLinks`, also after renames |
| `DbfsRvfsProofs`: `CacheIsRight`, `NamesInMemory`, `NoPanicBeforeRename`, `RvfsImplementsNamespace`, `TreeBeforeRename` | | `CacheAgrees`, `MemoryCoversNames`, `OnlyRenamePanics`, the refinement `ImplementsNamespace`, and the invariants of the tree until the first rename |
| `DbfsExtendProofs`: `ExtendTypeCorrect`, `BucketsAreMoved`, `AddsAreRetried` | | `TypeOK`, `RenameMovesBuckets`, `AddsCanBeRetried`, for lists of any length and depth |
| `DbfsAttrProofs`: `AttrTypeCorrect`, `SetuidStaysWithRoot`, `CtimeIsKept`, `SetgidStaysWithGroup` | | `TypeOK`, `SetuidIsRoots`, `CtimeCoversChanges`, `SetgidKeepsGroup` |

Apart from that the constants are arbitrary, within the assumptions named
`...Assumption` in the modules that declare them.

The tree. None of the invariants is inductive. `rmdir` keeps names valid
only because a size bounds the entries and a directory has one name; a size
stays a bound only because a name is removed where it was counted. The
inductive invariant `IInv` therefore speaks of all
buckets, also those that no name leads to any more:

- the bit of `S_IFDIR` is set in directories only (`ModesOK`; false for sockets);
- files have no entries, every directory but the root has both dots (`DotsOK`),
  so that size 2 means no names;
- a name leads to an existing inode other than the root and its own directory
  (`NamesOK`);
- sizes bound entries and link counts bound names (`SizesOK`, `LinksOK`).

`DbfsNamespaceProofs` has the invariant and its counting lemmas first, then one
lemma per request, then the theorems. `StickyHolds` goes
through the requests once more: the entries they leave alone, and the check
before those they do not. `DotsStayRight` adds `DotsInv` to `IInv`: `"."` of
every directory is itself, and `".."` of one that has a name is the directory
that the name is in.

The mount. `LifeInv` ties the phase to the super block and the root inode.
`NumberInv` adds that, without crashes, every number in use is below the one
that the next create, or the next mount, starts from.

The files. `IInv` says that covered bytes are before the end and in stored
slices; that suffices for `KeepsWrittenBytes`, also when a truncate uses a size
that is no longer right. With one thread that size is right
(`TruncateIsUpToDate`), nothing is stored behind the end, and what a slice holds
there is zero (`ZerosBehindEnd`), so that growing shows zeros. For that the
theorem assumes `[][CleanStep]_vars`: a step that stores a slice for the first
time leaves zeros in it where no write has covered it. It says nothing of bytes
that are written, nor of slices that exist. The refinements
are proved step by step: each step is one of `ByteFile` or leaves its contents.
A copy writes what `Read` returned, so its step needs that this is a sequence of
bytes no longer than asked for (`ReadType`). `Read` is a fold over a set of slice
numbers. `Folds` says what a fold is, `FoldExists` and `FoldOf` that the fold of
the community modules is one, and induction over the bound of the set
(`Induction`, from the well-foundedness of `<`) proves facts about it. The
library's induction theorems are not used, as they take a predicate; a set of
numbers takes its place.

`AlignedReadsAreExact` follows from `TypeOK` alone. For an aligned offset slice
`x` is entered at `Enters(x, off)`, and the bytes of a hole add up to the distance
between the slices around it (`HoleLength`). The loop invariant `GapInv` has three
phases: before the gap the counter is the next slice and the buffer ends where
that begins; in the gap both stay; behind it the counter is at least the next
slice, so that no further hole is filled. `GapTurn` and `GapSkip` preserve it for
a slice with and without a key.

Directory reading. A listing that is alone is in one of three positions relative
to the slot: `Fresh` (nothing read, slot empty), `Follows` (right behind the
saved entry, with all names up to it, once each) or `Lost` (its next request will
be refused); the last is excluded while its replies were taken whole.

Attributes. The three invariants are inductive together, and the action property
follows from them request by request.

The rvfs adapter. Two modules build on each other. `DbfsRvfsSafety` has the
part of the invariant that renames do not break (`BaseInv`: types, dentries that
lead to inodes in memory, link counts that cover the dentries sharing an inode),
what each operation does to the buckets, what a dentry that is added or dropped
does to the cache, and which request of `DbfsNamespace` an operation is.
`DbfsRvfsProofs` shows that each operation keeps the cache right, and combines
all this in `RvfsInv`: `BaseInv`, and until the first rename the invariant `IInv`
of the tree, no size kept as text, and `CacheOK`. An operation without a rename
maps to a step of `DbfsNamespace`, so the lemmas of
`DbfsNamespaceProofs`, instantiated for the database of rvfs, say that it
preserves `IInv`; that in turn is what the cache relies on (a name that was
looked up cannot change its inode without an operation on it). `PlainTypes` is
no assumption here, as rvfs creates files, directories and symbolic links only.
From `CacheOK`, what an operation unwraps is there: `NoPanic` goes through the
operations once and finds only other answers.

The extend interface. `Inv` has three parts. Both states of the buckets are a
`Forest`: a path leads through buckets only. Pending calls work on buckets that
exist, each longer as a path than the one before (`Pending`), so that a rename,
which works inside the innermost, deletes none of them. While a bucket is copied
(`Copying`), the transaction is what it was before the rename and, besides, only
images of paths below the old bucket, with their values; every image that is
missing is below a key that some pending copy has yet to visit (`ToCopy`), and
such a key is not there yet, so no `put` or `create_bucket` of the copy fails.
When no copy is pending, all images are there, and the delete leaves `Moved`.
That a forest has all prefixes of its paths (`PrefixClosed`) is an induction over
the length, again by a set of numbers.

For `AddsCanBeRetried`, `RetryInv` adds what the outermost list has done so far
(`Added`: each of its buckets is there, and each of its keys with its value or
that of a later `AddKey`). The lists inside do not disturb this, whatever their
operations are: they work on paths at least two keys longer than the outermost
bucket (`InnerDepth`, `SameUpTo`). The second time (`Retrying`), the transaction
has the paths of the database and differs only in keys that the rest of the list
writes, each bucket is passed over with the list for it, and no unwrap fails.

Only model-checked: `CollisionsEnd`, as liveness is out of the prover's reach.
Every other property of a passing run is a theorem.

`DbfsRvfsSafety` and `DbfsRvfsProofs` take tlapm about 25 minutes each,
`DbfsNamespaceProofs`, `DbfsFileProofs` and `DbfsExtendProofs` about a quarter of
an hour each, the others a few minutes.

## 5. Not modelled

- `dbfs_setattr` and `dbfs_removeattr` of rvfs put and delete one `attr:` key
  that no other operation reads. `dbfs_getattr`, `dbfs_listattr`, `listxattr`,
  `statfs`, `access`, `getattr` and `readlink` only read.
- `execute` (`extend.rs`) hands the database to a closure of the caller's;
  `show_dbfs` prints it.
- `dbfs_fuse_special_read` is not called.
- `atime`, which only utimens sets and nothing tests, block sizes, device
  numbers and the conversions of attributes to FUSE's and rvfs's types.
- The buddy allocator behind the slice buffers: running out of its 8 MB depends
  on sizes and fragmentation inside an external crate.
- The image file and its memory map (`fuse/mkfs.rs` 1-284): pure I/O.
- jammdb, fuser, rvfs and the Linux VFS, apart from what the code relies on.
- The examples and benchmarks, which are callers.
