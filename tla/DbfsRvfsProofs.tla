--------------------------- MODULE DbfsRvfsProofs ---------------------------
(***************************************************************************)
(* Theorems about DbfsRvfs before its first rename, for any names, places  *)
(* and bounds.  That the tree is in order comes from the proofs about      *)
(* DbfsNamespace, through the instance NS of their module.                 *)
(***************************************************************************)
EXTENDS DbfsRvfsSafety

-----------------------------------------------------------------------------
(* Every operation keeps the cache in agreement with the database.          *)

LEMMA LookupCache ==
  ASSUME Agreed, NEW o \in Places, mem[o].dir, NEW n \in Names, NEW x \in Places, mem[x] = Free,
         dbfs_lookup(o, n, x)
  PROVE  StillAgreed
<1> DEFINE i == DB!Lookup(Number(o), n)
<1>1. /\ Cached(o, n) = NoInode /\ i \in DOMAIN db
      /\ mem' = [mem EXCEPT ![x] = LookedUp(i)] /\ dentry' = Bind(o, n, x)
      /\ UNCHANGED <<db, text>>
  BY Zenon DEF dbfs_lookup, Agreed, Readable
<1>2. /\ BaseInv /\ CacheOK(db, mem, dentry) /\ TreeOK(db) /\ MemOK(mem, dentry)
      /\ mem \in [Places -> InMemoryInode] /\ DbTyped(db) /\ CountsOK(db)
      /\ HeldIn(dentry, o) /\ Number(o) \in DOMAIN db /\ i = db[Number(o)].data[n]
  BY Zenon, AgreedFacts DEF DB!Lookup
<1>3. x # o /\ x # RootPlace /\ ~HeldIn(dentry, x)
  BY Zenon, <1>2, FreeInode, FreeOrHeld
<1> HIDE DEF i
<1>4. /\ mem'[x] = LookedUp(i) /\ \A y \in Places \ {x} : mem'[y] = mem[y]
      /\ LookedUp(i).number = i /\ LookedUp(i).file_size = db[i].size
      /\ (LookedUp(i).dir <=> IsDirectory(db[i].mode))
  BY Zenon, <1>1, <1>2 DEF LookedUp
<1>5. SameInodes(mem')
  BY Zenon, <1>3, <1>4 DEF SameInodes
<1>6. Ready(mem', Bind(o, n, x))
  <2>1. BaseInv'
    BY Zenon, <1>2, LookupSafe
  <2>2. QED
    BY Zenon, <1>1, <2>1 DEF BaseInv, MemOK
<1>7. Changed(db, db, Number(o), n, mem'[x].number)
  BY Zenon, <1>2, <1>4 DEF Changed
<1>8. ASSUME NEW y \in Places \ {x}, HeldIn(dentry, y), mem[y].dir, mem'[x].dir
      PROVE  mem[y].number # mem'[x].number
  <2>1. SUFFICES ASSUME mem[y].number = db[Number(o)].data[n] PROVE FALSE
    BY Zenon, <1>2, <1>4
  <2>2. Cached(o, n) = y
    BY Zenon, <1>2, <1>8, <2>1, OnlyDentry
  <2>3. QED
    BY Zenon, <1>1, <2>2, RvfsAssumption
<1>9. ASSUME NEW y \in Places, HeldIn(dentry, y) \/ y = x, mem'[y].dir
      PROVE  Cardinality(NamesOf(db[mem'[y].number])) <= mem'[y].file_size
  <2>1. CASE y = x
    BY Zenon, <1>1, <1>2, <1>4, <2>1, SizeCoversNames
  <2>2. CASE y # x
    BY Zenon, <1>2, <1>4, <1>9, <2>2, CacheFacts
  <2>3. QED
    BY Zenon, <2>1, <2>2
<1>10. CacheOK(db, mem', Bind(o, n, x))
  <2>1. mem'[x].number \in DOMAIN db /\ (mem'[x].dir <=> IsDirectory(db[mem'[x].number].mode))
    BY Zenon, <1>1, <1>4
  <2>2. QED
    BY Zenon, <1>1, <1>2, <1>3, <1>5, <1>6, <1>7, <1>8, <1>9, <2>1, AddCache
<1>11. QED
  BY Zenon, <1>1, <1>10 DEF StillAgreed, Agreed

LEMMA NoNamesYet ==
  ASSUME NEW b, Fresh(b)
  PROVE  Cardinality(NamesOf(b)) <= 0
<1>1. NamesOf(b) = {}
  BY Zenon DEF NamesOf, Fresh
<1>2. Cardinality(NamesOf(b)) = 0
  BY Zenon, <1>1, FS_EmptySet
<1>3. QED
  BY <1>2

LEMMA CreateCache ==
  ASSUME Agreed, NEW o \in Places, mem[o].dir, NEW n \in Names, NEW x \in Places, mem[x] = Free,
         NEW t \in Types, dbfs_rvfs_create(o, n, x, t)
  PROVE  StillAgreed
<1> DEFINE ms == Created(o, x, t)
<1>1. /\ BaseInv /\ CacheOK(db, mem, dentry) /\ MemOK(mem, dentry) /\ DbTyped(db)
      /\ Cached(o, n) = NoInode
  BY Zenon, AgreedFacts DEF dbfs_rvfs_create, KnownAbsent
<1>2. CASE Still
  BY Zenon, <1>2, StillCache
<1>3. CASE /\ Done(ms, Bind(o, n, x), Number(o), n, num, DOMAIN db \cup {num})
           /\ NewBucket(t)
  <2>1. x # o /\ x # RootPlace /\ ~HeldIn(dentry, x) /\ num \in 1..MaxIno
    BY Zenon, <1>1, <1>3, FreeInode, FreeOrHeld DEF NewBucket
  <2>2. CreatedAt(ms, o, x, t)
    BY Zenon, <1>1, <2>1, CreatedPlace
  <2>3. Ready(ms, Bind(o, n, x)) /\ SameInodes(ms) /\ Effect(db, db', Number(o), n, num, DOMAIN db \cup {num})
    BY Zenon, <1>3 DEF Done
  <2> HIDE DEF ms
  <2>4. /\ ms[x].number = num /\ (ms[x].dir <=> t = S_IFDIR) /\ ms[x].file_size = 0
    <3>1. ms[x] = TmpInode(num, t)
      BY Zenon, <2>2 DEF CreatedAt
    <3>2. LET b == TmpInode(num, t)
          IN b.number = num /\ (b.dir <=> t = S_IFDIR) /\ b.file_size = 0
      BY Zenon DEF TmpInode
    <3>3. QED
      BY Zenon, <3>1, <3>2
  <2>5. /\ Changed(db, db', Number(o), n, num) /\ DOMAIN db' = DOMAIN db \cup {num}
        /\ ms[x].number \in DOMAIN db' /\ (ms[x].dir <=> IsDirectory(db'[ms[x].number].mode))
    BY Zenon, <1>3, <2>3, <2>4 DEF Effect, NewBucket
  <2>6. ASSUME NEW y \in Places \ {x}, HeldIn(dentry, y) PROVE mem[y].number # ms[x].number
    BY Zenon, <1>1, <1>3, <2>4, <2>6, CacheFacts DEF NewBucket
  <2>7. ASSUME NEW y \in Places, HeldIn(dentry, y) \/ y = x, ms[y].dir
        PROVE  Cardinality(NamesOf(db'[ms[y].number])) <= ms[y].file_size
    <3>1. CASE y = x
      BY Zenon, <1>3, <2>4, <3>1, NoNamesYet DEF NewBucket
    <3>2. CASE y # x
      <4>1. HeldIn(dentry, y) /\ mem[y].dir /\ ms[y].number = mem[y].number
        BY Zenon, <2>7, <3>2, <2>2 DEF CreatedAt
      <4>2. mem[y].number \in DOMAIN db'
        BY Zenon, <1>1, <2>5, <4>1, CacheFacts
      <4>3. 1 \in {1, 0, -1} /\ 1 # 0 /\ 1 # -1
        OBVIOUS
      <4>4. Cardinality(NamesOf(db'[mem[y].number])) <= mem[y].file_size + IF y = o THEN 1 ELSE 0
        BY Zenon, <1>1, <2>5, <4>1, <4>2, <4>3, StillCovered
      <4>5. mem[y].file_size + (IF y = o THEN 1 ELSE 0) = ms[y].file_size
        <5>1. mem[y].file_size \in Int
          BY Zenon, <1>1, Operand
        <5>2. CASE y = o
          BY <2>2, <5>2 DEF CreatedAt
        <5>3. CASE y # o
          BY <2>2, <3>2, <5>1, <5>3 DEF CreatedAt
        <5>4. QED
          BY Zenon, <5>2, <5>3
      <4>6. QED
        BY Zenon, <4>1, <4>4, <4>5
    <3>3. QED
      BY Zenon, <3>1, <3>2
  <2>8. CacheOK(db', ms, Bind(o, n, x))
    BY Zenon, <1>1, <2>1, <2>3, <2>4, <2>5, <2>6, <2>7, AddCache
  <2>9. QED
    BY Zenon, <1>3, <2>8, DoneCache DEF ms
<1>4. QED
  BY Zenon, <1>1, <1>2, <1>3, CreateSafe

LEMMA LinkCache ==
  ASSUME Agreed, NEW o \in Places, mem[o].dir, NEW n \in Names, NEW x \in Places, mem[x] # Free,
         dbfs_link(x, o, n)
  PROVE  StillAgreed
<1> DEFINE ms == Linked(o, x)
<1>1. /\ BaseInv /\ CacheOK(db, mem, dentry) /\ MemOK(mem, dentry) /\ DbTyped(db)
      /\ Cached(o, n) = NoInode /\ ~mem[x].dir /\ Readable(Number(x))
  BY Zenon, AgreedFacts DEF dbfs_link, KnownAbsent, Agreed, Readable
<1>2. CASE Still
  BY Zenon, <1>2, StillCache
<1>3. CASE Done(ms, Bind(o, n, x), Number(o), n, Number(x), DOMAIN db)
  <2>1. x # o /\ x # RootPlace /\ HeldIn(dentry, x)
    BY Zenon, <1>1 DEF MemOK, Ready
  <2>2. /\ Adjusted(ms, x, 1) /\ ms[o].file_size = mem[o].file_size + 1
        /\ \A y \in Places \ {o} : ms[y].file_size = mem[y].file_size
    BY <1>1, <2>1, LinkedPlaces
  <2>3. Ready(ms, Bind(o, n, x)) /\ SameInodes(ms) /\ Effect(db, db', Number(o), n, Number(x), DOMAIN db)
    BY Zenon, <1>3 DEF Done
  <2> HIDE DEF ms
  <2>4. \A y \in Places : ms[y].number = mem[y].number /\ ms[y].dir = mem[y].dir
    BY Zenon, <2>2 DEF Adjusted
  <2>5. /\ Changed(db, db', Number(o), n, ms[x].number) /\ DOMAIN db' = DOMAIN db
        /\ ms[x].number \in DOMAIN db' /\ ~ms[x].dir
    BY Zenon, <1>1, <2>1, <2>3, <2>4, CacheFacts DEF Effect, Number
  <2>6. ~IsDirectory(db'[ms[x].number].mode)
    <3>1. mem[x].number \in DOMAIN db /\ ~IsDirectory(db[mem[x].number].mode)
      BY Zenon, <1>1, <2>1, CacheFacts
    <3>2. db'[mem[x].number].mode = db[mem[x].number].mode
      BY Zenon, <2>5, <3>1 DEF Changed
    <3>3. QED
      BY Zenon, <2>4, <3>1, <3>2
  <2>7. ASSUME NEW y \in Places, HeldIn(dentry, y) \/ y = x, ms[y].dir
        PROVE  Cardinality(NamesOf(db'[ms[y].number])) <= ms[y].file_size
    <3>1. HeldIn(dentry, y) /\ mem[y].dir /\ ms[y].number = mem[y].number
      BY Zenon, <2>7, <2>1, <2>4
    <3>2. mem[y].number \in DOMAIN db'
      BY Zenon, <1>1, <2>5, <3>1, CacheFacts
    <3>3. 1 \in {1, 0, -1} /\ 1 # 0 /\ 1 # -1
      OBVIOUS
    <3>4. Cardinality(NamesOf(db'[mem[y].number])) <= mem[y].file_size + IF y = o THEN 1 ELSE 0
      BY Zenon, <1>1, <2>5, <3>1, <3>2, <3>3, StillCovered
    <3>5. mem[y].file_size + (IF y = o THEN 1 ELSE 0) = ms[y].file_size
      <4>1. mem[y].file_size \in Int
        BY Zenon, <1>1, Operand
      <4>2. CASE y = o
        BY <2>2, <4>2
      <4>3. CASE y # o
        BY <2>2, <4>1, <4>3
      <4>4. QED
        BY Zenon, <4>2, <4>3
    <3>6. QED
      BY Zenon, <3>1, <3>4, <3>5
  <2>8. CacheOK(db', ms, Bind(o, n, x))
    BY Zenon, <1>1, <2>1, <2>3, <2>5, <2>6, <2>7, AddCache
  <2>9. QED
    BY Zenon, <1>3, <2>8, DoneCache DEF ms
<1>4. QED
  BY Zenon, <1>1, <1>2, <1>3, LinkSafe

(* The drop of a dentry, whose directory gets k less in memory. *)
LEMMA DroppedCache ==
  ASSUME Agreed, NEW o \in Places, mem[o].dir, NEW n \in Names,
         Cached(o, n) # NoInode, ~mem[Cached(o, n)].dir \/ Leaf(Cached(o, n)),
         NEW ms, Ready(ms, Bind(o, n, NoInode)), SameInodes(ms),
         NEW k \in {0, -1},
         \A y \in Places : ms[y].file_size = mem[y].file_size + IF y = o THEN k ELSE 0,
         NEW g, NEW i, Changed(db, g, Number(o), n, i), TreeOK(g),
         i \in {0, db[Number(o)].data[n]},
         k = -1 => i = 0 /\ db[Number(o)].data[n] # 0,
         \A y \in Places : HeldIn(Bind(o, n, NoInode), y) /\ mem[y].dir => mem[y].number \in DOMAIN g
  PROVE  CacheOK(g, ms, Bind(o, n, NoInode))
<1>1. BaseInv /\ CacheOK(db, mem, dentry)
  BY Zenon DEF Agreed
<1>2. k \in {1, 0, -1} /\ (k = 0 => i \in {0, db[Number(o)].data[n]})
  BY Zenon
<1>3. ASSUME NEW y \in Places, HeldIn(dentry, y), ms[y].dir, mem[y].number \in DOMAIN g
      PROVE  Cardinality(NamesOf(g[ms[y].number])) <= ms[y].file_size
  <2>1. mem[y].dir /\ ms[y].number = mem[y].number
    BY Zenon, <1>3 DEF SameInodes
  <2>2. Cardinality(NamesOf(g[mem[y].number])) <= mem[y].file_size + IF y = o THEN k ELSE 0
    BY <1>1, <1>2, <1>3, <2>1, StillCovered
  <2>3. QED
    BY Zenon, <2>1, <2>2
<1>4. QED
  BY Zenon, <1>1, <1>3, DropCache

LEMMA UnlinkedSizes ==
  ASSUME BaseInv, NEW o \in Places, NEW n \in Names, Cached(o, n) \in Places, NEW y \in Places
  PROVE  Unlinked(o, n)[y].file_size = mem[y].file_size + IF y = o THEN 0 ELSE 0
<1> DEFINE x == Cached(o, n)
<1>1. mem \in [Places -> InMemoryInode] /\ mem[x].hard_links \in Int /\ mem[y].file_size \in Int
  BY Zenon, Operand
<1>2. mem[x].hard_links - 1 \in Int /\ mem[y].file_size + (IF y = o THEN 0 ELSE 0) = mem[y].file_size
  BY <1>1
<1>3. Unlinked(o, n) = [mem EXCEPT ![x].hard_links = mem[x].hard_links - 1]
  BY Zenon DEF Unlinked
<1>4. Relinked(mem, Unlinked(o, n), x, mem[x].hard_links - 1)
  BY Zenon, <1>1, <1>2, <1>3, LinkedPlace
<1>5. QED
  BY Zenon, <1>2, <1>4 DEF Relinked

LEMMA UnlinkCache ==
  ASSUME Agreed, TreeOK(db'), NEW o \in Places, mem[o].dir, NEW n \in Names, dbfs_unlink(o, n)
  PROVE  StillAgreed
<1> DEFINE x == Cached(o, n)
           i == Number(x)
           D == IF db[i].hard_links = 1 THEN DOMAIN db \ {i} ELSE DOMAIN db
           ms == Unlinked(o, n)
           ds == Bind(o, n, NoInode)
<1>1. /\ BaseInv /\ CacheOK(db, mem, dentry) /\ MemOK(mem, dentry) /\ x # NoInode /\ ~mem[x].dir
      /\ x \in Places /\ HeldIn(dentry, x) /\ <<o, n>> \in Pairs
  BY Zenon, AgreedFacts DEF dbfs_unlink, Pairs
<1>2. CASE Still
  BY Zenon, <1>2, StillCache
<1>3. CASE Done(ms, ds, Number(o), n, 0, D)
  <2>1. Ready(ms, ds) /\ SameInodes(ms) /\ Effect(db, db', Number(o), n, 0, D)
    BY Zenon, <1>3 DEF Done
  <2>2. Changed(db, db', Number(o), n, 0) /\ DOMAIN db' = D
    BY Zenon, <2>1 DEF Effect
  <2>3. \A y \in Places : ms[y].file_size = mem[y].file_size + IF y = o THEN 0 ELSE 0
    BY Zenon, <1>1, UnlinkedSizes
  <2>4. ASSUME NEW y \in Places, HeldIn(ds, y), mem[y].dir PROVE mem[y].number \in DOMAIN db'
    <3>1. NoInode # RootPlace /\ NoInode \notin Places
      BY Zenon, RvfsAssumption
    <3>2. HeldIn(dentry, y)
      BY Zenon, <1>1, <2>4, <3>1, BindFacts DEF Bound
    <3>3. mem[y].number \in DOMAIN db /\ IsDirectory(db[mem[y].number].mode)
      BY Zenon, <1>1, <2>4, <3>2, CacheFacts
    <3>4. ~IsDirectory(db[i].mode)
      BY Zenon, <1>1, CacheFacts DEF Number
    <3>5. QED
      BY Zenon, <2>2, <3>3, <3>4
  <2>5. 0 \in {0, -1} /\ 0 # -1 /\ 0 \in {0, db[Number(o)].data[n]}
    OBVIOUS
  <2> HIDE DEF ms, D, i
  <2>6. CacheOK(db', ms, ds)
    BY Zenon, <1>1, <2>1, <2>2, <2>3, <2>4, <2>5, DroppedCache
  <2>7. QED
    BY Zenon, <1>3, <2>6, DoneCache
<1>4. QED
  BY Zenon, <1>1, <1>2, <1>3, UnlinkSafe

LEMMA RmdirCache ==
  ASSUME Agreed, TreeOK(db'), NEW o \in Places, mem[o].dir, NEW n \in Names, dbfs_rmdir(o, n)
  PROVE  StillAgreed
<1> DEFINE x == Cached(o, n)
           i == db[Number(o)].data[n]
           D == DOMAIN db \ {i}
           ms == Removed(o)
           ds == Bind(o, n, NoInode)
<1>1. /\ BaseInv /\ CacheOK(db, mem, dentry) /\ TreeOK(db) /\ MemOK(mem, dentry)
      /\ mem \in [Places -> InMemoryInode] /\ x # NoInode /\ Leaf(x) /\ <<o, n>> \in Pairs
  BY Zenon, AgreedFacts DEF dbfs_rmdir, Pairs
<1>2. CASE Still
  BY Zenon, <1>2, StillCache
<1>3. CASE Done(ms, ds, Number(o), n, 0, D) /\ i # 0
  <2>1. Ready(ms, ds) /\ SameInodes(ms) /\ Effect(db, db', Number(o), n, 0, D)
    BY Zenon, <1>3 DEF Done
  <2>2. Changed(db, db', Number(o), n, 0) /\ DOMAIN db' = D
    BY Zenon, <2>1 DEF Effect
  <2>3. \A y \in Places : ms[y].file_size = mem[y].file_size + IF y = o THEN -1 ELSE 0
    <3>1. -1 \in Int
      OBVIOUS
    <3>2. /\ \A y \in Places : y # o => ms[y] = mem[y]
          /\ ms[o].file_size = mem[o].file_size + (-1)
      BY <1>1, <3>1, SizedPlace DEF Removed
    <3>3. \A y \in Places : mem[y].file_size \in Int
      BY Zenon, <1>1, Operand
    <3> HIDE DEF ms
    <3>4. QED
      BY <3>2, <3>3
  <2>4. ASSUME NEW y \in Places, HeldIn(ds, y), mem[y].dir PROVE mem[y].number \in DOMAIN db'
    <3>1. NoInode # RootPlace /\ NoInode \notin Places
      BY Zenon, RvfsAssumption
    <3>0. Bound(ds, o, n, NoInode)
      BY Zenon, <1>1, <3>1, BindFacts
    <3>2. Bound(ds, o, n, NoInode) /\ HeldIn(dentry, y)
      BY Zenon, <2>4, <3>0, <3>1 DEF Bound
    <3>3. mem[y].number \in DOMAIN db
      BY Zenon, <1>1, <3>2, CacheFacts
    <3>4. SUFFICES ASSUME mem[y].number = i PROVE FALSE
      BY Zenon, <2>2, <3>3
    <3>5. y # RootPlace /\ \A q \in Pairs : dentry[q] = y => q = <<o, n>>
      BY Zenon, <1>1, <2>4, <3>2, <3>4, OnlyDentry
    <3>6. PICK q \in Pairs : ds[q] = y
      BY Zenon, <2>4, <3>5 DEF HeldIn
    <3>7. QED
      BY Zenon, <1>1, <3>1, <3>2, <3>5, <3>6 DEF Bound
  <2>5. -1 \in {0, -1} /\ 0 \in {0, db[Number(o)].data[n]}
    OBVIOUS
  <2> HIDE DEF ms, D
  <2>6. CacheOK(db', ms, ds)
    BY Zenon, <1>1, <1>3, <2>1, <2>2, <2>3, <2>4, <2>5, DroppedCache
  <2>7. QED
    BY Zenon, <1>3, <2>6, DoneCache
<1>4. QED
  BY Zenon, <1>1, <1>2, <1>3, RmdirSafe

LEMMA EvictCache ==
  ASSUME Agreed, NEW o \in Places, mem[o].dir, NEW n \in Names, Evict(o, n)
  PROVE  StillAgreed
<1> DEFINE x == Cached(o, n)
           ds == Bind(o, n, NoInode)
<1>1. /\ BaseInv /\ CacheOK(db, mem, dentry) /\ TreeOK(db) /\ MemOK(mem, dentry)
      /\ DbTyped(db) /\ CountsOK(db) /\ x # NoInode /\ Leaf(x) /\ <<o, n>> \in Pairs
  BY Zenon, AgreedFacts DEF Evict, Pairs
<1>2. 0 \in {0, -1} /\ 0 # -1
  OBVIOUS
<1>3. Ready(mem, ds) /\ SameInodes(mem)
  BY Zenon, <1>1, <1>2, AdjustedByNothing, DropReady
<1>4. Changed(db, db, Number(o), n, db[Number(o)].data[n])
  BY Zenon, <1>1 DEF Changed
<1>5. \A y \in Places : mem[y].file_size = mem[y].file_size + IF y = o THEN 0 ELSE 0
  BY <1>1, Operand
<1>6. ASSUME NEW y \in Places, HeldIn(ds, y), mem[y].dir PROVE mem[y].number \in DOMAIN db
  BY Zenon, <1>1, <1>6, DirIsHeld, CacheFacts
<1>7. CacheOK(db, mem, ds)
  BY Zenon, <1>1, <1>2, <1>3, <1>4, <1>5, <1>6, DroppedCache
<1>8. CacheOK(db, Held(mem, ds), ds)
  BY Zenon, <1>3, <1>7, HeldCache
<1>9. QED
  BY Zenon, <1>8 DEF Evict, StillAgreed, Agreed

LEMMA RenameCache ==
  ASSUME Agreed, ~renamed', NEW o \in Places, mem[o].dir, NEW n \in Names,
         NEW p \in Places, mem[p].dir, NEW m \in Names, dbfs_rename(o, n, p, m)
  PROVE  StillAgreed
<1>1. BaseInv
  BY Zenon DEF Agreed
<1>2. Still
  BY Zenon, <1>1, RenameSafe
<1>3. QED
  BY Zenon, <1>2, StillCache

LEMMA CacheStep ==
  ASSUME Agreed, ~renamed', TreeOK(db'), [Next]_vars
  PROVE  StillAgreed
<1>1. CASE UNCHANGED vars
  BY Zenon, <1>1 DEF vars, Agreed, StillAgreed
<1>2. CASE Mount
  BY Zenon, <1>2, MountCache
<1>3. ASSUME NEW o \in Places, mem[o].dir, NEW n \in Names,
             \/ \E x \in Places : mem[x] = Free /\ dbfs_lookup(o, n, x)
             \/ \E x \in Places, t \in Types : mem[x] = Free /\ dbfs_rvfs_create(o, n, x, t)
             \/ \E x \in Places : mem[x] # Free /\ dbfs_link(x, o, n)
             \/ dbfs_unlink(o, n)
             \/ dbfs_rmdir(o, n)
             \/ \E p \in {x \in Places : mem[x].dir}, m \in Names : dbfs_rename(o, n, p, m)
             \/ Evict(o, n)
      PROVE  StillAgreed
  BY Zenon, <1>3, LookupCache, CreateCache, LinkCache, UnlinkCache, RmdirCache, RenameCache, EvictCache
<1>4. QED
  BY Zenon, <1>1, <1>2, <1>3 DEF Next

-----------------------------------------------------------------------------
(* What the agreement says.                                                 *)

(* Until the first rename, an operation finds what it unwraps: no name, no  *)
(* bucket and no root is missing, and every size can be read.               *)
LEMMA NoPanic ==
  ASSUME Agreed, reply.res # "panic", [Next]_vars
  PROVE  reply'.res # "panic"
<1>0. \A res : Answer(res) => reply'.res = res
  BY DEF Answer
<1>1. \A res \in {"none", "Ok", "NotFound", "NotEmpty"} : Answer(res) \/ Fail(res) => reply'.res # "panic"
  BY <1>0 DEF Fail
<1>2. \A c, res : DB!Reply(c, res) => reply'.res = res
  BY DEF DB!Reply
<1>3. \A c, res \in {"Ok", "AccessError", "FileExists"} : DB!Reply(Kernel, res) => reply'.res # "panic"
  BY <1>2
<1>4. CASE UNCHANGED vars
  BY Zenon, <1>4 DEF vars
<1>5. CASE Mount
  <2>1. 1 \in DOMAIN db /\ Readable(1)
    BY Zenon DEF Agreed, TreeOK, Readable
  <2>2. Answer("none")
    BY Zenon, <1>5, <2>1 DEF Mount
  <2>3. QED
    BY Zenon, <1>1, <2>2
<1>6. ASSUME NEW o \in Places, mem[o].dir, NEW n \in Names
      PROVE  /\ \A x \in Places : dbfs_lookup(o, n, x) => reply'.res # "panic"
             /\ \A x \in Places, t \in Types : dbfs_rvfs_create(o, n, x, t) => reply'.res # "panic"
             /\ \A x \in Places : dbfs_link(x, o, n) => reply'.res # "panic"
             /\ dbfs_unlink(o, n) => reply'.res # "panic"
             /\ dbfs_rmdir(o, n) => reply'.res # "panic"
             /\ \A p \in {x \in Places : mem[x].dir}, m \in Names :
                  dbfs_rename(o, n, p, m) => reply'.res # "panic"
  <2>1. Exists(o) /\ \A i : Readable(i)
    BY Zenon, <1>6, InDirectory
  <2>2. \A x \in Places : dbfs_lookup(o, n, x) => reply'.res # "panic"
    BY Zenon, <1>1, <2>1 DEF dbfs_lookup
  <2>3. ASSUME NEW x \in Places, NEW t \in Types, dbfs_rvfs_create(o, n, x, t)
        PROVE  reply'.res # "panic"
    <3>1. DB!Create(Kernel, Number(o), n, Perm777 \cup t)
      BY Zenon, <2>1, <2>3 DEF dbfs_rvfs_create, Stops
    <3>2. QED
      BY Zenon, <1>3, <3>1 DEF DB!Create, DB!Fail
  <2>4. ASSUME NEW x \in Places, dbfs_link(x, o, n) PROVE reply'.res # "panic"
    <3>1. Fail("NotFound") \/ DB!Link(Kernel, Number(x), Number(o), n)
      BY Zenon, <2>1, <2>4 DEF dbfs_link, Stops
    <3>2. QED
      BY Zenon, <1>1, <1>3, <3>1 DEF DB!Link, DB!Fail
  <2>5. ASSUME dbfs_unlink(o, n) PROVE reply'.res # "panic"
    <3>1. Cached(o, n) # NoInode
      BY Zenon, <2>5 DEF dbfs_unlink
    <3>2. ~DB!Absent(Number(o), n)
      BY Zenon, <1>6, <3>1, CachedIsFound
    <3>3. Fail("NotFound") \/ Answer("Ok")
      BY Zenon, <2>1, <2>5, <3>2 DEF dbfs_unlink
    <3>4. QED
      BY Zenon, <1>1, <3>3
  <2>6. ASSUME dbfs_rmdir(o, n) PROVE reply'.res # "panic"
    <3>1. Cached(o, n) # NoInode
      BY Zenon, <2>6 DEF dbfs_rmdir
    <3>2. DB!Lookup(Number(o), n) \in DOMAIN db
      BY Zenon, <1>6, <3>1, CachedIsFound DEF Exists
    <3>3. Fail("NotFound") \/ Fail("NotEmpty") \/ Answer("Ok")
      BY Zenon, <2>1, <2>6, <3>2 DEF dbfs_rmdir
    <3>4. QED
      BY Zenon, <1>1, <3>3
  <2>7. ASSUME NEW p \in {x \in Places : mem[x].dir}, NEW m \in Names, dbfs_rename(o, n, p, m)
        PROVE  reply'.res # "panic"
    <3>1. p \in Places /\ mem[p].dir
      BY Zenon
    <3>2. Exists(p)
      BY Zenon, <3>1, InDirectory
    <3>3. Fail("NotFound") \/ Answer("Ok")
      BY Zenon, <2>1, <2>7, <3>2 DEF dbfs_rename
    <3>4. QED
      BY Zenon, <1>1, <3>3
  <2>8. QED
    BY Zenon, <2>2, <2>3, <2>4, <2>5, <2>6, <2>7
<1>7. \A o, n : Evict(o, n) => reply'.res # "panic"
  BY Zenon DEF Evict
<1>8. QED
  BY Zenon, <1>4, <1>5, <1>6, <1>7 DEF Next

LEMMA PanicStep ==
  ASSUME BaseInv, ~renamed => Agreed, OnlyRenamePanics, [Next]_vars
  PROVE  OnlyRenamePanics'
<1>1. SUFFICES ASSUME ~renamed'
               PROVE  reply'.res # "panic"
  BY Zenon DEF OnlyRenamePanics
<1>2. Agreed /\ reply.res # "panic"
  BY Zenon, <1>1, RenamedForGood DEF OnlyRenamePanics
<1>3. QED
  BY Zenon, <1>2, NoPanic

LEMMA InitPanic == Init => OnlyRenamePanics
<1>1. ASSUME Init PROVE reply.res # "panic"
  <2>1. reply = [by |-> 0, res |-> "none"]
    BY Zenon, <1>1 DEF Init, DB!Init
  <2>2. QED
    BY <2>1
<1>2. QED
  BY Zenon, <1>1 DEF OnlyRenamePanics

LEMMA AgreedCache ==
  ASSUME Agreed
  PROVE  CacheAgrees
<1>1. SUFFICES ASSUME NEW q \in DOMAIN dentry, dentry[q] # NoInode
               PROVE  Exists(q[1]) /\ DB!Lookup(Number(q[1]), q[2]) = Number(dentry[q])
  BY Zenon DEF CacheAgrees
<1>2. BaseInv /\ CacheOK(db, mem, dentry) /\ DOMAIN dentry = Pairs
  BY Zenon DEF Agreed, BaseInv, MemOK, Ready
<1>3. PICK p \in Places, m \in Names : q = <<p, m>>
  BY Zenon, <1>1, <1>2, PairParts
<1>4. q[1] = p /\ q[2] = m
  BY Zenon, <1>3
<1>5. HeldIn(dentry, p) /\ mem[p].dir
  BY Zenon, <1>1, <1>2, <1>3 DEF CacheOK
<1>6. Cached(p, m) # NoInode /\ dentry[q] = Cached(p, m)
  BY Zenon, <1>1, <1>3 DEF Cached
<1>7. Number(Cached(p, m)) = DB!Lookup(Number(p), m) /\ Exists(p)
  BY Zenon, <1>5, <1>6, CachedIsFound, InDirectory
<1>8. QED
  BY Zenon, <1>4, <1>6, <1>7

LEMMA AgreedNames ==
  ASSUME Agreed
  PROVE  MemoryCoversNames
<1>1. SUFFICES ASSUME NEW x \in InMemory, mem[x].dir
               PROVE  Cardinality(NamesIn(Number(x))) <= mem[x].file_size
  BY Zenon DEF MemoryCoversNames
<1>2. BaseInv /\ CacheOK(db, mem, dentry) /\ x \in Places
  BY Zenon, <1>1 DEF Agreed, InMemory
<1>3. HeldIn(dentry, x)
  BY Zenon, <1>1, <1>2, DirIsHeld
<1>4. Cardinality(NamesOf(db[mem[x].number])) <= mem[x].file_size
  BY Zenon, <1>1, <1>2, <1>3, CacheFacts
<1>5. NamesIn(Number(x)) = NamesOf(db[mem[x].number])
  BY Zenon, Numbers DEF NamesIn, NamesOf, DB!Absent, DB!Lookup, Number
<1>6. QED
  BY Zenon, <1>4, <1>5

LEMMA AgreedEntries ==
  ASSUME Agreed
  PROVE  DB!NoDanglingEntry
<1>1. TreeOK(db)
  BY Zenon DEF Agreed
<1>2. QED
  BY Zenon, <1>1, Numbers DEF TreeOK, DB!NoDanglingEntry, DB!Dirs, DB!Inodes, DB!Lookup

LEMMA AgreedSizes ==
  ASSUME Agreed
  PROVE  DB!SizeCoversEntries
<1>1. \A S : DB!Cardinality(S) = Cardinality(S)
  BY Zenon DEF DB!Cardinality, Cardinality
<1>2. CountsOK(db)
  BY Zenon DEF Agreed, BaseInv
<1>3. QED
  BY Zenon, <1>1, <1>2 DEF CountsOK, DB!SizeCoversEntries, DB!Dirs, DB!Inodes

-----------------------------------------------------------------------------
(* What a step does, apart from the tree.                                   *)

Stepped ==
  /\ BaseInv'
  /\ renamed' \/ (~renamed /\ (KeepsDb \/ DB!Next) /\ (TreeOK(db') => StillAgreed))

LEMMA AgreedStep ==
  ASSUME BaseInv, ~renamed => Agreed, [Next]_vars
  PROVE  Stepped
<1>1. BaseInv'
  BY Zenon, BaseStep
<1>2. CASE renamed'
  BY Zenon, <1>1, <1>2 DEF Stepped
<1>3. CASE ~renamed'
  <2>1. ~renamed /\ Agreed
    BY Zenon, <1>3, RenamedForGood
  <2>2. KeepsDb \/ DB!Next
    BY Zenon, <1>3, <2>1, Refines
  <2>3. TreeOK(db') => StillAgreed
    BY Zenon, <1>3, <2>1, CacheStep
  <2>4. QED
    BY Zenon, <1>1, <2>1, <2>2, <2>3 DEF Stepped
<1>4. QED
  BY Zenon, <1>2, <1>3

LEMMA TypedReply ==
  ASSUME BaseInv'
  PROVE  num' \in 1 .. MaxIno + 1 /\ reply' \in [by : Nat, res : DB!Results]
<1>1. Kernel.uid \in Nat
  BY DEF Kernel
<1>2. QED
  BY Zenon, <1>1 DEF BaseInv

(* The requests of DbfsNamespace with the constants of DB: there is no      *)
(* rename, no chmod and no chown among them.                                *)
Request(d, n) ==
  \/ \E m \in {Perm777} : DB!Mkdir(Kernel, d, n, m)
  \/ \E m \in {Perm777}, t \in (Types \ {S_IFDIR}) \ {DB!S_IFLNK} : DB!Mknod(Kernel, d, n, m, t)
  \/ DB!S_IFLNK \in Types \ {S_IFDIR} /\ DB!Symlink(Kernel, d, n)
  \/ \E i \in DB!VfsFiles : DB!Link(Kernel, i, d, n)
  \/ DB!Unlink(Kernel, d, n)
  \/ DB!Rmdir(Kernel, d, n)

LEMMA Requests ==
  ASSUME DB!Next
  PROVE  DB!Restart \/ \E d \in DB!VfsDirs, n \in Names : Request(d, n)
<1>1. \A c, d, n, e, m : ~DB!Rename(c, d, n, e, m)
  BY Zenon DEF DB!Rename
<1>2. \A c, i : \A uid, gid \in {} \cup {DB!None} : ~DB!dbfs_common_chown(c, i, uid, gid)
  BY Zenon DEF DB!dbfs_common_chown
<1>3. QED
  BY Zenon, <1>1, <1>2 DEF DB!Next, Request

-----------------------------------------------------------------------------
(* The tree before the first rename: DbfsNamespace for the constants of DB, *)
(* with what is proved about it.                                            *)

NS == INSTANCE DbfsNamespaceProofs WITH
  Creds <- {Kernel}, Mounter <- Kernel, Modes <- {Perm777}, ChmodModes <- {},
  ChownIds <- {}, Types <- Types \ {S_IFDIR}, RenameFlags <- {}, TargetLen <- 0

LEMMA NSAssumption == NS!ConstantsAssumption
<1>1. Kernel \in [uid : Nat, gid : Nat] /\ 0 \in Nat
  BY DEF Kernel
<1>2. Perm777 \in SUBSET (0..11)
  BY DEF Perm777
<1>3. Types \ {S_IFDIR} \subseteq NS!FileTypes \ {NS!S_IFDIR}
  BY Zenon, RvfsAssumption DEF NS!FileTypes, S_IFDIR, NS!S_IFDIR, S_IFREG, NS!S_IFREG, S_IFLNK, NS!S_IFLNK
<1>4. IsFiniteSet(Names) <=> NS!IsFiniteSet(Names)
  BY Zenon DEF IsFiniteSet, NS!IsFiniteSet
<1>5. QED
  BY Zenon, <1>1, <1>2, <1>3, <1>4, RvfsAssumption DEF NS!ConstantsAssumption

LEMMA PlainFiles == NS!PlainTypes
BY RvfsAssumption DEF NS!PlainTypes, S_IFDIR, S_IFREG, S_IFLNK, NS!S_IFSOCK, NS!S_IFBLK

LEMMA SameTypes == \A mode : DB!IsDirectory(mode) <=> NS!IsDirectory(mode)
BY Zenon DEF DB!IsDirectory, NS!IsDirectory, DB!DbfsFileType, NS!DbfsFileType, DB!Has, NS!Has,
   DB!S_IFSOCK, NS!S_IFSOCK, DB!S_IFLNK, NS!S_IFLNK, DB!S_IFREG, NS!S_IFREG, DB!S_IFBLK, NS!S_IFBLK,
   DB!S_IFDIR, NS!S_IFDIR, DB!S_IFCHR, NS!S_IFCHR

LEMMA SameWrites ==
  /\ \A f, d, n, i : DB!PutEntry(f, d, n, i) = NS!PutEntry(f, d, n, i)
  /\ \A f, d, n, i : DB!AddEntry(f, d, n, i) = NS!AddEntry(f, d, n, i)
  /\ \A f, d, n : DB!RemoveEntry(f, d, n) = NS!RemoveEntry(f, d, n)
  /\ \A f, i : DB!DeleteBucket(f, i) = NS!DeleteBucket(f, i)
  /\ \A f, i : DB!DropLink(f, i) = NS!DropLink(f, i)
  /\ \A f, i : DB!AddLink(f, i) = NS!AddLink(f, i)
  /\ \A f, i, b : DB!PutBucket(f, i, b) = NS!PutBucket(f, i, b)
BY Zenon DEF DB!PutEntry, NS!PutEntry, DB!AddEntry, NS!AddEntry, DB!RemoveEntry, NS!RemoveEntry,
   DB!DeleteBucket, NS!DeleteBucket, DB!DropLink, NS!DropLink, DB!AddLink, NS!AddLink,
   DB!PutBucket, NS!PutBucket, DB!NoIno, NS!NoIno

LEMMA SameVfs ==
  /\ DB!VfsDirs = NS!VfsDirs /\ DB!VfsFiles = NS!VfsFiles /\ DB!Dirs = NS!Dirs
  /\ \A d, n : /\ DB!Lookup(d, n) = NS!Lookup(d, n) /\ (DB!Found(d, n) <=> NS!Found(d, n))
               /\ DB!Absent(d, n) <=> NS!Absent(d, n)
<1>1. DB!Dirs = NS!Dirs
  BY Zenon, SameTypes DEF DB!Dirs, NS!Dirs, DB!Inodes, NS!Inodes
<1>2. \A i : DB!HasName(i) <=> NS!HasName(i)
  BY Zenon DEF DB!HasName, NS!HasName, DB!RootIno, NS!RootIno, DB!Inodes, NS!Inodes, DB!Lookup, NS!Lookup
<1>3. QED
  BY Zenon, <1>1, <1>2 DEF DB!VfsDirs, NS!VfsDirs, DB!VfsFiles, NS!VfsFiles, DB!Inodes, NS!Inodes,
     DB!Lookup, NS!Lookup, DB!Found, NS!Found, DB!Absent, NS!Absent, DB!NoIno, NS!NoIno

LEMMA SameReplies ==
  /\ DB!Up <=> NS!Up
  /\ \A c, res : (DB!Reply(c, res) <=> NS!Reply(c, res)) /\ (DB!Fail(c, res) <=> NS!Fail(c, res))
BY Zenon DEF DB!Up, NS!Up, DB!Reply, NS!Reply, DB!Fail, NS!Fail

LEMMA SameChecks ==
  /\ \A c, i : DB!MayWrite(c, i) <=> NS!MayWrite(c, i)
  /\ \A c, d, i : DB!StickyDenies(c, d, i) <=> NS!StickyDenies(c, d, i)
  /\ \A i : DB!NotEmpty(i) <=> NS!NotEmpty(i)
BY Zenon DEF DB!MayWrite, NS!MayWrite, DB!checkout_access, NS!checkout_access, DB!Perm777, NS!Perm777,
   DB!ACCESS_W_OK, NS!ACCESS_W_OK, DB!ACCESS_X_OK, NS!ACCESS_X_OK, DB!Shift, NS!Shift,
   DB!StickyDenies, NS!StickyDenies, DB!Has, NS!Has, DB!S_ISVTX, NS!S_ISVTX, DB!NotEmpty, NS!NotEmpty

LEMMA SameInode ==
  \A c, d, new, perm : DB!NewInode(c, d, new, perm) = NS!NewInode(c, d, new, perm)
BY Zenon DEF DB!NewInode, NS!NewInode, DB!NewMode, NS!NewMode, DB!NewSize, NS!NewSize,
   DB!NewLinks, NS!NewLinks, DB!NewData, NS!NewData, DB!NoData, NS!NoData, DB!AllNames, NS!AllNames,
   DB!NoIno, NS!NoIno, DB!IsSpecial, NS!IsSpecial, DB!creation_gid, NS!creation_gid, DB!Has, NS!Has,
   DB!S_IFSOCK, NS!S_IFSOCK, DB!S_IFLNK, NS!S_IFLNK, DB!S_IFBLK, NS!S_IFBLK, DB!S_IFIFO, NS!S_IFIFO,
   DB!S_IFDIR, NS!S_IFDIR, DB!S_IFCHR, NS!S_IFCHR, DB!S_ISUID, NS!S_ISUID, DB!S_ISGID, NS!S_ISGID

LEMMA SameCreate ==
  ASSUME NEW c, NEW d, NEW n, NEW perm, DB!Create(c, d, n, perm)
  PROVE  NS!Create(c, d, n, perm)
BY Zenon, SameReplies, SameVfs, SameChecks, SameWrites, SameInode
   DEF DB!Create, NS!Create, DB!Ino, NS!Ino, DB!Inodes, NS!Inodes

LEMMA SameRequests ==
  ASSUME NEW d, NEW n
  PROVE  /\ \A m : DB!Mkdir(Kernel, d, n, m) => NS!Mkdir(Kernel, d, n, m)
         /\ \A m, t : DB!Mknod(Kernel, d, n, m, t) => NS!Mknod(Kernel, d, n, m, t)
         /\ DB!Symlink(Kernel, d, n) => NS!Symlink(Kernel, d, n)
         /\ \A i : DB!Link(Kernel, i, d, n) => NS!Link(Kernel, i, d, n)
         /\ DB!Unlink(Kernel, d, n) => NS!Unlink(Kernel, d, n)
         /\ DB!Rmdir(Kernel, d, n) => NS!Rmdir(Kernel, d, n)
<1>1. /\ \A m : DB!Mkdir(Kernel, d, n, m) => NS!Mkdir(Kernel, d, n, m)
      /\ \A m, t : DB!Mknod(Kernel, d, n, m, t) => NS!Mknod(Kernel, d, n, m, t)
      /\ DB!Symlink(Kernel, d, n) => NS!Symlink(Kernel, d, n)
  BY Zenon, SameCreate DEF DB!Mkdir, NS!Mkdir, DB!Mknod, NS!Mknod, DB!Symlink, NS!Symlink,
     DB!S_IFDIR, NS!S_IFDIR, DB!S_IFLNK, NS!S_IFLNK, DB!Perm777, NS!Perm777
<1>2. QED
  BY Zenon, <1>1, SameReplies, SameVfs, SameChecks, SameWrites
     DEF DB!Link, NS!Link, DB!Unlink, NS!Unlink, DB!Rmdir, NS!Rmdir

LEMMA SameNext ==
  ASSUME DB!Next
  PROVE  NS!Next
<1>1. DB!Restart => NS!Restart
  BY Zenon DEF DB!Restart, NS!Restart
<1>2. ASSUME NEW d \in DB!VfsDirs, NEW n \in Names, Request(d, n) PROVE NS!Next
  <2>1. /\ d \in NS!VfsDirs /\ Kernel \in {Kernel}
        /\ \/ \E m \in {Perm777} : NS!Mkdir(Kernel, d, n, m)
           \/ \E m \in {Perm777}, t \in (Types \ {S_IFDIR}) \ {NS!S_IFLNK} : NS!Mknod(Kernel, d, n, m, t)
           \/ NS!S_IFLNK \in Types \ {S_IFDIR} /\ NS!Symlink(Kernel, d, n)
           \/ \E i \in NS!VfsFiles : NS!Link(Kernel, i, d, n)
           \/ NS!Unlink(Kernel, d, n)
           \/ NS!Rmdir(Kernel, d, n)
    BY Zenon, <1>2, SameVfs, SameRequests DEF Request, DB!S_IFLNK, NS!S_IFLNK
  <2>2. QED
    BY Zenon, <2>1 DEF NS!Next
<1>3. QED
  BY Zenon, <1>1, <1>2, Requests DEF NS!Next

LEMMA TreeFromNS ==
  ASSUME NS!IInv
  PROVE  TreeOK(db)
<1>1. NS!DbOK(db) /\ NS!ModesOK(db) /\ NS!NamesOK(db)
  BY Zenon DEF NS!IInv, NS!DbOK
<1>2. \A i \in DOMAIN db : IsDirectory(db[i].mode) <=> NS!IsDir(db[i])
  <2>1. \A i \in DOMAIN db : NS!IsDirectory(db[i].mode) <=> NS!IsDir(db[i])
    BY Zenon, <1>1, NSAssumption, NS!DirectoryBit
  <2>2. QED
    BY Zenon, <2>1, SameTypes, SameType
<1>3. 1 \in DOMAIN db /\ IsDirectory(db[1].mode)
  BY Zenon, <1>1, <1>2 DEF NS!ModesOK, NS!RootIno
<1>4. \A d \in DOMAIN db, n \in Names : db[d].data[n] # 0 => db[d].data[n] \in DOMAIN db \ {1, d}
  BY Zenon, <1>1 DEF NS!NamesOK, NS!NoIno, NS!RootIno
<1>5. ASSUME NEW d \in DOMAIN db, NEW e \in DOMAIN db, NEW n \in Names, NEW m \in Names,
             db[d].data[n] \in DOMAIN db, IsDirectory(db[db[d].data[n]].mode),
             db[e].data[m] = db[d].data[n]
      PROVE  d = e /\ n = m
  <2> DEFINE i == db[d].data[n]
  <2>1. i \in DOMAIN db /\ db[d].data[n] = i /\ db[e].data[m] = i /\ NS!LinkBound(db[i]) <= 1
    BY <1>2, <1>5 DEF NS!LinkBound
  <2> HIDE DEF i
  <2>2. e = d /\ m = n
    BY <1>1, <2>1, NSAssumption, NS!OnlyName
  <2>3. QED
    BY Zenon, <2>2
<1>6. QED
  BY <1>3, <1>4, <1>5 DEF TreeOK

LEMMA LinksFromNS ==
  ASSUME NS!IInv
  PROVE  DB!LinksCoverNames
<1>1. ASSUME NEW i \in DOMAIN db
      PROVE  NS!Cardinality(NS!Refs(db, i)) <= IF i \in NS!Dirs THEN 1 ELSE db[i].hard_links
  BY Zenon, NSAssumption, NS!DirsAre DEF NS!IInv, NS!DbOK, NS!LinksOK
<1>2. QED
  BY Zenon, <1>1, SameVfs DEF DB!LinksCoverNames, DB!Inodes, DB!Cardinality, NS!Cardinality, DB!Refs, NS!Refs

(* Until the first rename, everything is as DbfsNamespace has it, and the   *)
(* cache agrees with it.                                                    *)
RvfsInv == BaseInv /\ (~renamed => NS!IInv /\ text = {} /\ CacheOK(db, mem, dentry))

LEMMA InvAgreed ==
  ASSUME RvfsInv, ~renamed
  PROVE  Agreed /\ NS!IInv
BY Zenon, TreeFromNS DEF RvfsInv, Agreed

LEMMA InitInv ==
  ASSUME Init
  PROVE  RvfsInv
<1>1. NS!IInv
  BY Zenon, NSAssumption, NS!InitIInv
     DEF Init, DB!Init, NS!Init, DB!RootIno, NS!RootIno, DB!RootInode, NS!RootInode, DB!Perm777,
     NS!Perm777, DB!S_IFDIR, NS!S_IFDIR, DB!NoData, NS!NoData, DB!AllNames, NS!AllNames, DB!NoIno, NS!NoIno
<1>2. QED
  BY Zenon, <1>1, InitBase, TreeFromNS, RootCache DEF RvfsInv, Init, BaseInv

LEMMA TreeStep ==
  ASSUME NS!IInv, BaseInv', KeepsDb \/ DB!Next
  PROVE  NS!IInv'
<1>1. CASE KeepsDb
  BY Zenon, <1>1, TypedReply DEF KeepsDb, NS!IInv, DB!Results, NS!Results
<1>2. CASE DB!Next
  BY Zenon, <1>2, SameNext, PlainFiles, NSAssumption, NS!NextStep DEF NS!Preserved
<1>3. QED
  BY Zenon, <1>1, <1>2

LEMMA StepInv ==
  ASSUME RvfsInv, [Next]_vars
  PROVE  RvfsInv' /\ (renamed' \/ KeepsDb \/ DB!Next)
<1>1. Stepped
  BY Zenon, InvAgreed, AgreedStep DEF RvfsInv
<1>2. (NS!IInv => TreeOK(db))'
  BY TreeFromNS, PTL
<1>3. QED
  BY Zenon, <1>1, <1>2, TreeStep DEF RvfsInv, Stepped, StillAgreed

LEMMA InvAlways == Spec => []RvfsInv
<1>1. Init => RvfsInv
  BY Zenon, InitInv
<1>2. RvfsInv /\ [Next]_vars => RvfsInv'
  BY Zenon, StepInv
<1>3. QED
  BY <1>1, <1>2, PTL DEF Spec

-----------------------------------------------------------------------------
(* Theorems about the time before the first rename.                         *)

(* dbfs_unlink and dbfs_rmdir are told by the kernel's dentries what the    *)
(* database has: for any names, places and bounds, a cached name leads      *)
(* where the database says.                                                 *)
THEOREM CacheIsRight == Spec => []CacheAgrees
<1>1. RvfsInv => CacheAgrees
  BY Zenon, InvAgreed, AgreedCache DEF CacheAgrees
<1>2. QED
  BY <1>1, InvAlways, PTL

(* What mkdir, lookup, unlink and rmdir do by hand to the file_size of a    *)
(* directory in memory never leaves it below the number of the names in it. *)
THEOREM NamesInMemory == Spec => []MemoryCoversNames
<1>1. RvfsInv => MemoryCoversNames
  BY Zenon, InvAgreed, AgreedNames DEF MemoryCoversNames
<1>2. QED
  BY <1>1, InvAlways, PTL

(* Whatever the kernel caches, drops and looks up again, and however often  *)
(* it mounts: none of the unwraps of the rvfs operations fails until the    *)
(* first rename, for any names, places and bounds.                          *)
THEOREM NoPanicBeforeRename == Spec => []OnlyRenamePanics
<1>1. RvfsInv /\ OnlyRenamePanics /\ [Next]_vars => OnlyRenamePanics'
  BY Zenon, InvAgreed, PanicStep DEF RvfsInv
<1>2. QED
  BY <1>1, InitPanic, InvAlways, PTL DEF Spec

(* Until the first rename, the rvfs front end implements the tree of        *)
(* DbfsNamespace, for the kernel as the only caller: a step that changes    *)
(* the database is one of its requests.                                     *)
THEOREM RvfsImplementsNamespace == Spec => ImplementsNamespace
<1>1. RvfsInv /\ [Next]_vars =>
        [renamed' \/ (num' <= num /\ UNCHANGED db) \/ DB!Next]_<<db, num, reply>>
  BY Zenon, StepInv DEF KeepsDb
<1>2. QED
  BY <1>1, InvAlways, PTL DEF Spec, ImplementsNamespace

(* Until the first rename, what is proved about the tree of DbfsNamespace   *)
(* holds of the database of the rvfs front end: names lead to inodes that   *)
(* exist, sizes cover entries, and link counts cover names.                 *)
THEOREM TreeBeforeRename ==
  Spec => [](~renamed => DB!NoDanglingEntry /\ DB!SizeCoversEntries /\ DB!LinksCoverNames)
<1>1. RvfsInv => (~renamed => DB!NoDanglingEntry /\ DB!SizeCoversEntries /\ DB!LinksCoverNames)
  BY Zenon, InvAgreed, AgreedEntries, AgreedSizes, LinksFromNS
<1>2. QED
  BY <1>1, InvAlways, PTL
=============================================================================
