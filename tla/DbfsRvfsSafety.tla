--------------------------- MODULE DbfsRvfsSafety ---------------------------
(***************************************************************************)
(* Theorems about DbfsRvfs that hold before and after a rename, for any    *)
(* names, places and bounds: the inductive invariant, the effect of every  *)
(* operation on the database, on the inodes in memory and on the dentries, *)
(* and that every step keeps the invariant.  Then, before the first        *)
(* rename: what a dentry that is added or dropped does to the agreement of *)
(* the cache with the database, and which request of DbfsNamespace an      *)
(* operation of the kernel is.                                             *)
(***************************************************************************)
EXTENDS DbfsRvfs, FiniteSetTheorems, TLAPS

-----------------------------------------------------------------------------
(* The inductive invariant.                                                 *)

DbTyped(f) ==
  /\ DOMAIN f \subseteq 1..MaxIno
  /\ f = [i \in DOMAIN f |-> f[i]]
  /\ \A i \in DOMAIN f : f[i] \in DB!Bucket

(* Renames or not, the size of a bucket covers its entries, and every       *)
(* bucket has a link.                                                       *)
CountsOK(f) ==
  \A i \in DOMAIN f :
    Cardinality(DB!Entries(f[i])) <= f[i].size /\ f[i].hard_links > 0

(* Before a rename: names lead to inodes other than the root and the        *)
(* directory they are in, and a directory has one name.                     *)
TreeOK(f) ==
  /\ 1 \in DOMAIN f /\ IsDirectory(f[1].mode)
  /\ \A d \in DOMAIN f, n \in Names : f[d].data[n] # 0 => f[d].data[n] \in DOMAIN f \ {1, d}
  /\ \A d, e \in DOMAIN f, n, m \in Names :
       /\ f[d].data[n] \in DOMAIN f /\ IsDirectory(f[f[d].data[n]].mode)
       /\ f[e].data[m] = f[d].data[n]
       => d = e /\ n = m

Pairs == Places \X Names

HeldIn(ds, x) == x = RootPlace \/ \E q \in Pairs : ds[q] = x

DentriesOf(ds, x) == {q \in Pairs : ds[q] = x}

InMemoryInode == [number : 0..MaxIno, dir : BOOLEAN, file_size : Int, hard_links : Int]

(* Inodes ms and dentries ds, before those without a dentry are freed: the  *)
(* root is at its place, where no name leads, and an inode has the links of *)
(* its dentries.                                                            *)
Ready(ms, ds) ==
  /\ ms \in [Places -> InMemoryInode]
  /\ ds \in [Pairs -> Places \cup {NoInode}]
  /\ ms[RootPlace].number = 1 /\ ms[RootPlace].dir
  /\ \A q \in Pairs : ds[q] # RootPlace
  /\ \A x \in Places : HeldIn(ds, x) =>
       ms[x].number # 0 /\ Cardinality(DentriesOf(ds, x)) <= ms[x].hard_links

MemOK(ms, ds) == Ready(ms, ds) /\ \A x \in Places : HeldIn(ds, x) \/ ms[x] = Free

NamesOf(b) == {n \in Names : b.data[n] # 0}

(* Before a rename: an inode in memory is one of the database, of the same  *)
(* type; a directory is in memory once, and covers its names; a cached name *)
(* is one of a directory in memory, and leads where the database says.      *)
CacheOK(f, ms, ds) ==
  /\ \A x \in Places : HeldIn(ds, x) =>
       /\ ms[x].number \in DOMAIN f
       /\ ms[x].dir <=> IsDirectory(f[ms[x].number].mode)
       /\ ms[x].dir => Cardinality(NamesOf(f[ms[x].number])) <= ms[x].file_size
  /\ \A x, y \in Places :
       HeldIn(ds, x) /\ HeldIn(ds, y) /\ ms[x].dir /\ ms[y].dir /\ ms[x].number = ms[y].number
       => x = y
  /\ \A o \in Places, n \in Names : ds[<<o, n>>] # NoInode =>
       /\ HeldIn(ds, o) /\ ms[o].dir
       /\ f[ms[o].number].data[n] = ms[ds[<<o, n>>]].number

BaseInv ==
  /\ DbTyped(db) /\ CountsOK(db)
  /\ num \in 1 .. MaxIno + 1
  /\ reply \in [by : {Kernel.uid}, res : DB!Results]
  /\ text \subseteq DOMAIN db
  /\ MemOK(mem, dentry)
  /\ renamed \in BOOLEAN

-----------------------------------------------------------------------------
(* Writes to buckets.                                                       *)

LEMMA Numbers == DB!Ino = 1..MaxIno /\ DB!NoIno = 0 /\ MaxIno \in Nat \ {0}
BY Zenon, RvfsAssumption DEF DB!Ino, DB!NoIno

(* g is f with i for name n of d, and k added to the size of d. *)
Wrote(f, g, d, n, i, k) ==
  /\ DbTyped(g) /\ DOMAIN g = DOMAIN f
  /\ \A j \in DOMAIN f :
       /\ g[j].mode = f[j].mode /\ g[j].hard_links = f[j].hard_links
       /\ g[j].size = IF j = d THEN f[j].size + k ELSE f[j].size
       /\ \A m \in DB!AllNames : g[j].data[m] = IF j = d /\ m = n THEN i ELSE f[j].data[m]

LEMMA PutFacts ==
  ASSUME NEW f, DbTyped(f), NEW d \in DOMAIN f, NEW n \in DB!AllNames, NEW i \in 0..MaxIno
  PROVE  Wrote(f, DB!PutEntry(f, d, n, i), d, n, i, 0)
<1> DEFINE g == DB!PutEntry(f, d, n, i)
<1>1. i \in DB!Ino \cup {DB!NoIno}
  BY Numbers
<1>2. DOMAIN g = DOMAIN f /\ g = [j \in DOMAIN g |-> g[j]]
  BY Zenon DEF DB!PutEntry, DbTyped
<1>3. ASSUME NEW j \in DOMAIN f
      PROVE  /\ g[j] \in DB!Bucket /\ g[j].mode = f[j].mode
             /\ g[j].hard_links = f[j].hard_links /\ g[j].size = f[j].size
             /\ \A m \in DB!AllNames : g[j].data[m] = IF j = d /\ m = n THEN i ELSE f[j].data[m]
  BY ZenonT(60), <1>1 DEF DB!PutEntry, DbTyped, DB!Bucket
<1>4. \A j \in DOMAIN f : f[j].size + 0 = f[j].size
  BY DEF DbTyped, DB!Bucket
<1> HIDE DEF g
<1>5. DbTyped(g)
  BY Zenon, <1>2, <1>3 DEF DbTyped
<1>6. QED
  BY Zenon, <1>2, <1>3, <1>4, <1>5 DEF Wrote, g

LEMMA SizedFacts ==
  ASSUME NEW f, DbTyped(f), NEW d \in DOMAIN f, NEW n \in DB!AllNames, NEW i \in 0..MaxIno,
         NEW k \in Int, f[d].size + k \in Nat, NEW g,
         g = [DB!PutEntry(f, d, n, i) EXCEPT ![d].size = f[d].size + k]
  PROVE  Wrote(f, g, d, n, i, k)
<1> DEFINE p == DB!PutEntry(f, d, n, i)
           s == f[d].size + k
<1>0. g = [p EXCEPT ![d].size = s]
  OBVIOUS
<1>1. Wrote(f, p, d, n, i, 0)
  BY Zenon, PutFacts
<1> HIDE DEF p
<1>2. \A j \in DOMAIN f : f[j].size + 0 = f[j].size
  BY DEF DbTyped, DB!Bucket
<1>3. s \in Nat
  OBVIOUS
<1> HIDE DEF s
<1>4. DOMAIN g = DOMAIN f /\ g = [j \in DOMAIN g |-> g[j]]
  BY Zenon, <1>0, <1>1 DEF Wrote, DbTyped
<1>5. ASSUME NEW j \in DOMAIN f
      PROVE  /\ g[j] \in DB!Bucket /\ g[j].mode = p[j].mode
             /\ g[j].hard_links = p[j].hard_links /\ g[j].data = p[j].data
             /\ g[j].size = IF j = d THEN s ELSE p[j].size
  <2>1. p = [m \in DOMAIN p |-> p[m]] /\ DOMAIN p = DOMAIN f /\ p[j] \in DB!Bucket
    BY Zenon, <1>1 DEF Wrote, DbTyped
  <2>2. g[j] = IF j = d THEN [p[d] EXCEPT !.size = s] ELSE p[j]
    BY Zenon, <1>0, <2>1
  <2>3. CASE j = d
    BY <1>3, <2>1, <2>2, <2>3 DEF DB!Bucket
  <2>4. CASE j # d
    BY <2>1, <2>2, <2>4
  <2>5. QED
    BY Zenon, <2>3, <2>4
<1>6. DbTyped(g)
  BY Zenon, <1>1, <1>4, <1>5 DEF DbTyped, Wrote
<1>7. QED
  <2>1. \A j \in DOMAIN f : g[j].size = IF j = d THEN f[j].size + k ELSE f[j].size
    BY Zenon, <1>1, <1>2, <1>5 DEF Wrote, s
  <2>2. \A j \in DOMAIN f : g[j].mode = f[j].mode /\ g[j].hard_links = f[j].hard_links
    BY Zenon, <1>1, <1>5 DEF Wrote
  <2>3. \A j \in DOMAIN f : \A m \in DB!AllNames :
          g[j].data[m] = IF j = d /\ m = n THEN i ELSE f[j].data[m]
    BY <1>1, <1>5 DEF Wrote
  <2>4. QED
    BY Zenon, <1>4, <1>6, <2>1, <2>2, <2>3 DEF Wrote

LEMMA AddFacts ==
  ASSUME NEW f, DbTyped(f), NEW d \in DOMAIN f, NEW n \in DB!AllNames, NEW i \in 0..MaxIno
  PROVE  Wrote(f, DB!AddEntry(f, d, n, i), d, n, i, 1)
<1>1. Wrote(f, DB!PutEntry(f, d, n, i), d, n, i, 0)
  BY Zenon, PutFacts
<1>2. f[d].size \in Nat /\ DB!PutEntry(f, d, n, i)[d].size = f[d].size
  BY <1>1 DEF Wrote, DbTyped, DB!Bucket
<1>3. f[d].size + 1 \in Nat
  BY <1>2
<1>4. DB!AddEntry(f, d, n, i) = [DB!PutEntry(f, d, n, i) EXCEPT ![d].size = f[d].size + 1]
  BY Zenon, <1>2 DEF DB!AddEntry
<1>5. 1 \in Int
  OBVIOUS
<1>6. QED
  BY Zenon, <1>3, <1>4, <1>5, SizedFacts

LEMMA RemoveFacts ==
  ASSUME NEW f, DbTyped(f), NEW d \in DOMAIN f, NEW n \in DB!AllNames, f[d].size > 0
  PROVE  Wrote(f, DB!RemoveEntry(f, d, n), d, n, 0, -1)
<1>0. 0 \in 0..MaxIno
  BY Numbers
<1>1. Wrote(f, DB!PutEntry(f, d, n, 0), d, n, 0, 0)
  BY Zenon, <1>0, PutFacts
<1>2. f[d].size \in Nat /\ DB!PutEntry(f, d, n, 0)[d].size = f[d].size
  BY <1>1 DEF Wrote, DbTyped, DB!Bucket
<1>3. f[d].size + (-1) \in Nat /\ f[d].size - 1 = f[d].size + (-1)
  BY <1>2
<1>4. DB!RemoveEntry(f, d, n) = [DB!PutEntry(f, d, n, 0) EXCEPT ![d].size = f[d].size + (-1)]
  BY Zenon, <1>2, <1>3, Numbers DEF DB!RemoveEntry
<1>5. -1 \in Int
  OBVIOUS
<1>6. QED
  BY Zenon, <1>0, <1>3, <1>4, <1>5, SizedFacts

LEMMA NamesAreNames == Names \subseteq DB!AllNames /\ IsFiniteSet(DB!AllNames)
<1>1. DB!AllNames = (Names \cup {"."}) \cup {".."}
  BY Zenon DEF DB!AllNames
<1>2. QED
  BY Zenon, <1>1, RvfsAssumption, FS_AddElement

LEMMA EntriesFinite ==
  ASSUME NEW b
  PROVE  IsFiniteSet(DB!Entries(b)) /\ Cardinality(DB!Entries(b)) \in Nat
BY Zenon, NamesAreNames, FS_Subset, FS_CardinalityType DEF DB!Entries

LEMMA CardOneMore ==
  ASSUME NEW T, IsFiniteSet(T), NEW x, NEW S, S \subseteq T \cup {x}
  PROVE  IsFiniteSet(S) /\ Cardinality(S) \in Nat /\ Cardinality(S) <= Cardinality(T) + 1
<1>1. IsFiniteSet(T \cup {x})
      /\ Cardinality(T \cup {x}) = IF x \in T THEN Cardinality(T) ELSE Cardinality(T) + 1
  BY Zenon, FS_AddElement
<1>2. Cardinality(S) <= Cardinality(T \cup {x}) /\ IsFiniteSet(S)
  BY Zenon, <1>1, FS_Subset
<1>3. Cardinality(T) \in Nat /\ Cardinality(S) \in Nat
  BY Zenon, <1>2, FS_CardinalityType
<1>4. QED
  BY <1>1, <1>2, <1>3

LEMMA CardOneLess ==
  ASSUME NEW T, IsFiniteSet(T), NEW x \in T, NEW S, S \subseteq T \ {x}
  PROVE  /\ IsFiniteSet(S) /\ Cardinality(S) \in Nat
         /\ Cardinality(T) > 0 /\ Cardinality(S) <= Cardinality(T) - 1
<1>1. IsFiniteSet(T \ {x}) /\ Cardinality(T \ {x}) = Cardinality(T) - 1
  BY Zenon, FS_RemoveElement
<1>2. IsFiniteSet(S) /\ Cardinality(S) <= Cardinality(T \ {x})
  BY Zenon, <1>1, FS_Subset
<1>3. Cardinality(T) \in Nat /\ Cardinality(S) \in Nat /\ Cardinality(T \ {x}) \in Nat
  BY Zenon, <1>1, <1>2, FS_CardinalityType
<1>4. QED
  BY <1>1, <1>2, <1>3

(* An entry added adds one to the size, one taken away takes one, and one   *)
(* that leads elsewhere leaves it.                                          *)
LEMMA CountsKept ==
  ASSUME NEW f, DbTyped(f), CountsOK(f), NEW d \in DOMAIN f, NEW n \in Names,
         NEW i \in 0..MaxIno, NEW k \in Int, NEW g, Wrote(f, g, d, n, i, k),
         k < 1 => f[d].data[n] # 0,
         k < 0 => k = -1 /\ i = 0
  PROVE  CountsOK(g)
<1> SUFFICES ASSUME NEW j \in DOMAIN f
             PROVE  Cardinality(DB!Entries(g[j])) <= g[j].size /\ g[j].hard_links > 0
  BY Zenon DEF Wrote, CountsOK
<1>1. g[j].hard_links > 0
  BY Zenon DEF Wrote, CountsOK
<1> DEFINE E == DB!Entries(f[j])
           F == DB!Entries(g[j])
<1>2. IsFiniteSet(E) /\ Cardinality(E) \in Nat /\ Cardinality(F) \in Nat
  BY Zenon, EntriesFinite
<1>3. f[j].size \in Nat /\ Cardinality(E) <= f[j].size
  BY Zenon DEF DbTyped, DB!Bucket, CountsOK
<1>4. n \in DB!AllNames /\ DB!NoIno = 0
  BY Zenon, NamesAreNames, Numbers
<1>5. CASE j # d
  <2>1. F = E /\ g[j].size = f[j].size
    BY Zenon, <1>5 DEF Wrote, DB!Entries
  <2>2. QED
    BY Zenon, <1>1, <1>3, <2>1
<1>6. CASE j = d /\ k >= 1
  <2>1. F \subseteq E \cup {n} /\ g[j].size = f[j].size + k
    BY Zenon, <1>6 DEF Wrote, DB!Entries
  <2>2. Cardinality(F) <= Cardinality(E) + 1
    BY Zenon, <1>2, <2>1, CardOneMore
  <2>3. QED
    BY <1>1, <1>2, <1>3, <1>6, <2>1, <2>2
<1>7. CASE j = d /\ k = 0
  <2>1. F \subseteq E /\ g[j].size = f[j].size + k
    BY <1>4, <1>7 DEF Wrote, DB!Entries
  <2>2. Cardinality(F) <= Cardinality(E)
    BY Zenon, <1>2, <2>1, FS_Subset
  <2>3. QED
    BY <1>1, <1>2, <1>3, <1>7, <2>1, <2>2
<1>8. CASE j = d /\ k < 0
  <2>1. F \subseteq E \ {n} /\ n \in E /\ g[j].size = f[j].size + (-1)
    BY <1>4, <1>8 DEF Wrote, DB!Entries
  <2>2. Cardinality(F) <= Cardinality(E) - 1
    BY Zenon, <1>2, <2>1, CardOneLess
  <2>3. QED
    BY <1>1, <1>2, <1>3, <2>1, <2>2
<1>9. QED
  BY <1>5, <1>6, <1>7, <1>8

LEMMA NamedSize ==
  ASSUME NEW f, DbTyped(f), CountsOK(f), NEW d \in DOMAIN f, NEW n \in Names, f[d].data[n] # 0
  PROVE  f[d].size > 0
<1>1. n \in DB!Entries(f[d])
  BY Zenon, NamesAreNames, Numbers DEF DB!Entries
<1>2. Cardinality(DB!Entries(f[d])) > 0 /\ Cardinality(DB!Entries(f[d])) \in Nat
  BY Zenon, <1>1, EntriesFinite, CardOneLess
<1>3. f[d].size \in Nat /\ Cardinality(DB!Entries(f[d])) <= f[d].size
  BY Zenon DEF DbTyped, DB!Bucket, CountsOK
<1>4. QED
  BY <1>2, <1>3

(* f and g agree on the buckets of f other than i. *)
LEMMA DeleteFacts ==
  ASSUME NEW f, DbTyped(f), CountsOK(f), NEW i
  PROVE  LET g == DB!DeleteBucket(f, i)
         IN /\ DbTyped(g) /\ CountsOK(g) /\ DOMAIN g = DOMAIN f \ {i}
            /\ \A j \in DOMAIN f \ {i} : g[j] = f[j]
BY Zenon DEF DbTyped, CountsOK, DB!DeleteBucket

(* g is f with b in the place of bucket i. *)
Filled(f, g, i, b) ==
  /\ DbTyped(g) /\ CountsOK(g) /\ DOMAIN g = DOMAIN f \cup {i}
  /\ g[i] = b /\ \A j \in DOMAIN f \ {i} : g[j] = f[j]

LEMMA BucketFacts ==
  ASSUME NEW f, DbTyped(f), CountsOK(f), NEW i \in 1..MaxIno, NEW b \in DB!Bucket,
         Cardinality(DB!Entries(b)) <= b.size, b.hard_links > 0
  PROVE  Filled(f, DB!PutBucket(f, i, b), i, b)
BY Zenon DEF DbTyped, CountsOK, DB!PutBucket, Filled

(* g is f with k links of inode i. *)
Linking(f, g, i, k) ==
  /\ DbTyped(g) /\ CountsOK(g) /\ DOMAIN g = DOMAIN f
  /\ \A j \in DOMAIN f :
       /\ g[j].mode = f[j].mode /\ g[j].size = f[j].size /\ g[j].data = f[j].data
       /\ g[j].hard_links = IF j = i THEN k ELSE f[j].hard_links

LEMMA LinkingFacts ==
  ASSUME NEW f, DbTyped(f), CountsOK(f), NEW i \in DOMAIN f, NEW k \in Nat, k > 0, NEW g,
         g = [f EXCEPT ![i].hard_links = k]
  PROVE  Linking(f, g, i, k)
<1>1. f = [m \in DOMAIN f |-> f[m]] /\ \A m \in DOMAIN f : f[m] \in DB!Bucket
  BY Zenon DEF DbTyped
<1>2. DOMAIN g = DOMAIN f /\ g = [j \in DOMAIN g |-> g[j]]
  BY Zenon, <1>1
<1>3. \A j \in DOMAIN f : g[j] = IF j = i THEN [f[i] EXCEPT !.hard_links = k] ELSE f[j]
  BY Zenon, <1>1
<1>4. ASSUME NEW j \in DOMAIN f
      PROVE  /\ g[j] \in DB!Bucket
             /\ g[j].mode = f[j].mode /\ g[j].size = f[j].size /\ g[j].data = f[j].data
             /\ g[j].hard_links = IF j = i THEN k ELSE f[j].hard_links
  BY <1>1, <1>3 DEF DB!Bucket
<1>5. DbTyped(g)
  BY Zenon, <1>2, <1>4 DEF DbTyped
<1>6. \A j \in DOMAIN f : DB!Entries(g[j]) = DB!Entries(f[j])
  BY Zenon, <1>4 DEF DB!Entries
<1>7. CountsOK(g)
  BY <1>2, <1>4, <1>6 DEF CountsOK
<1>8. QED
  BY Zenon, <1>2, <1>4, <1>5, <1>7 DEF Linking

LEMMA AddLinkFacts ==
  ASSUME NEW f, DbTyped(f), CountsOK(f), NEW i \in DOMAIN f
  PROVE  Linking(f, DB!AddLink(f, i), i, f[i].hard_links + 1)
<1>1. f[i].hard_links + 1 \in Nat /\ f[i].hard_links + 1 > 0
  BY DEF DbTyped, DB!Bucket
<1>2. DB!AddLink(f, i) = [f EXCEPT ![i].hard_links = f[i].hard_links + 1]
  BY Zenon DEF DB!AddLink
<1>3. QED
  BY Zenon, <1>1, <1>2, LinkingFacts

LEMMA DropLinkFacts ==
  ASSUME NEW f, DbTyped(f), CountsOK(f), NEW i \in DOMAIN f
  PROVE  LET g == DB!DropLink(f, i)
         IN /\ DbTyped(g) /\ CountsOK(g)
            /\ \A j \in DOMAIN g : j \in DOMAIN f /\ g[j].mode = f[j].mode /\ g[j].data = f[j].data
            /\ DOMAIN g = IF f[i].hard_links = 1 THEN DOMAIN f \ {i} ELSE DOMAIN f
<1>1. CASE f[i].hard_links = 1
  <2>1. DB!DropLink(f, i) = DB!DeleteBucket(f, i)
    BY Zenon, <1>1 DEF DB!DropLink
  <2> DEFINE g == DB!DeleteBucket(f, i)
  <2>2. /\ DbTyped(g) /\ CountsOK(g) /\ DOMAIN g = DOMAIN f \ {i}
        /\ \A j \in DOMAIN f \ {i} : g[j] = f[j]
    BY Zenon, DeleteFacts
  <2> HIDE DEF g
  <2>3. \A j \in DOMAIN g : j \in DOMAIN f /\ g[j].mode = f[j].mode /\ g[j].data = f[j].data
    BY Zenon, <2>2
  <2>4. QED
    BY Zenon, <1>1, <2>1, <2>2, <2>3 DEF g
<1>2. CASE f[i].hard_links # 1
  <2>1. f[i].hard_links - 1 \in Nat /\ f[i].hard_links - 1 > 0
    BY <1>2 DEF DbTyped, DB!Bucket, CountsOK
  <2>2. DB!DropLink(f, i) = [f EXCEPT ![i].hard_links = f[i].hard_links - 1]
    BY Zenon, <1>2 DEF DB!DropLink
  <2>3. Linking(f, DB!DropLink(f, i), i, f[i].hard_links - 1)
    BY Zenon, <2>1, <2>2, LinkingFacts
  <2>4. QED
    BY Zenon, <1>2, <2>3 DEF Linking
<1>3. QED
  BY Zenon, <1>1, <1>2

-----------------------------------------------------------------------------
(* What the transactions do to the names.                                   *)

(* The buckets that f and g share have the same types and names, but for    *)
(* name n of d, which is i in g.                                            *)
Changed(f, g, d, n, i) ==
  /\ DbTyped(g) /\ CountsOK(g)
  /\ \A j \in DOMAIN f \cap DOMAIN g :
       /\ g[j].mode = f[j].mode
       /\ \A m \in Names : g[j].data[m] = IF j = d /\ m = n THEN i ELSE f[j].data[m]

(* This, and the buckets of g are D. *)
Effect(f, g, d, n, i, D) == Changed(f, g, d, n, i) /\ DOMAIN g = D

(* A bucket that an operation may make. *)
Fresh(b) ==
  /\ b \in DB!Bucket /\ Cardinality(DB!Entries(b)) <= b.size /\ b.hard_links > 0
  /\ \A m \in Names : b.data[m] = 0

LEMMA AddEffect ==
  ASSUME NEW f, DbTyped(f), CountsOK(f), NEW d \in DOMAIN f, NEW n \in Names, NEW i \in 1..MaxIno
  PROVE  Effect(f, DB!AddEntry(f, d, n, i), d, n, i, DOMAIN f)
<1> DEFINE a == DB!AddEntry(f, d, n, i)
<1>1. n \in DB!AllNames /\ i \in 0..MaxIno
  BY NamesAreNames
<1>2. Wrote(f, a, d, n, i, 1)
  BY Zenon, <1>1, AddFacts
<1> HIDE DEF a
<1>3. CountsOK(a)
  <2>1. 1 \in Int /\ (1 < 1 => f[d].data[n] # 0) /\ (1 < 0 => 1 = -1 /\ i = 0)
    OBVIOUS
  <2>2. QED
    BY Zenon, <1>1, <1>2, <2>1, CountsKept
<1>4. \A j \in DOMAIN f : a[j].mode = f[j].mode
  BY Zenon, <1>2 DEF Wrote
<1>5. \A j \in DOMAIN f : \A m \in Names :
        a[j].data[m] = IF j = d /\ m = n THEN i ELSE f[j].data[m]
  BY Zenon, <1>2, NamesAreNames DEF Wrote
<1>6. DbTyped(a) /\ DOMAIN a = DOMAIN f
  BY Zenon, <1>2 DEF Wrote
<1>7. QED
  BY Zenon, <1>3, <1>4, <1>5, <1>6 DEF Effect, Changed, a

Made(f, g, d, n, i, b) == Effect(f, g, d, n, i, DOMAIN f \cup {i}) /\ g[i] = b

LEMMA CreateEffect ==
  ASSUME NEW f, DbTyped(f), CountsOK(f), NEW d \in DOMAIN f, NEW n \in Names,
         NEW i \in 1..MaxIno, i \notin DOMAIN f, NEW b, Fresh(b)
  PROVE  Made(f, DB!PutBucket(DB!AddEntry(f, d, n, i), i, b), d, n, i, b)
<1> DEFINE a == DB!AddEntry(f, d, n, i)
           g == DB!PutBucket(a, i, b)
<1>1. Effect(f, a, d, n, i, DOMAIN f)
  BY Zenon, AddEffect
<1>2. Changed(f, a, d, n, i) /\ DOMAIN a = DOMAIN f
  BY Zenon, <1>1 DEF Effect
<1> HIDE DEF a
<1>3. DbTyped(a) /\ CountsOK(a)
  BY Zenon, <1>2 DEF Changed
<1>4. Filled(a, g, i, b)
  BY Zenon, <1>2, <1>3, BucketFacts DEF Fresh
<1> HIDE DEF g
<1>5. \A j \in DOMAIN f : g[j] = a[j]
  BY Zenon, <1>2, <1>4 DEF Filled
<1>6. \A j \in DOMAIN f :
        /\ g[j].mode = f[j].mode
        /\ \A m \in Names : g[j].data[m] = IF j = d /\ m = n THEN i ELSE f[j].data[m]
  BY <1>2, <1>5 DEF Changed
<1>7. QED
  BY Zenon, <1>2, <1>4, <1>6 DEF Made, Effect, Changed, Filled, g, a

LEMMA LinkEffect ==
  ASSUME NEW f, DbTyped(f), CountsOK(f), NEW d \in DOMAIN f, NEW n \in Names, NEW i \in DOMAIN f
  PROVE  Effect(f, DB!AddLink(DB!AddEntry(f, d, n, i), i), d, n, i, DOMAIN f)
<1> DEFINE a == DB!AddEntry(f, d, n, i)
           g == DB!AddLink(a, i)
<1>1. i \in 1..MaxIno
  BY Zenon DEF DbTyped
<1>added. Effect(f, a, d, n, i, DOMAIN f)
  BY Zenon, <1>1, AddEffect
<1>2. Changed(f, a, d, n, i) /\ DOMAIN a = DOMAIN f
  BY Zenon, <1>added DEF Effect
<1> HIDE DEF a
<1>3. DbTyped(a) /\ CountsOK(a)
  BY Zenon, <1>2 DEF Changed
<1>4. Linking(a, g, i, a[i].hard_links + 1)
  BY Zenon, <1>2, <1>3, AddLinkFacts
<1> HIDE DEF g
<1>5. \A j \in DOMAIN f :
        /\ g[j].mode = f[j].mode
        /\ \A m \in Names : g[j].data[m] = IF j = d /\ m = n THEN i ELSE f[j].data[m]
  BY <1>2, <1>4 DEF Changed, Linking
<1>6. QED
  BY Zenon, <1>2, <1>4, <1>5 DEF Effect, Changed, Linking, g, a

LEMMA RemoveEffect ==
  ASSUME NEW f, DbTyped(f), CountsOK(f), NEW d \in DOMAIN f, NEW n \in Names, f[d].data[n] # 0
  PROVE  LET a == DB!RemoveEntry(f, d, n)
         IN /\ Changed(f, a, d, n, 0) /\ DOMAIN a = DOMAIN f
            /\ \A j \in DOMAIN f : a[j].hard_links = f[j].hard_links
<1> DEFINE a == DB!RemoveEntry(f, d, n)
<1>1. n \in DB!AllNames /\ 0 \in 0..MaxIno /\ -1 \in Int
  BY NamesAreNames, Numbers
<1>2. f[d].size > 0
  BY Zenon, NamedSize
<1>3. Wrote(f, a, d, n, 0, -1)
  BY Zenon, <1>1, <1>2, RemoveFacts
<1> HIDE DEF a
<1>4. CountsOK(a)
  BY Zenon, <1>1, <1>3, CountsKept
<1>5. QED
  BY Zenon, <1>3, <1>4, NamesAreNames DEF Changed, Wrote, a

LEMMA UnlinkEffect ==
  ASSUME NEW f, DbTyped(f), CountsOK(f), NEW d \in DOMAIN f, NEW n \in Names, f[d].data[n] # 0,
         NEW i \in DOMAIN f
  PROVE  Effect(f, DB!DropLink(DB!RemoveEntry(f, d, n), i), d, n, 0,
                IF f[i].hard_links = 1 THEN DOMAIN f \ {i} ELSE DOMAIN f)
<1> DEFINE a == DB!RemoveEntry(f, d, n)
           g == DB!DropLink(a, i)
<1>1. /\ Changed(f, a, d, n, 0) /\ DOMAIN a = DOMAIN f
      /\ \A j \in DOMAIN f : a[j].hard_links = f[j].hard_links
  BY Zenon, RemoveEffect
<1> HIDE DEF a
<1>2. /\ DbTyped(g) /\ CountsOK(g)
      /\ \A j \in DOMAIN g : j \in DOMAIN a /\ g[j].mode = a[j].mode /\ g[j].data = a[j].data
      /\ DOMAIN g = IF a[i].hard_links = 1 THEN DOMAIN a \ {i} ELSE DOMAIN a
  BY Zenon, <1>1, DropLinkFacts DEF Changed
<1> HIDE DEF g
<1>3. \A j \in DOMAIN f \cap DOMAIN g :
        /\ g[j].mode = f[j].mode
        /\ \A m \in Names : g[j].data[m] = IF j = d /\ m = n THEN 0 ELSE f[j].data[m]
  BY <1>1, <1>2 DEF Changed
<1>4. QED
  BY Zenon, <1>1, <1>2, <1>3 DEF Effect, Changed, g, a

LEMMA RmdirEffect ==
  ASSUME NEW f, DbTyped(f), CountsOK(f), NEW d \in DOMAIN f, NEW n \in Names, f[d].data[n] # 0,
         NEW i
  PROVE  Effect(f, DB!DeleteBucket(DB!RemoveEntry(f, d, n), i), d, n, 0, DOMAIN f \ {i})
<1> DEFINE a == DB!RemoveEntry(f, d, n)
           g == DB!DeleteBucket(a, i)
<1>1. Changed(f, a, d, n, 0) /\ DOMAIN a = DOMAIN f
  BY Zenon, RemoveEffect
<1> HIDE DEF a
<1>2. /\ DbTyped(g) /\ CountsOK(g) /\ DOMAIN g = DOMAIN a \ {i}
      /\ \A j \in DOMAIN a \ {i} : g[j] = a[j]
  BY Zenon, <1>1, DeleteFacts DEF Changed
<1> HIDE DEF g
<1>3. \A j \in DOMAIN f \cap DOMAIN g :
        /\ g[j].mode = f[j].mode
        /\ \A m \in Names : g[j].data[m] = IF j = d /\ m = n THEN 0 ELSE f[j].data[m]
  BY Zenon, <1>1, <1>2 DEF Changed
<1>4. QED
  BY Zenon, <1>1, <1>2, <1>3 DEF Effect, Changed, g, a

LEMMA WithinEffect ==
  ASSUME DbTyped(db), CountsOK(db), NEW d \in DOMAIN db, NEW n \in Names, db[d].data[n] # 0
  PROVE  Effect(db, RenamedWithin(d, n), d, n, d, DOMAIN db)
<1> DEFINE g == DB!PutEntry(db, d, n, d)
<1>1. n \in DB!AllNames /\ d \in 0..MaxIno
  BY NamesAreNames DEF DbTyped
<1>2. Wrote(db, g, d, n, d, 0)
  BY Zenon, <1>1, PutFacts
<1> HIDE DEF g
<1>3. CountsOK(g)
  <2>1. 0 \in Int /\ (0 < 0 => 0 = -1 /\ d = 0)
    OBVIOUS
  <2>2. QED
    BY Zenon, <1>1, <1>2, <2>1, CountsKept
<1>4. \A j \in DOMAIN db : g[j].mode = db[j].mode
  BY Zenon, <1>2 DEF Wrote
<1>5. \A j \in DOMAIN db : \A m \in Names :
        g[j].data[m] = IF j = d /\ m = n THEN d ELSE db[j].data[m]
  BY Zenon, <1>2, NamesAreNames DEF Wrote
<1>6. DbTyped(g) /\ DOMAIN g = DOMAIN db
  BY Zenon, <1>2 DEF Wrote
<1>7. QED
  BY Zenon, <1>3, <1>4, <1>5, <1>6 DEF Effect, Changed, RenamedWithin, g

(* g is f with other names in d and e only. *)
Crossed(f, g, d, e) ==
  /\ DbTyped(g) /\ CountsOK(g) /\ DOMAIN g = DOMAIN f
  /\ \A j \in DOMAIN f \ {d, e}, m \in Names : g[j].data[m] = f[j].data[m]

LEMMA AcrossEffect ==
  ASSUME DbTyped(db), CountsOK(db), NEW d \in DOMAIN db, NEW on \in Names,
         db[d].data[on] # 0, NEW e \in DOMAIN db, NEW nn \in Names
  PROVE  Crossed(db, RenamedAcross(d, on, e, nn), d, e)
<1> DEFINE a == DB!RemoveEntry(db, d, on)
           g == DB!AddEntry(a, e, nn, e)
<1>1. RenamedAcross(d, on, e, nn) = g
  BY Zenon DEF RenamedAcross, DB!AddEntry
<1>2. Changed(db, a, d, on, 0) /\ DOMAIN a = DOMAIN db
  BY Zenon, RemoveEffect
<1> HIDE DEF a
<1>3. DbTyped(a) /\ CountsOK(a) /\ e \in 1..MaxIno /\ e \in DOMAIN a
  BY Zenon, <1>2 DEF Changed, DbTyped
<1>4. Effect(a, g, e, nn, e, DOMAIN a)
  BY Zenon, <1>3, AddEffect
<1> HIDE DEF g
<1>5. \A j \in DOMAIN db \ {d, e}, m \in Names : g[j].data[m] = db[j].data[m]
  BY <1>2, <1>4 DEF Changed, Effect
<1>6. QED
  BY Zenon, <1>1, <1>2, <1>4, <1>5 DEF Changed, Effect, Crossed

-----------------------------------------------------------------------------
(* New inodes.                                                              *)

LEMMA SameType == \A mode : DB!IsDirectory(mode) <=> IsDirectory(mode)
BY Zenon DEF DB!IsDirectory, IsDirectory, DB!DbfsFileType, DbfsFileType, DB!Has, Has,
   DB!S_IFSOCK, S_IFSOCK, DB!S_IFLNK, S_IFLNK, DB!S_IFREG, S_IFREG, DB!S_IFBLK, S_IFBLK,
   DB!S_IFDIR, S_IFDIR, DB!S_IFCHR, S_IFCHR

LEMMA DirectoryMode ==
  ASSUME NEW mode, mode \cap {12, 13, 15} = {} \/ 15 \in mode
  PROVE  14 \notin mode \/ 15 \notin mode => (IsDirectory(mode) <=> 14 \in mode)
BY DEF IsDirectory, DbfsFileType, Has, S_IFSOCK, S_IFLNK, S_IFREG, S_IFBLK, S_IFDIR, S_IFCHR

LEMMA RootIsFresh == Fresh(DB!RootInode) /\ IsDirectory(DB!RootInode.mode)
<1> DEFINE b == DB!RootInode
<1>1. /\ b.mode = DB!Perm777 \cup DB!S_IFDIR /\ b.size = 1 /\ b.hard_links = 2
      /\ b.data = [DB!NoData EXCEPT !["."] = 1]
      /\ b = [mode |-> b.mode, uid |-> 0, gid |-> 0, size |-> 1, hard_links |-> 2, data |-> b.data]
  BY Zenon DEF DB!RootInode, DB!RootIno, Kernel
<1>2. b.data \in [DB!AllNames -> DB!Ino \cup {DB!NoIno}]
  <2>1. 1 \in DB!Ino
    BY Numbers
  <2>2. QED
    BY Zenon, <1>1, <2>1 DEF DB!NoData
<1>3. \A n \in DB!AllNames \ {"."} : b.data[n] = DB!NoIno
  BY Zenon, <1>1 DEF DB!NoData
<1>4. b.mode \in SUBSET DB!Bit /\ b.mode = (0..8) \cup {14}
  BY <1>1 DEF DB!Perm777, DB!S_IFDIR, DB!Bit
<1>5. b \in DB!Bucket
  BY <1>1, <1>2, <1>4 DEF DB!Bucket
<1>6. DB!Entries(b) \subseteq {} \cup {"."}
  BY Zenon, <1>3 DEF DB!Entries
<1>7. Cardinality(DB!Entries(b)) <= b.size
  BY <1>1, <1>6, CardOneMore, FS_EmptySet
<1>8. IsDirectory(b.mode)
  <2>1. 14 \in b.mode /\ 15 \notin b.mode /\ b.mode \cap {12, 13, 15} = {}
    BY <1>4
  <2>2. QED
    BY Zenon, <2>1, DirectoryMode
<1>9. \A n \in Names : b.data[n] = 0
  BY Zenon, <1>3, Numbers, NamesAreNames, RvfsAssumption
<1>10. b.hard_links > 0
  BY <1>1
<1>11. QED
  BY Zenon, <1>5, <1>7, <1>8, <1>9, <1>10 DEF Fresh

LEMMA NewIsFresh ==
  ASSUME DbTyped(db), NEW d \in DOMAIN db, NEW i \in 1..MaxIno, NEW t \in Types
  PROVE  LET b == DB!NewInode(Kernel, d, i, Perm777 \cup t)
         IN Fresh(b) /\ (IsDirectory(b.mode) <=> t = S_IFDIR)
<1> DEFINE perm == Perm777 \cup t
           b == DB!NewInode(Kernel, d, i, perm)
<1>0. perm \in {(0..8) \cup {15}, (0..8) \cup {14}, (0..8) \cup {15, 13}}
      /\ (t = S_IFDIR <=> 14 \in perm)
  BY RvfsAssumption DEF Perm777, S_IFREG, S_IFDIR, S_IFLNK
<1> HIDE DEF perm
<1>1. /\ b.mode = DB!NewMode(Kernel, d, perm) /\ b.uid = 0
      /\ b.gid = DB!creation_gid(db[d].gid, perm, 0) /\ b.size = DB!NewSize(perm)
      /\ b.hard_links = DB!NewLinks(perm) /\ b.data = DB!NewData(d, i, perm)
      /\ b = [mode |-> b.mode, uid |-> b.uid, gid |-> b.gid, size |-> b.size,
              hard_links |-> b.hard_links, data |-> b.data]
  BY Zenon DEF DB!NewInode, Kernel
<1> HIDE DEF b
<1>2. DB!Has(perm, DB!S_IFDIR) <=> 14 \in perm
  BY Zenon DEF DB!Has, DB!S_IFDIR
<1>3. ~DB!IsSpecial(perm) \/ 14 \notin perm
  BY <1>0 DEF DB!IsSpecial, DB!Has, DB!S_IFSOCK, DB!S_IFCHR, DB!S_IFBLK, DB!S_IFIFO
<1>4. /\ b.size \in Nat /\ b.hard_links \in Nat /\ b.hard_links > 0
      /\ 14 \in perm => b.size = 2
  BY <1>1, <1>2, <1>3 DEF DB!NewSize, DB!NewLinks
<1>5. b.gid \in Nat
  BY <1>1 DEF DB!creation_gid, DbTyped, DB!Bucket
<1>6. perm \subseteq b.mode /\ b.mode \subseteq perm \cup {10}
  BY Zenon, <1>1 DEF DB!NewMode, DB!S_ISGID, Kernel
<1>7. b.mode \in SUBSET DB!Bit
  BY <1>0, <1>6 DEF DB!Bit
<1>8. b.data \in [DB!AllNames -> DB!Ino \cup {DB!NoIno}]
  <2>1. i \in DB!Ino /\ d \in DB!Ino
    BY Zenon, Numbers DEF DbTyped
  <2>2. QED
    BY Zenon, <1>1, <2>1 DEF DB!NewData, DB!NoData
<1>9. /\ \A n \in DB!AllNames \ {".", ".."} : b.data[n] = DB!NoIno
      /\ 14 \notin perm => \A n \in DB!AllNames : b.data[n] = DB!NoIno
  BY Zenon, <1>1, <1>2 DEF DB!NewData, DB!NoData
<1>10. b \in DB!Bucket
  BY <1>1, <1>4, <1>5, <1>7, <1>8 DEF DB!Bucket
<1>11. Cardinality(DB!Entries(b)) <= b.size
  <2>1. CASE 14 \in perm
    <3>1. DB!Entries(b) \subseteq {"."} \cup {".."}
      BY Zenon, <1>9 DEF DB!Entries
    <3>2. IsFiniteSet({"."}) /\ Cardinality({"."}) = 1
      BY Zenon, FS_Singleton
    <3>3. Cardinality(DB!Entries(b)) <= Cardinality({"."}) + 1 /\ Cardinality(DB!Entries(b)) \in Nat
      BY Zenon, <3>1, <3>2, CardOneMore
    <3>4. QED
      BY <1>4, <2>1, <3>2, <3>3
  <2>2. CASE 14 \notin perm
    <3>1. DB!Entries(b) = {}
      BY Zenon, <1>9, <2>2 DEF DB!Entries
    <3>2. QED
      BY <1>4, <3>1, FS_EmptySet
  <2>3. QED
    BY Zenon, <2>1, <2>2
<1>12. IsDirectory(b.mode) <=> 14 \in perm
  <2>1. (14 \in b.mode <=> 14 \in perm) /\ (b.mode \cap {12, 13, 15} = {} \/ 15 \in b.mode)
        /\ (14 \notin b.mode \/ 15 \notin b.mode)
    BY <1>0, <1>6
  <2>2. QED
    BY Zenon, <2>1, DirectoryMode
<1>13. \A n \in Names : b.data[n] = 0
  BY Zenon, <1>9, Numbers, NamesAreNames, RvfsAssumption
<1>14. QED
  BY Zenon, <1>0, <1>4, <1>10, <1>11, <1>12, <1>13 DEF Fresh, b, perm

(* The kernel acts as root. *)
LEMMA WritableToKernel ==
  ASSUME NEW d, NEW i
  PROVE  DB!MayWrite(Kernel, d) /\ ~DB!StickyDenies(Kernel, d, i)
<1>1. Kernel.uid = 0
  BY Zenon DEF Kernel
<1>2. DB!ACCESS_W_OK \cap DB!ACCESS_X_OK = {}
  BY DEF DB!ACCESS_W_OK, DB!ACCESS_X_OK
<1>3. QED
  BY Zenon, <1>1, <1>2 DEF DB!MayWrite, DB!StickyDenies, DB!checkout_access

-----------------------------------------------------------------------------
(* The inodes in memory and their dentries.                                 *)

LEMMA PlacesFinite ==
  ASSUME NEW S, S \subseteq Pairs
  PROVE  IsFiniteSet(S) /\ Cardinality(S) \in Nat
BY Zenon, RvfsAssumption, FS_Product, FS_Subset, FS_CardinalityType DEF Pairs

LEMMA FreeInode ==
  /\ Free \in InMemoryInode
  /\ Free.number = 0 /\ Free.dir = FALSE /\ Free.file_size = 0 /\ Free.hard_links = 0
BY Numbers DEF Free, InMemoryInode

LEMMA HeldWhere ==
  ASSUME NEW ms, NEW ds, Ready(ms, ds), NEW x \in Places
  PROVE  Held(ms, ds)[x] = IF HeldIn(ds, x) THEN ms[x] ELSE Free
BY Zenon DEF Held, HeldIn, Ready

LEMMA HeldReady ==
  ASSUME NEW ms, NEW ds, Ready(ms, ds)
  PROVE  MemOK(Held(ms, ds), ds)
<1> DEFINE h == Held(ms, ds)
<1>1. \A x \in Places : h[x] = IF HeldIn(ds, x) THEN ms[x] ELSE Free
  BY Zenon, HeldWhere
<1>2. h \in [Places -> InMemoryInode]
  <2>1. h = [x \in Places |-> h[x]]
    BY Zenon DEF Held
  <2>2. \A x \in Places : h[x] \in InMemoryInode
    BY Zenon, <1>1, FreeInode DEF Ready
  <2>3. QED
    BY Zenon, <2>1, <2>2
<1> HIDE DEF h
<1>3. HeldIn(ds, RootPlace) /\ RootPlace \in Places
  BY Zenon, RvfsAssumption DEF HeldIn
<1>4. \A x \in Places : HeldIn(ds, x) =>
        h[x].number # 0 /\ Cardinality(DentriesOf(ds, x)) <= h[x].hard_links
  BY Zenon, <1>1 DEF Ready
<1>5. Ready(h, ds)
  <2>1. h[RootPlace] = ms[RootPlace]
    BY Zenon, <1>1, <1>3
  <2>2. QED
    BY Zenon, <1>2, <1>4, <2>1 DEF Ready
<1>6. QED
  BY Zenon, <1>1, <1>5 DEF MemOK, h

(* Only the inodes that dentries hold matter to the cache. *)
LEMMA HeldCache ==
  ASSUME NEW f, NEW ms, NEW ds, Ready(ms, ds), CacheOK(f, ms, ds)
  PROVE  CacheOK(f, Held(ms, ds), ds)
<1> DEFINE h == Held(ms, ds)
<1>1. \A x \in Places : HeldIn(ds, x) => h[x] = ms[x]
  BY Zenon, HeldWhere
<1> HIDE DEF h
<1>2. ASSUME NEW o \in Places, NEW n \in Names, ds[<<o, n>>] # NoInode
      PROVE  ds[<<o, n>>] \in Places /\ HeldIn(ds, ds[<<o, n>>])
  BY Zenon, <1>2 DEF Ready, HeldIn, Pairs
<1>3. \A x \in Places : HeldIn(ds, x) =>
       /\ h[x].number \in DOMAIN f
       /\ h[x].dir <=> IsDirectory(f[h[x].number].mode)
       /\ h[x].dir => Cardinality(NamesOf(f[h[x].number])) <= h[x].file_size
  BY Zenon, <1>1 DEF CacheOK
<1>4. \A x, y \in Places :
       HeldIn(ds, x) /\ HeldIn(ds, y) /\ h[x].dir /\ h[y].dir /\ h[x].number = h[y].number
       => x = y
  BY Zenon, <1>1 DEF CacheOK
<1>5. ASSUME NEW o \in Places, NEW n \in Names, ds[<<o, n>>] # NoInode
      PROVE  /\ HeldIn(ds, o) /\ h[o].dir
             /\ f[h[o].number].data[n] = h[ds[<<o, n>>]].number
  <2>1. /\ HeldIn(ds, o) /\ ms[o].dir
        /\ f[ms[o].number].data[n] = ms[ds[<<o, n>>]].number
    BY Zenon, <1>5 DEF CacheOK
  <2>2. h[o] = ms[o] /\ h[ds[<<o, n>>]] = ms[ds[<<o, n>>]]
    BY Zenon, <1>1, <1>2, <1>5, <2>1
  <2>3. QED
    BY Zenon, <2>1, <2>2
<1>6. QED
  BY Zenon, <1>3, <1>4, <1>5 DEF CacheOK, h

(* Inode x of ms and ds has, against mem and dentry, the same links and no  *)
(* dentry more; or one of both more; or one of both less; or it is new.     *)
Counted(ms, ds, x) ==
  LET was == DentriesOf(dentry, x)
      now == DentriesOf(ds, x)
      before == mem[x].hard_links
      links == ms[x].hard_links
  IN \/ HeldIn(dentry, x) /\ now \subseteq was /\ links = before
     \/ HeldIn(dentry, x) /\ links = before + 1 /\ \E q \in Pairs : now \subseteq was \cup {q}
     \/ HeldIn(dentry, x) /\ links = before - 1 /\ \E q \in was : now \subseteq was \ {q}
     \/ ms[x].number # 0 /\ links >= 1 /\ \E q \in Pairs : now \subseteq {} \cup {q}

LEMMA ReadyFrom ==
  ASSUME MemOK(mem, dentry), NEW ms \in [Places -> InMemoryInode],
         NEW ds \in [Pairs -> Places \cup {NoInode}],
         \A x \in Places : HeldIn(dentry, x) => ms[x].number = mem[x].number /\ ms[x].dir = mem[x].dir,
         \A q \in Pairs : ds[q] # RootPlace,
         \A x \in Places : HeldIn(ds, x) => Counted(ms, ds, x)
  PROVE  Ready(ms, ds)
<1>1. RootPlace \in Places /\ HeldIn(dentry, RootPlace)
  BY Zenon, RvfsAssumption DEF HeldIn
<1>2. ms[RootPlace].number = 1 /\ ms[RootPlace].dir
  BY Zenon, <1>1 DEF MemOK, Ready
<1>3. ASSUME NEW x \in Places, HeldIn(ds, x)
      PROVE  ms[x].number # 0 /\ Cardinality(DentriesOf(ds, x)) <= ms[x].hard_links
  <2> DEFINE was == DentriesOf(dentry, x)
             now == DentriesOf(ds, x)
  <2>1. ms[x].hard_links \in Int /\ mem[x].hard_links \in Int
    BY DEF MemOK, Ready, InMemoryInode
  <2>2. /\ IsFiniteSet(was) /\ Cardinality(was) \in Nat
        /\ IsFiniteSet(now) /\ Cardinality(now) \in Nat
    BY Zenon, PlacesFinite DEF DentriesOf
  <2>3. HeldIn(dentry, x) => /\ ms[x].number # 0
                             /\ Cardinality(was) <= mem[x].hard_links
    BY Zenon DEF MemOK, Ready
  <2> HIDE DEF was, now
  <2>4. CASE HeldIn(dentry, x) /\ now \subseteq was /\ ms[x].hard_links = mem[x].hard_links
    <3>1. Cardinality(now) <= Cardinality(was)
      BY Zenon, <2>2, <2>4, FS_Subset
    <3>2. QED
      BY <2>1, <2>2, <2>3, <2>4, <3>1 DEF now
  <2>5. CASE HeldIn(dentry, x) /\ ms[x].hard_links = mem[x].hard_links + 1
             /\ \E q \in Pairs : now \subseteq was \cup {q}
    <3>1. Cardinality(now) <= Cardinality(was) + 1
      BY Zenon, <2>2, <2>5, CardOneMore
    <3>2. QED
      BY <2>1, <2>2, <2>3, <2>5, <3>1 DEF now
  <2>6. CASE HeldIn(dentry, x) /\ ms[x].hard_links = mem[x].hard_links - 1
             /\ \E q \in was : now \subseteq was \ {q}
    <3>1. Cardinality(now) <= Cardinality(was) - 1
      BY Zenon, <2>2, <2>6, CardOneLess
    <3>2. QED
      BY <2>1, <2>2, <2>3, <2>6, <3>1 DEF now
  <2>7. CASE ms[x].number # 0 /\ ms[x].hard_links >= 1
             /\ \E q \in Pairs : now \subseteq {} \cup {q}
    <3>1. Cardinality(now) <= Cardinality({}) + 1 /\ Cardinality({}) = 0
      BY Zenon, <2>7, CardOneMore, FS_EmptySet
    <3>2. QED
      BY <2>1, <2>2, <2>7, <3>1 DEF now
  <2>8. Counted(ms, ds, x)
    BY Zenon, <1>3
  <2>9. QED
    BY Zenon, <2>4, <2>5, <2>6, <2>7, <2>8 DEF Counted, was, now
<1>4. QED
  BY Zenon, <1>2, <1>3 DEF Ready

(* ds is dentry with x for name n of o. *)
Bound(ds, o, n, x) ==
  /\ ds \in [Pairs -> Places \cup {NoInode}]
  /\ \A q \in Pairs : ds[q] = (IF q = <<o, n>> THEN x ELSE dentry[q]) /\ ds[q] # RootPlace
  /\ \A y \in Places \ {x} : /\ DentriesOf(ds, y) = DentriesOf(dentry, y) \ {<<o, n>>}
                             /\ HeldIn(ds, y) => HeldIn(dentry, y)
  /\ x # NoInode => /\ DentriesOf(ds, x) = DentriesOf(dentry, x) \cup {<<o, n>>}
                    /\ HeldIn(ds, x)

LEMMA BindFacts ==
  ASSUME MemOK(mem, dentry), NEW o \in Places, NEW n \in Names, NEW x \in Places \cup {NoInode},
         x # RootPlace
  PROVE  Bound(Bind(o, n, x), o, n, x)
<1> DEFINE ds == Bind(o, n, x)
<1>1. dentry \in [Pairs -> Places \cup {NoInode}] /\ \A q \in Pairs : dentry[q] # RootPlace
  BY Zenon DEF MemOK, Ready
<1>2. <<o, n>> \in Pairs
  BY Zenon DEF Pairs
<1>3. ds \in [Pairs -> Places \cup {NoInode}]
  BY Zenon, <1>1, <1>2 DEF Bind
<1>4. \A q \in Pairs : ds[q] = (IF q = <<o, n>> THEN x ELSE dentry[q]) /\ ds[q] # RootPlace
  BY Zenon, <1>1, <1>2 DEF Bind
<1> HIDE DEF ds
<1>5. ASSUME NEW y \in Places \ {x}
      PROVE  /\ DentriesOf(ds, y) = DentriesOf(dentry, y) \ {<<o, n>>}
             /\ HeldIn(ds, y) => HeldIn(dentry, y)
  BY Zenon, <1>4 DEF DentriesOf, HeldIn
<1>6. ASSUME x # NoInode
      PROVE  DentriesOf(ds, x) = DentriesOf(dentry, x) \cup {<<o, n>>} /\ HeldIn(ds, x)
  BY Zenon, <1>2, <1>4 DEF DentriesOf, HeldIn
<1>7. QED
  BY Zenon, <1>3, <1>4, <1>5, <1>6 DEF ds, Bound

(* The place of an inode in memory is held; a free one is not, and no name  *)
(* leads there.                                                             *)
LEMMA FreeOrHeld ==
  ASSUME MemOK(mem, dentry), NEW x \in Places
  PROVE  /\ mem[x] = Free <=> ~HeldIn(dentry, x)
         /\ mem[x] = Free => DentriesOf(dentry, x) = {} /\ x # RootPlace
         /\ mem[x].dir => mem[x] # Free
         /\ ~mem[x].dir => x # RootPlace
         /\ mem[x] \in InMemoryInode
BY Zenon, FreeInode DEF MemOK, Ready, HeldIn, DentriesOf

LEMMA InodeFields ==
  ASSUME NEW a \in InMemoryInode
  PROVE  /\ a.number \in 0..MaxIno /\ a.dir \in BOOLEAN /\ a.file_size \in Int /\ a.hard_links \in Int
         /\ \A k \in Int : /\ [a EXCEPT !.file_size = k] \in InMemoryInode
                           /\ [a EXCEPT !.file_size = k].number = a.number
                           /\ [a EXCEPT !.file_size = k].dir = a.dir
                           /\ [a EXCEPT !.file_size = k].file_size = k
                           /\ [a EXCEPT !.file_size = k].hard_links = a.hard_links
                           /\ [a EXCEPT !.hard_links = k] \in InMemoryInode
                           /\ [a EXCEPT !.hard_links = k].number = a.number
                           /\ [a EXCEPT !.hard_links = k].dir = a.dir
                           /\ [a EXCEPT !.hard_links = k].file_size = a.file_size
                           /\ [a EXCEPT !.hard_links = k].hard_links = k
BY Zenon DEF InMemoryInode

(* ms is mem with k added to the file_size of o. *)
LEMMA SizedPlace ==
  ASSUME mem \in [Places -> InMemoryInode], NEW o \in Places, NEW k \in Int
  PROVE  LET ms == Sized(o, k)
         IN /\ ms \in [Places -> InMemoryInode]
            /\ \A x \in Places : /\ ms[x].number = mem[x].number /\ ms[x].dir = mem[x].dir
                                 /\ ms[x].hard_links = mem[x].hard_links
                                 /\ x # o => ms[x] = mem[x]
            /\ ms[o].file_size = mem[o].file_size + k
<1> DEFINE ms == Sized(o, k)
           s == mem[o].file_size + k
<1>1. mem[o] \in InMemoryInode /\ mem[o].file_size \in Int
  BY Zenon, InodeFields
<1>2. s \in Int
  BY <1>1
<1> HIDE DEF s
<1>3. ms = [mem EXCEPT ![o] = [mem[o] EXCEPT !.file_size = s]]
  BY Zenon DEF Sized, s
<1> DEFINE b == [mem[o] EXCEPT !.file_size = s]
<1>4. /\ b \in InMemoryInode /\ b.number = mem[o].number /\ b.dir = mem[o].dir
      /\ b.file_size = s /\ b.hard_links = mem[o].hard_links
  BY Zenon, <1>1, <1>2 DEF InMemoryInode
<1> HIDE DEF b
<1>5. ms \in [Places -> InMemoryInode] /\ ms[o] = b /\ \A x \in Places \ {o} : ms[x] = mem[x]
  BY Zenon, <1>3, <1>4 DEF b
<1> HIDE DEF ms
<1>6. QED
  BY Zenon, <1>4, <1>5 DEF ms, s

SameInodes(ms) ==
  \A x \in Places : HeldIn(dentry, x) => ms[x].number = mem[x].number /\ ms[x].dir = mem[x].dir

(* The inodes of ms are those of mem, but that x has k links more. *)
Adjusted(ms, x, k) ==
  /\ ms \in [Places -> InMemoryInode]
  /\ \A y \in Places :
       /\ ms[y].number = mem[y].number /\ ms[y].dir = mem[y].dir
       /\ ms[y].hard_links = IF y = x THEN mem[y].hard_links + k ELSE mem[y].hard_links

(* dbfs_lookup and dbfs_create: a new inode, with a dentry of its own. *)
LEMMA NewReady ==
  ASSUME MemOK(mem, dentry), NEW o \in Places, NEW n \in Names, NEW x \in Places, mem[x] = Free,
         NEW ms \in [Places -> InMemoryInode], ms[x].number # 0, ms[x].hard_links >= 1,
         \A y \in Places \ {x} : /\ ms[y].number = mem[y].number /\ ms[y].dir = mem[y].dir
                                 /\ ms[y].hard_links = mem[y].hard_links
  PROVE  Ready(ms, Bind(o, n, x)) /\ SameInodes(ms)
<1> DEFINE ds == Bind(o, n, x)
<1>1. ~HeldIn(dentry, x) /\ DentriesOf(dentry, x) = {} /\ x # RootPlace /\ x # NoInode
  BY Zenon, FreeOrHeld, RvfsAssumption
<1>2. <<o, n>> \in Pairs
  BY Zenon DEF Pairs
<1>0. Bound(ds, o, n, x)
  BY Zenon, <1>1, BindFacts
<1> HIDE DEF ds
<1>3. /\ ds \in [Pairs -> Places \cup {NoInode}]
      /\ \A q \in Pairs : ds[q] # RootPlace
      /\ \A y \in Places \ {x} : /\ DentriesOf(ds, y) = DentriesOf(dentry, y) \ {<<o, n>>}
                                 /\ HeldIn(ds, y) => HeldIn(dentry, y)
      /\ DentriesOf(ds, x) = DentriesOf(dentry, x) \cup {<<o, n>>}
  BY Zenon, <1>0, <1>1 DEF Bound
<1>4. SameInodes(ms)
  BY Zenon, <1>1 DEF SameInodes
<1>5. ASSUME NEW y \in Places \ {x}, HeldIn(ds, y) PROVE Counted(ms, ds, y)
  BY Zenon, <1>3, <1>5 DEF Counted
<1>6. Counted(ms, ds, x)
  BY Zenon, <1>1, <1>2, <1>3 DEF Counted
<1>7. Ready(ms, ds)
  BY Zenon, <1>3, <1>4, <1>5, <1>6, ReadyFrom DEF SameInodes
<1>8. QED
  BY Zenon, <1>4, <1>7 DEF ds

(* dbfs_link: one dentry and one link more. *)
LEMMA LinkReady ==
  ASSUME MemOK(mem, dentry), NEW o \in Places, NEW n \in Names, NEW x \in Places,
         mem[x] # Free, ~mem[x].dir, NEW ms, Adjusted(ms, x, 1)
  PROVE  Ready(ms, Bind(o, n, x)) /\ SameInodes(ms)
<1> DEFINE ds == Bind(o, n, x)
<1>1. HeldIn(dentry, x) /\ x # RootPlace /\ x # NoInode
  BY Zenon, FreeOrHeld, RvfsAssumption
<1>2. <<o, n>> \in Pairs
  BY Zenon DEF Pairs
<1>0. Bound(ds, o, n, x)
  BY Zenon, <1>1, BindFacts
<1> HIDE DEF ds
<1>3. /\ ds \in [Pairs -> Places \cup {NoInode}]
      /\ \A q \in Pairs : ds[q] # RootPlace
      /\ \A y \in Places \ {x} : /\ DentriesOf(ds, y) = DentriesOf(dentry, y) \ {<<o, n>>}
                                 /\ HeldIn(ds, y) => HeldIn(dentry, y)
      /\ DentriesOf(ds, x) = DentriesOf(dentry, x) \cup {<<o, n>>}
  BY Zenon, <1>0, <1>1 DEF Bound
<1>4. SameInodes(ms) /\ ms \in [Places -> InMemoryInode]
  BY Zenon DEF SameInodes, Adjusted
<1>5. ASSUME NEW y \in Places \ {x}, HeldIn(ds, y) PROVE Counted(ms, ds, y)
  <2>1. HeldIn(dentry, y) /\ DentriesOf(ds, y) \subseteq DentriesOf(dentry, y)
    BY Zenon, <1>3, <1>5
  <2>2. ms[y].hard_links = mem[y].hard_links
    BY Zenon DEF Adjusted
  <2>3. QED
    BY Zenon, <2>1, <2>2 DEF Counted
<1>6. Counted(ms, ds, x)
  <2>1. ms[x].hard_links = mem[x].hard_links + 1
    BY Zenon DEF Adjusted
  <2>2. QED
    BY Zenon, <1>1, <1>2, <1>3, <2>1 DEF Counted
<1>7. Ready(ms, ds)
  BY Zenon, <1>3, <1>4, <1>5, <1>6, ReadyFrom DEF SameInodes
<1>8. QED
  BY Zenon, <1>4, <1>7 DEF ds

(* dbfs_unlink takes a dentry and a link; dbfs_rmdir and an eviction only   *)
(* take a dentry.                                                           *)
LEMMA DropReady ==
  ASSUME MemOK(mem, dentry), NEW o \in Places, NEW n \in Names, Cached(o, n) # NoInode,
         NEW ms, NEW k \in {0, -1}, Adjusted(ms, Cached(o, n), k)
  PROVE  Ready(ms, Bind(o, n, NoInode)) /\ SameInodes(ms)
<1> DEFINE ds == Bind(o, n, NoInode)
           x == Cached(o, n)
<1>1. <<o, n>> \in Pairs /\ x \in Places /\ NoInode # RootPlace /\ NoInode \notin Places
  BY Zenon, RvfsAssumption DEF Pairs, MemOK, Ready, Cached
<1>2. <<o, n>> \in DentriesOf(dentry, x) /\ HeldIn(dentry, x)
  BY Zenon, <1>1 DEF DentriesOf, HeldIn, Cached
<1>0. Bound(ds, o, n, NoInode)
  BY Zenon, <1>1, BindFacts
<1> HIDE DEF ds
<1>3. /\ ds \in [Pairs -> Places \cup {NoInode}]
      /\ \A q \in Pairs : ds[q] # RootPlace
      /\ \A y \in Places : /\ DentriesOf(ds, y) = DentriesOf(dentry, y) \ {<<o, n>>}
                           /\ HeldIn(ds, y) => HeldIn(dentry, y)
  BY Zenon, <1>0, <1>1 DEF Bound
<1> HIDE DEF x
<1>4. SameInodes(ms) /\ ms \in [Places -> InMemoryInode]
  BY Zenon DEF SameInodes, Adjusted
<1>5. ASSUME NEW y \in Places, HeldIn(ds, y) PROVE Counted(ms, ds, y)
  <2>1. HeldIn(dentry, y) /\ DentriesOf(ds, y) \subseteq DentriesOf(dentry, y)
    BY Zenon, <1>3, <1>5
  <2>2. mem[y].hard_links \in Int
    BY Zenon, InodeFields DEF MemOK, Ready
  <2>3. CASE y = x /\ k = -1
    <3>1. ms[y].hard_links = mem[y].hard_links + (-1)
      BY Zenon, <2>3 DEF Adjusted, x
    <3>2. ms[y].hard_links = mem[y].hard_links - 1
      BY <2>2, <3>1
    <3>3. <<o, n>> \in DentriesOf(dentry, y) /\ DentriesOf(ds, y) \subseteq DentriesOf(dentry, y) \ {<<o, n>>}
      BY Zenon, <1>2, <1>3, <2>3
    <3>4. QED
      BY Zenon, <2>1, <3>2, <3>3 DEF Counted
  <2>4. CASE ~(y = x /\ k = -1)
    <3>1. ms[y].hard_links = mem[y].hard_links
      BY <2>2, <2>4 DEF Adjusted, x
    <3>2. QED
      BY Zenon, <2>1, <3>1 DEF Counted
  <2>5. QED
    BY Zenon, <2>3, <2>4
<1>6. Ready(ms, ds)
  BY Zenon, <1>3, <1>4, <1>5, ReadyFrom DEF SameInodes
<1>7. QED
  BY Zenon, <1>4, <1>6 DEF ds

(* dbfs_rename drops two dentries. *)
LEMMA ForgottenReady ==
  ASSUME MemOK(mem, dentry), NEW ds, NEW Q, NEW ms, Adjusted(ms, NoInode, 0),
         ds = [q \in DOMAIN dentry |-> IF q \in Q THEN NoInode ELSE dentry[q]]
  PROVE  Ready(ms, ds)
<1>1. /\ dentry \in [Pairs -> Places \cup {NoInode}] /\ \A q \in Pairs : dentry[q] # RootPlace
      /\ NoInode # RootPlace /\ NoInode \notin Places
  BY Zenon, RvfsAssumption DEF MemOK, Ready
<1>2. ds \in [Pairs -> Places \cup {NoInode}]
  BY Zenon, <1>1
<1>3. \A q \in Pairs : ds[q] \in {NoInode, dentry[q]} /\ ds[q] # RootPlace
  BY Zenon, <1>1
<1>4. ASSUME NEW y \in Places, HeldIn(ds, y) PROVE Counted(ms, ds, y)
  <2>1. HeldIn(dentry, y) /\ DentriesOf(ds, y) \subseteq DentriesOf(dentry, y)
    BY Zenon, <1>1, <1>3, <1>4 DEF HeldIn, DentriesOf
  <2>2. ms[y].hard_links = mem[y].hard_links
    BY Zenon, <1>1 DEF Adjusted
  <2>3. QED
    BY Zenon, <2>1, <2>2 DEF Counted
<1>5. /\ ms \in [Places -> InMemoryInode]
      /\ \A x \in Places : HeldIn(dentry, x) => ms[x].number = mem[x].number /\ ms[x].dir = mem[x].dir
  BY Zenon DEF Adjusted
<1>6. QED
  BY Zenon, <1>2, <1>3, <1>4, <1>5, ReadyFrom

LEMMA TmpFacts ==
  ASSUME NEW i \in 1..MaxIno, NEW t
  PROVE  LET b == TmpInode(i, t)
         IN /\ b \in InMemoryInode /\ b.number = i /\ (b.dir <=> t = S_IFDIR)
            /\ b.file_size = 0 /\ b.hard_links >= 1 /\ b.number # 0
<1>1. i \in 0..MaxIno /\ i # 0 /\ 0 \in Int /\ TmpLinks \in Int /\ TmpLinks >= 1
  BY RvfsAssumption
<1>2. (t = S_IFDIR) \in BOOLEAN
  BY Zenon
<1>3. QED
  BY Zenon, <1>1, <1>2 DEF TmpInode, InMemoryInode

LEMMA OnlyRootReady ==
  ASSUME NEW count \in Int
  PROVE  MemOK(OnlyRoot(count), NoDentry)
<1> DEFINE ms == OnlyRoot(count)
           b == RootInMemory(count)
<1>1. /\ b \in InMemoryInode /\ b.number = 1 /\ b.dir /\ b.hard_links = 0
  <2> DEFINE a == TmpInode(1, S_IFDIR)
             c == [a EXCEPT !.file_size = count]
  <2>1. 1 \in 1..MaxIno /\ 0 \in Int
    BY Numbers
  <2>2. a \in InMemoryInode /\ a.number = 1 /\ a.dir
    BY Zenon, <2>1, TmpFacts
  <2>3. b = [c EXCEPT !.hard_links = 0]
    BY Zenon DEF RootInMemory
  <2> HIDE DEF a
  <2>4. c \in InMemoryInode /\ c.number = 1 /\ c.dir
    BY Zenon, <2>2, InodeFields
  <2> HIDE DEF b, c
  <2>5. QED
    BY Zenon, <2>1, <2>3, <2>4, InodeFields
<1>2. /\ ms \in [Places -> InMemoryInode] /\ ms[RootPlace] = b
      /\ \A x \in Places \ {RootPlace} : ms[x] = Free
  BY Zenon, <1>1, FreeInode, RvfsAssumption DEF OnlyRoot
<1> HIDE DEF ms, b
<1>3. /\ NoDentry \in [Pairs -> Places \cup {NoInode}] /\ NoInode # RootPlace
      /\ \A q \in Pairs : NoDentry[q] = NoInode
  BY Zenon, RvfsAssumption DEF NoDentry, Pairs
<1>4. \A x \in Places : HeldIn(NoDentry, x) <=> x = RootPlace
  BY Zenon, <1>3, RvfsAssumption DEF HeldIn
<1>5. DentriesOf(NoDentry, RootPlace) = {}
  BY Zenon, <1>3 DEF DentriesOf
<1>6. \A x \in Places : HeldIn(NoDentry, x) =>
        ms[x].number # 0 /\ Cardinality(DentriesOf(NoDentry, x)) <= ms[x].hard_links
  BY <1>1, <1>2, <1>4, <1>5, FS_EmptySet
<1>7. QED
  BY Zenon, <1>1, <1>2, <1>3, <1>4, <1>6 DEF MemOK, Ready, ms

(* ms is m with k links of the inode at x. *)
Relinked(m, ms, x, k) ==
  /\ ms \in [Places -> InMemoryInode]
  /\ \A y \in Places : /\ ms[y].number = m[y].number /\ ms[y].dir = m[y].dir
                       /\ ms[y].file_size = m[y].file_size
                       /\ ms[y].hard_links = IF y = x THEN k ELSE m[y].hard_links

LEMMA LinkedPlace ==
  ASSUME NEW m \in [Places -> InMemoryInode], NEW x \in Places, NEW k \in Int, NEW ms,
         ms = [m EXCEPT ![x].hard_links = k]
  PROVE  Relinked(m, ms, x, k)
<1> DEFINE b == [m[x] EXCEPT !.hard_links = k]
<1>1. /\ b \in InMemoryInode /\ b.number = m[x].number /\ b.dir = m[x].dir
      /\ b.file_size = m[x].file_size /\ b.hard_links = k
  <2>1. m[x] \in InMemoryInode
    BY Zenon
  <2>2. QED
    BY <2>1 DEF InMemoryInode
<1>2. ms = [m EXCEPT ![x] = b]
  BY Zenon
<1> HIDE DEF b
<1>3. ms \in [Places -> InMemoryInode] /\ ms[x] = b /\ \A y \in Places \ {x} : ms[y] = m[y]
  BY Zenon, <1>1, <1>2
<1>4. ASSUME NEW y \in Places
      PROVE  /\ ms[y].number = m[y].number /\ ms[y].dir = m[y].dir
             /\ ms[y].file_size = m[y].file_size
             /\ ms[y].hard_links = IF y = x THEN k ELSE m[y].hard_links
  <2>1. CASE y = x
    BY <1>1, <1>3, <2>1
  <2>2. CASE y # x
    <3>1. ms[y] = m[y]
      BY Zenon, <1>3, <2>2
    <3>2. QED
      BY Zenon, <2>2, <3>1
  <2>3. QED
    BY Zenon, <2>1, <2>2
<1>5. QED
  BY Zenon, <1>3, <1>4 DEF Relinked

-----------------------------------------------------------------------------
(* Every step preserves BaseInv.                                            *)

(* A step fails, or it commits the inodes ms and dentries ds with the write *)
(* of i to name n of d that leaves the buckets D.                           *)
Still == UNCHANGED <<db, text, mem, dentry, renamed>>

Done(ms, ds, d, n, i, D) ==
  Ready(ms, ds) /\ SameInodes(ms) /\ Committed(ms, ds) /\ Effect(db, db', d, n, i, D)

NewBucket(t) ==
  /\ num \in 1..MaxIno /\ num \notin DOMAIN db
  /\ Fresh(db'[num]) /\ (IsDirectory(db'[num].mode) <=> t = S_IFDIR)

LEMMA Replies ==
  ASSUME NEW res \in {"none", "Ok", "AccessError", "NotFound", "NotEmpty", "FileExists", "panic"}
  PROVE  [by |-> Kernel.uid, res |-> res] \in [by : {Kernel.uid}, res : DB!Results]
BY Zenon DEF DB!Results

LEMMA StutterSafe ==
  ASSUME BaseInv, UNCHANGED vars
  PROVE  BaseInv'
BY Zenon DEF BaseInv, vars

LEMMA UnchangedSafe ==
  ASSUME BaseInv, num' \in 1 .. MaxIno + 1, reply' \in [by : {Kernel.uid}, res : DB!Results],
         Still
  PROVE  BaseInv'
BY Zenon DEF BaseInv, Still

LEMMA FailSafe ==
  ASSUME BaseInv, num' \in 1 .. MaxIno + 1,
         NEW res \in {"NotFound", "NotEmpty", "panic"}, Fail(res)
  PROVE  BaseInv' /\ Still
<1>1. reply' \in [by : {Kernel.uid}, res : DB!Results]
  BY Zenon, Replies DEF Fail, Answer
<1>2. Still
  BY Zenon DEF Fail, Still
<1>3. QED
  BY Zenon, <1>1, <1>2, UnchangedSafe

LEMMA CommitSafe ==
  ASSUME BaseInv, num' \in 1 .. MaxIno + 1, Answer("Ok"),
         NEW ms, NEW ds, NEW d, NEW n, NEW i, NEW D, Done(ms, ds, d, n, i, D)
  PROVE  BaseInv'
<1>1. reply' \in [by : {Kernel.uid}, res : DB!Results]
  BY Zenon, Replies DEF Answer
<1>2. MemOK(mem', dentry')
  BY Zenon, HeldReady DEF Done, Committed
<1>3. DbTyped(db') /\ CountsOK(db')
  BY Zenon DEF Done, Effect, Changed
<1>4. QED
  BY Zenon, <1>1, <1>2, <1>3 DEF Done, Committed, BaseInv

(* An operation in a directory that is in memory. *)
LEMMA Operand ==
  ASSUME BaseInv, NEW x \in Places
  PROVE  /\ MemOK(mem, dentry) /\ mem \in [Places -> InMemoryInode] /\ DbTyped(db) /\ CountsOK(db)
         /\ mem[x] \in InMemoryInode /\ mem[x].file_size \in Int /\ mem[x].hard_links \in Int
         /\ Exists(x) => Number(x) \in DOMAIN db /\ Number(x) \in 1..MaxIno
BY Zenon, InodeFields DEF BaseInv, MemOK, Ready, Exists, DbTyped

LEMMA LookupSafe ==
  ASSUME BaseInv, NEW o \in Places, mem[o].dir, NEW n \in Names, NEW x \in Places, mem[x] = Free,
         dbfs_lookup(o, n, x)
  PROVE  BaseInv'
<1> DEFINE i == DB!Lookup(Number(o), n)
<1>1. CASE Fail("panic") /\ UNCHANGED num
  BY Zenon, <1>1, FailSafe DEF BaseInv
<1>2. CASE /\ i \in DOMAIN db
           /\ mem' = [mem EXCEPT ![x] = LookedUp(i)] /\ dentry' = Bind(o, n, x)
           /\ Answer("Ok") /\ UNCHANGED <<db, num, text, renamed>>
  <2>1. MemOK(mem, dentry) /\ mem \in [Places -> InMemoryInode]
    BY Zenon, Operand
  <2>2. /\ LookedUp(i) \in InMemoryInode /\ LookedUp(i).number # 0 /\ LookedUp(i).hard_links >= 1
    <3>1. /\ i \in 1..MaxIno /\ db[i] \in DB!Bucket /\ db[i].hard_links > 0
          /\ db[i].hard_links \in Nat /\ db[i].size \in Nat
      BY Zenon, <1>2 DEF BaseInv, DbTyped, CountsOK, DB!Bucket
    <3>2. i \in 0..MaxIno /\ i # 0 /\ db[i].hard_links \in Int /\ db[i].hard_links >= 1 /\ db[i].size \in Int
      BY <3>1
    <3>3. IsDirectory(db[i].mode) \in BOOLEAN
      BY Zenon DEF IsDirectory
    <3>4. QED
      BY Zenon, <3>2, <3>3 DEF LookedUp, InMemoryInode
  <2>3. /\ mem' \in [Places -> InMemoryInode] /\ mem'[x] = LookedUp(i)
        /\ \A y \in Places \ {x} : mem'[y] = mem[y]
    BY Zenon, <1>2, <2>1, <2>2
  <2>4. Ready(mem', Bind(o, n, x))
    BY Zenon, <2>1, <2>2, <2>3, NewReady
  <2>5. \A y \in Places : HeldIn(dentry', y) \/ mem'[y] = Free
    <3>1. x # NoInode /\ x # RootPlace
      BY Zenon, <2>1, FreeOrHeld, RvfsAssumption
    <3>2. Bound(dentry', o, n, x) /\ <<o, n>> \in Pairs /\ Cached(o, n) = NoInode
      BY Zenon, <1>2, <2>1, <3>1, BindFacts DEF dbfs_lookup, Pairs
    <3>3. \A y \in Places : HeldIn(dentry, y) \/ mem[y] = Free
      BY Zenon, <2>1 DEF MemOK
    <3>4. ASSUME NEW y \in Places, HeldIn(dentry, y) PROVE HeldIn(dentry', y)
      BY Zenon, <3>2, <3>4, RvfsAssumption DEF Bound, HeldIn, Cached
    <3>5. HeldIn(dentry', x)
      BY Zenon, <3>1, <3>2 DEF Bound
    <3>6. QED
      BY Zenon, <2>3, <3>3, <3>4, <3>5
  <2>6. reply' \in [by : {Kernel.uid}, res : DB!Results]
    BY Zenon, <1>2, Replies DEF Answer
  <2>7. QED
    BY Zenon, <1>2, <2>4, <2>5, <2>6 DEF BaseInv, MemOK
<1>3. QED
  BY Zenon, <1>1, <1>2 DEF dbfs_lookup

(* ms is mem with the inode that a create in o makes at x. *)
CreatedAt(ms, o, x, t) ==
  /\ ms \in [Places -> InMemoryInode] /\ ms[x] = TmpInode(num, t)
  /\ \A y \in Places \ {x} : /\ ms[y].number = mem[y].number /\ ms[y].dir = mem[y].dir
                             /\ ms[y].hard_links = mem[y].hard_links
                             /\ y # o => ms[y].file_size = mem[y].file_size
  /\ ms[o].file_size = mem[o].file_size + 1

LEMMA CreatedPlace ==
  ASSUME BaseInv, num \in 1..MaxIno, NEW o \in Places, NEW x \in Places, x # o, NEW t
  PROVE  CreatedAt(Created(o, x, t), o, x, t)
<1> DEFINE m == Sized(o, 1)
           ms == Created(o, x, t)
<1>1. /\ m \in [Places -> InMemoryInode]
      /\ \A y \in Places : /\ m[y].number = mem[y].number /\ m[y].dir = mem[y].dir
                           /\ m[y].hard_links = mem[y].hard_links
                           /\ y # o => m[y] = mem[y]
      /\ m[o].file_size = mem[o].file_size + 1
  BY Operand, SizedPlace
<1>2. ms = [m EXCEPT ![x] = TmpInode(num, t)]
  BY Zenon DEF Created
<1> HIDE DEF m, ms
<1>3. TmpInode(num, t) \in InMemoryInode
  BY Zenon, TmpFacts
<1>4. /\ ms \in [Places -> InMemoryInode] /\ ms[x] = TmpInode(num, t)
      /\ \A y \in Places \ {x} : ms[y] = m[y]
  BY Zenon, <1>1, <1>2, <1>3
<1>5. QED
  BY Zenon, <1>1, <1>4 DEF CreatedAt, ms

LEMMA CreateSafe ==
  ASSUME BaseInv, NEW o \in Places, mem[o].dir, NEW n \in Names, NEW x \in Places, mem[x] = Free,
         NEW t \in Types, dbfs_rvfs_create(o, n, x, t)
  PROVE  /\ BaseInv'
         /\ \/ Still
            \/ /\ Done(Created(o, x, t), Bind(o, n, x), Number(o), n, num, DOMAIN db \cup {num})
               /\ NewBucket(t)
<1> DEFINE d == Number(o)
           perm == Perm777 \cup t
<1>0. num \in 1 .. MaxIno + 1 /\ MaxIno \in Nat
  BY Zenon, Numbers DEF BaseInv
<1>1. CASE num \in DB!Ino /\ num' = num + 1 /\ Stops(o)
  <2>1. num' \in 1 .. MaxIno + 1
    BY <1>0, <1>1, Numbers
  <2>2. QED
    BY Zenon, <1>1, <2>1, FailSafe DEF Stops
<1>2. CASE /\ Goes(o)
           /\ DB!Create(Kernel, d, n, perm)
           /\ \/ reply'.res = "Ok" /\ Committed(Created(o, x, t), Bind(o, n, x))
              \/ reply'.res # "Ok" /\ UNCHANGED <<text, mem, dentry, renamed>>
  <2>1. num \in 1..MaxIno /\ num' \in 1 .. MaxIno + 1
    <3>1. num \in DB!Ino /\ num' = num + 1
      BY Zenon, <1>2 DEF DB!Create
    <3>2. QED
      BY <1>0, <3>1, Numbers
  <2>2. /\ d \in DOMAIN db /\ MemOK(mem, dentry) /\ DbTyped(db) /\ CountsOK(db)
    BY Zenon, <1>2, Operand DEF Goes, Exists
  <2>3. CASE \/ DB!Fail(Kernel, "AccessError")
             \/ DB!Fail(Kernel, "FileExists")
    <3>1. PICK res \in {"AccessError", "FileExists"} :
            reply' = [by |-> Kernel.uid, res |-> res] /\ UNCHANGED db
      BY Zenon, <2>3 DEF DB!Fail, DB!Reply
    <3>2. reply' \in [by : {Kernel.uid}, res : DB!Results] /\ reply'.res = res
      BY Zenon, <3>1, Replies
    <3>3. reply'.res # "Ok"
      BY <3>2
    <3>4. QED
      <4>1. Still
        BY Zenon, <1>2, <3>1, <3>3 DEF Still
      <4>2. QED
        BY Zenon, <2>1, <3>2, <4>1, UnchangedSafe
  <2>4. CASE /\ num \notin DOMAIN db
             /\ db' = DB!PutBucket(DB!AddEntry(db, d, n, num), num, DB!NewInode(Kernel, d, num, perm))
             /\ DB!Reply(Kernel, "Ok")
    <3>1. Answer("Ok") /\ reply'.res = "Ok"
      BY Zenon, <2>4 DEF DB!Reply, Answer
    <3>2. Committed(Created(o, x, t), Bind(o, n, x))
      BY Zenon, <1>2, <3>1
    <3> DEFINE b == DB!NewInode(Kernel, d, num, perm)
    <3>3. Fresh(b) /\ (IsDirectory(b.mode) <=> t = S_IFDIR)
      BY Zenon, <2>1, <2>2, NewIsFresh
    <3>4. Effect(db, db', d, n, num, DOMAIN db \cup {num}) /\ NewBucket(t)
      <4> DEFINE g == DB!PutBucket(DB!AddEntry(db, d, n, num), num, b)
      <4>0. db' = g
        BY Zenon, <2>4
      <4> HIDE DEF b
      <4>1. Made(db, g, d, n, num, b)
        BY Zenon, <2>1, <2>2, <2>4, <3>3, CreateEffect
      <4> HIDE DEF g
      <4>2. QED
        BY Zenon, <2>1, <2>4, <3>3, <4>0, <4>1 DEF Made, NewBucket
    <3>5. x # o
      BY Zenon, FreeInode
    <3> DEFINE ms == Created(o, x, t)
    <3>0. CreatedAt(ms, o, x, t)
      BY Zenon, <2>1, <3>5, CreatedPlace
    <3> HIDE DEF ms
    <3>6. /\ ms \in [Places -> InMemoryInode] /\ ms[x] = TmpInode(num, t)
          /\ \A y \in Places \ {x} : /\ ms[y].number = mem[y].number /\ ms[y].dir = mem[y].dir
                                     /\ ms[y].hard_links = mem[y].hard_links
      BY Zenon, <3>0 DEF CreatedAt
    <3>7. ms[x].number # 0 /\ ms[x].hard_links >= 1
      BY Zenon, <2>1, <3>6, TmpFacts
    <3>8. Ready(ms, Bind(o, n, x)) /\ SameInodes(ms)
      BY Zenon, <2>2, <3>6, <3>7, NewReady
    <3>9. Done(ms, Bind(o, n, x), d, n, num, DOMAIN db \cup {num})
      BY Zenon, <3>2, <3>4, <3>8 DEF Done, ms
    <3>10. BaseInv'
      BY Zenon, <2>1, <3>1, <3>9, CommitSafe
    <3>11. QED
      BY Zenon, <3>4, <3>9, <3>10 DEF ms
  <2>5. QED
    BY Zenon, <1>2, <2>3, <2>4 DEF DB!Create, DB!Inodes
<1>3. QED
  BY Zenon, <1>1, <1>2 DEF dbfs_rvfs_create

LEMMA LinkedPlaces ==
  ASSUME BaseInv, NEW o \in Places, NEW x \in Places, x # o
  PROVE  LET ms == Linked(o, x)
         IN /\ Adjusted(ms, x, 1) /\ ms[o].file_size = mem[o].file_size + 1
            /\ \A y \in Places \ {o} : ms[y].file_size = mem[y].file_size
<1> DEFINE m == Sized(o, 1)
           k == mem[x].hard_links + 1
           ms == Linked(o, x)
<1>1. /\ m \in [Places -> InMemoryInode]
      /\ \A y \in Places : /\ m[y].number = mem[y].number /\ m[y].dir = mem[y].dir
                           /\ m[y].hard_links = mem[y].hard_links
                           /\ y # o => m[y] = mem[y]
      /\ m[o].file_size = mem[o].file_size + 1
  BY Operand, SizedPlace
<1>2. k \in Int
  BY Operand
<1>3. ms = [m EXCEPT ![x].hard_links = k]
  BY Zenon, <1>1 DEF Linked
<1> HIDE DEF m, ms, k
<1>0. m \in [Places -> InMemoryInode]
  BY Zenon, <1>1
<1>4. Relinked(m, ms, x, k)
  BY Zenon, <1>0, <1>2, <1>3, LinkedPlace
<1>5. Adjusted(ms, x, 1)
  BY <1>1, <1>4 DEF Adjusted, Relinked, k
<1>6. QED
  BY Zenon, <1>1, <1>4, <1>5 DEF Relinked, ms

LEMMA LinkSafe ==
  ASSUME BaseInv, NEW o \in Places, mem[o].dir, NEW n \in Names, NEW x \in Places, mem[x] # Free,
         dbfs_link(x, o, n)
  PROVE  /\ BaseInv'
         /\ \/ Still
            \/ Done(Linked(o, x), Bind(o, n, x), Number(o), n, Number(x), DOMAIN db)
            \/ ~Readable(Number(x))
<1>0. UNCHANGED num /\ num' \in 1 .. MaxIno + 1 /\ ~mem[x].dir
  BY Zenon DEF dbfs_link, BaseInv
<1>1. CASE Stops(o) \/ Fail("NotFound")
  BY Zenon, <1>0, <1>1, FailSafe DEF Stops
<1>2. CASE /\ Goes(o) /\ Exists(x)
           /\ DB!Link(Kernel, Number(x), Number(o), n)
           /\ Committed(Linked(o, x), Bind(o, n, x))
  <2>1. /\ Number(o) \in DOMAIN db /\ Number(x) \in DOMAIN db
        /\ MemOK(mem, dentry) /\ DbTyped(db) /\ CountsOK(db)
    BY Zenon, <1>2, Operand DEF Goes
  <2>2. db' = DB!AddLink(DB!AddEntry(db, Number(o), n, Number(x)), Number(x)) /\ Answer("Ok")
    <3>1. DB!MayWrite(Kernel, Number(o))
      BY Zenon, WritableToKernel
    <3>2. QED
      BY Zenon, <1>2, <3>1 DEF DB!Link, DB!Reply, Answer
  <2>3. Effect(db, db', Number(o), n, Number(x), DOMAIN db)
    BY Zenon, <2>1, <2>2, LinkEffect
  <2>4. Adjusted(Linked(o, x), x, 1)
    BY Zenon, <1>0, LinkedPlaces
  <2>5. Ready(Linked(o, x), Bind(o, n, x)) /\ SameInodes(Linked(o, x))
    BY Zenon, <1>0, <2>1, <2>4, LinkReady
  <2>6. Done(Linked(o, x), Bind(o, n, x), Number(o), n, Number(x), DOMAIN db)
    BY Zenon, <1>2, <2>3, <2>5 DEF Done
  <2>7. BaseInv'
    BY Zenon, <1>0, <2>2, <2>6, CommitSafe
  <2>8. QED
    BY Zenon, <2>6, <2>7
<1>3. CASE /\ Goes(o) /\ Exists(x) /\ ~Readable(Number(x))
           /\ db' = DB!AddLink(DB!AddEntry(db, Number(o), n, Number(x)), Number(x))
           /\ Answer("panic")
           /\ UNCHANGED <<text, mem, dentry, renamed>>
  <2>1. Number(o) \in DOMAIN db /\ Number(x) \in DOMAIN db /\ DbTyped(db) /\ CountsOK(db)
    BY Zenon, <1>3, Operand DEF Goes
  <2>2. Effect(db, db', Number(o), n, Number(x), DOMAIN db)
    BY Zenon, <1>3, <2>1, LinkEffect
  <2>3. DbTyped(db') /\ CountsOK(db') /\ text' \subseteq DOMAIN db'
    BY Zenon, <1>3, <2>2 DEF Effect, Changed, BaseInv
  <2>4. reply' \in [by : {Kernel.uid}, res : DB!Results]
    BY Zenon, <1>3, Replies DEF Answer
  <2>5. QED
    BY Zenon, <1>0, <1>3, <2>3, <2>4 DEF BaseInv
<1>4. QED
  BY Zenon, <1>1, <1>2, <1>3 DEF dbfs_link

LEMMA UnlinkSafe ==
  ASSUME BaseInv, NEW o \in Places, mem[o].dir, NEW n \in Names, dbfs_unlink(o, n)
  PROVE  /\ BaseInv'
         /\ \/ Still
            \/ LET i == Number(Cached(o, n))
               IN Done(Unlinked(o, n), Bind(o, n, NoInode), Number(o), n, 0,
                       IF db[i].hard_links = 1 THEN DOMAIN db \ {i} ELSE DOMAIN db)
<1> DEFINE x == Cached(o, n)
           d == Number(o)
<1>0. UNCHANGED num /\ num' \in 1 .. MaxIno + 1 /\ x # NoInode
  BY Zenon DEF dbfs_unlink, BaseInv
<1>1. CASE Fail("NotFound") \/ Fail("panic")
  BY Zenon, <1>0, <1>1, FailSafe
<1>2. CASE /\ Exists(o) /\ ~DB!Absent(d, n) /\ Exists(x) /\ Readable(d)
           /\ db' = DB!DropLink(DB!RemoveEntry(db, d, n), Number(x))
           /\ Answer("Ok")
           /\ Committed(Unlinked(o, n), Bind(o, n, NoInode))
  <2>1. /\ d \in DOMAIN db /\ Number(x) \in DOMAIN db
        /\ MemOK(mem, dentry) /\ DbTyped(db) /\ CountsOK(db) /\ mem \in [Places -> InMemoryInode]
    BY Zenon, <1>2, Operand DEF Exists
  <2>2. db[d].data[n] # 0
    BY Zenon, <1>2, Numbers DEF DB!Absent, DB!Lookup
  <2> DEFINE D == IF db[Number(x)].hard_links = 1 THEN DOMAIN db \ {Number(x)} ELSE DOMAIN db
  <2>3. Effect(db, db', d, n, 0, D)
    BY Zenon, <1>2, <2>1, <2>2, UnlinkEffect
  <2>4. x \in Places
    BY Zenon, <1>0, <2>1 DEF MemOK, Ready, Cached, Pairs
  <2>5. Adjusted(Unlinked(o, n), x, -1)
    <3>1. mem[x].hard_links \in Int
      BY Zenon, <2>4, Operand
    <3>2. mem[x].hard_links - 1 \in Int /\ mem[x].hard_links - 1 = mem[x].hard_links + (-1)
      BY <3>1
    <3>3. Unlinked(o, n) = [mem EXCEPT ![x].hard_links = mem[x].hard_links - 1]
      BY Zenon DEF Unlinked
    <3>4. Relinked(mem, Unlinked(o, n), x, mem[x].hard_links - 1)
      BY Zenon, <2>1, <2>4, <3>2, <3>3, LinkedPlace
    <3>5. QED
      BY <3>2, <3>4 DEF Relinked, Adjusted
  <2>6. Ready(Unlinked(o, n), Bind(o, n, NoInode)) /\ SameInodes(Unlinked(o, n))
    BY Zenon, <1>0, <2>1, <2>5, DropReady
  <2>7. Done(Unlinked(o, n), Bind(o, n, NoInode), d, n, 0, D)
    BY Zenon, <1>2, <2>3, <2>6 DEF Done
  <2>8. BaseInv'
    BY Zenon, <1>0, <1>2, <2>7, CommitSafe
  <2>9. QED
    BY Zenon, <2>7, <2>8
<1>3. QED
  BY Zenon, <1>1, <1>2 DEF dbfs_unlink

LEMMA AdjustedBySize ==
  ASSUME BaseInv, NEW o \in Places, NEW k \in Int, NEW x
  PROVE  Adjusted(Sized(o, k), x, 0)
<1> DEFINE ms == Sized(o, k)
<1>1. /\ ms \in [Places -> InMemoryInode]
      /\ \A y \in Places : /\ ms[y].number = mem[y].number /\ ms[y].dir = mem[y].dir
                           /\ ms[y].hard_links = mem[y].hard_links
  BY Operand, SizedPlace
<1>2. \A y \in Places : mem[y].hard_links + 0 = mem[y].hard_links
  BY Operand
<1> HIDE DEF ms
<1>3. QED
  BY Zenon, <1>1, <1>2 DEF Adjusted, ms

LEMMA AdjustedByNothing ==
  ASSUME BaseInv, NEW x
  PROVE  Adjusted(mem, x, 0)
<1>1. mem \in [Places -> InMemoryInode]
  BY Zenon DEF BaseInv, MemOK, Ready
<1>2. \A y \in Places : mem[y].hard_links + 0 = mem[y].hard_links
  BY Operand
<1>3. QED
  BY Zenon, <1>1, <1>2 DEF Adjusted

LEMMA RmdirSafe ==
  ASSUME BaseInv, NEW o \in Places, mem[o].dir, NEW n \in Names, dbfs_rmdir(o, n)
  PROVE  /\ BaseInv'
         /\ \/ Still
            \/ /\ Done(Removed(o), Bind(o, n, NoInode), Number(o), n, 0,
                       DOMAIN db \ {db[Number(o)].data[n]})
               /\ db[Number(o)].data[n] # 0
<1> DEFINE x == Cached(o, n)
           d == Number(o)
           i == DB!Lookup(d, n)
<1>0. UNCHANGED num /\ num' \in 1 .. MaxIno + 1 /\ x # NoInode
  BY Zenon DEF dbfs_rmdir, BaseInv
<1>1. CASE Fail("NotFound") \/ Fail("panic") \/ Fail("NotEmpty")
  BY Zenon, <1>0, <1>1, FailSafe
<1>2. CASE /\ Exists(o) /\ i \in DOMAIN db /\ Readable(i) /\ Readable(d)
           /\ db' = DB!DeleteBucket(DB!RemoveEntry(db, d, n), i)
           /\ Answer("Ok")
           /\ Committed(Removed(o), Bind(o, n, NoInode))
  <2>1. /\ d \in DOMAIN db /\ i \in DOMAIN db
        /\ MemOK(mem, dentry) /\ DbTyped(db) /\ CountsOK(db)
    BY Zenon, <1>2, Operand DEF Exists
  <2>2. db[d].data[n] # 0
    <3>1. i \in 1..MaxIno /\ i = db[d].data[n]
      BY Zenon, <2>1 DEF DbTyped, DB!Lookup
    <3>2. QED
      BY <3>1
  <2> HIDE DEF i
  <2>3. Effect(db, db', d, n, 0, DOMAIN db \ {i})
    BY Zenon, <1>2, <2>1, <2>2, RmdirEffect
  <2>4. -1 \in Int /\ 0 \in {0, -1}
    OBVIOUS
  <2>5. Adjusted(Removed(o), x, 0)
    BY Zenon, <2>4, AdjustedBySize DEF Removed
  <2>6. Ready(Removed(o), Bind(o, n, NoInode)) /\ SameInodes(Removed(o))
    BY Zenon, <1>0, <2>1, <2>4, <2>5, DropReady
  <2>7. Done(Removed(o), Bind(o, n, NoInode), d, n, 0, DOMAIN db \ {i})
    BY Zenon, <1>2, <2>3, <2>6 DEF Done
  <2>8. BaseInv'
    BY Zenon, <1>0, <1>2, <2>7, CommitSafe
  <2>9. QED
    BY Zenon, <2>2, <2>7, <2>8 DEF i, DB!Lookup
<1>3. QED
  BY Zenon, <1>1, <1>2 DEF dbfs_rmdir

LEMMA EvictSafe ==
  ASSUME BaseInv, NEW o \in Places, NEW n \in Names, Evict(o, n)
  PROVE  BaseInv'
<1>1. MemOK(mem, dentry) /\ Cached(o, n) # NoInode
  BY Zenon DEF BaseInv, Evict
<1>2. 0 \in {0, -1}
  OBVIOUS
<1>3. Adjusted(mem, Cached(o, n), 0)
  BY Zenon, AdjustedByNothing
<1>4. Ready(mem, dentry')
  BY Zenon, <1>1, <1>2, <1>3, DropReady DEF Evict
<1>5. MemOK(mem', dentry')
  BY Zenon, <1>4, HeldReady DEF Evict
<1>6. QED
  BY Zenon, <1>5 DEF Evict, BaseInv

LEMMA AcrossPlaces ==
  ASSUME BaseInv, NEW o \in Places, NEW p \in Places, o # p, NEW x
  PROVE  Adjusted([mem EXCEPT ![o].file_size = @ - 1, ![p].file_size = @ + 1], x, 0)
<1> DEFINE ms == [mem EXCEPT ![o].file_size = @ - 1, ![p].file_size = @ + 1]
<1>1. mem \in [Places -> InMemoryInode]
  BY Zenon, Operand
<1>2. ms \in [Places -> InMemoryInode]
      /\ \A y \in Places : /\ ms[y].number = mem[y].number /\ ms[y].dir = mem[y].dir
                           /\ ms[y].hard_links = mem[y].hard_links
  BY <1>1 DEF InMemoryInode
<1> HIDE DEF ms
<1>3. \A y \in Places : mem[y].hard_links + 0 = mem[y].hard_links
  BY Operand
<1>4. QED
  BY Zenon, <1>2, <1>3 DEF Adjusted, ms

LEMMA RenameSafe ==
  ASSUME BaseInv, NEW o \in Places, NEW on \in Names, NEW p \in Places, NEW nn \in Names,
         dbfs_rename(o, on, p, nn)
  PROVE  BaseInv' /\ (Still \/ renamed')
<1> DEFINE d == Number(o)
           e == Number(p)
           ds == [q \in DOMAIN dentry |-> IF q \in {<<o, on>>, <<p, nn>>} THEN NoInode ELSE dentry[q]]
           across == [mem EXCEPT ![o].file_size = @ - 1, ![p].file_size = @ + 1]
<1>0. UNCHANGED num /\ num' \in 1 .. MaxIno + 1
  BY Zenon DEF dbfs_rename, BaseInv
<1>1. CASE Fail("NotFound") \/ Fail("panic")
  BY Zenon, <1>0, <1>1, FailSafe
<1>2. ASSUME NEW ms, Adjusted(ms, NoInode, 0), dentry' = ds, mem' = Held(ms, ds),
             DbTyped(db'), CountsOK(db'), text' \subseteq DOMAIN db', renamed' = TRUE, Answer("Ok")
      PROVE  BaseInv'
  <2>1. MemOK(mem, dentry)
    BY Zenon DEF BaseInv
  <2>2. Ready(ms, ds)
    BY Zenon, <1>2, <2>1, ForgottenReady
  <2>3. MemOK(mem', dentry')
    BY Zenon, <1>2, <2>2, HeldReady
  <2>4. reply' \in [by : {Kernel.uid}, res : DB!Results]
    BY Zenon, <1>2, Replies DEF Answer
  <2>5. QED
    BY Zenon, <1>0, <1>2, <2>3, <2>4 DEF BaseInv
<1>3. CASE /\ Exists(o) /\ ~DB!Absent(d, on)
           /\ db' = RenamedWithin(d, on)
           /\ dentry' = ds /\ mem' = Held(mem, ds)
           /\ renamed' = TRUE /\ Answer("Ok")
           /\ UNCHANGED text
  <2> HIDE DEF ds
  <2>1. /\ d \in DOMAIN db /\ d \in 1..MaxIno /\ DbTyped(db) /\ CountsOK(db) /\ text \subseteq DOMAIN db
    BY Zenon, <1>3, Operand DEF BaseInv
  <2>2. db[d].data[on] # 0
    BY Zenon, <1>3, Numbers DEF DB!Absent, DB!Lookup
  <2>3. Effect(db, db', d, on, d, DOMAIN db)
    BY Zenon, <1>3, <2>1, <2>2, WithinEffect
  <2>4. BaseInv'
    <3>1. DbTyped(db') /\ CountsOK(db') /\ text' \subseteq DOMAIN db'
      BY Zenon, <1>3, <2>1, <2>3 DEF Effect, Changed
    <3>2. Adjusted(mem, NoInode, 0)
      BY Zenon, AdjustedByNothing
    <3>3. QED
      BY Zenon, <1>2, <1>3, <3>1, <3>2
  <2>5. QED
    BY Zenon, <1>3, <2>4
<1>4. CASE /\ Exists(o) /\ ~DB!Absent(d, on) /\ d # e
           /\ Exists(p) /\ Readable(d) /\ Readable(e)
           /\ db' = RenamedAcross(d, on, e, nn)
           /\ text' = text \cup {d, e}
           /\ dentry' = ds /\ mem' = Held(across, ds)
           /\ renamed' = TRUE /\ Answer("Ok")
  <2> HIDE DEF ds
  <2>1. /\ d \in DOMAIN db /\ e \in DOMAIN db /\ DbTyped(db) /\ CountsOK(db) /\ text \subseteq DOMAIN db
    BY Zenon, <1>4, Operand DEF BaseInv
  <2>2. db[d].data[on] # 0
    BY Zenon, <1>4, Numbers DEF DB!Absent, DB!Lookup
  <2>3. Crossed(db, db', d, e)
    BY Zenon, <1>4, <2>1, <2>2, AcrossEffect
  <2>4. BaseInv'
    <3>1. DbTyped(db') /\ CountsOK(db') /\ text' \subseteq DOMAIN db'
      BY Zenon, <1>4, <2>1, <2>3 DEF Crossed
    <3>2. Adjusted(across, NoInode, 0)
      BY Zenon, <1>4, AcrossPlaces
    <3> HIDE DEF across
    <3>3. QED
      BY Zenon, <1>2, <1>4, <3>1, <3>2
  <2>5. QED
    BY Zenon, <1>4, <2>4
<1>5. QED
  BY Zenon, <1>1, <1>3, <1>4 DEF dbfs_rename

LEMMA MountSafe ==
  ASSUME BaseInv, Mount
  PROVE  BaseInv'
<1>0. /\ DbTyped(db) /\ CountsOK(db) /\ num \in 1 .. MaxIno + 1 /\ text \subseteq DOMAIN db
      /\ renamed \in BOOLEAN /\ MaxIno \in Nat \ {0}
  BY Zenon, Numbers DEF BaseInv
<1>1. PICK k \in 1..num :
        /\ dentry' = NoDentry
        /\ \/ /\ Answer("panic") /\ mem' = OnlyRoot(0) /\ num' = k /\ UNCHANGED db
           \/ /\ 1 \notin DOMAIN db => k = 1
              /\ Answer("none")
              /\ num' = IF 1 \notin DOMAIN db THEN k + 1 ELSE k
              /\ db' = IF 1 \notin DOMAIN db THEN DB!PutBucket(db, 1, DB!RootInode) ELSE db
              /\ mem' = OnlyRoot(db'[1].size)
        /\ UNCHANGED <<text, renamed>>
  BY Zenon DEF Mount
<1>2. reply' \in [by : {Kernel.uid}, res : DB!Results] /\ num' \in 1 .. MaxIno + 1
  <2>1. reply' \in [by : {Kernel.uid}, res : DB!Results]
    BY Zenon, <1>1, Replies DEF Answer
  <2>2. num' \in 1 .. MaxIno + 1
    BY <1>0, <1>1
  <2>3. QED
    BY Zenon, <2>1, <2>2
<1>3. /\ DbTyped(db') /\ CountsOK(db') /\ DOMAIN db \subseteq DOMAIN db'
      /\ \A j \in DOMAIN db : db'[j] = db[j]
      /\ 1 \in DOMAIN db' \/ mem' = OnlyRoot(0)
  <2>1. CASE db' = db /\ (1 \in DOMAIN db \/ mem' = OnlyRoot(0))
    BY Zenon, <1>0, <2>1
  <2>2. CASE 1 \notin DOMAIN db /\ db' = DB!PutBucket(db, 1, DB!RootInode)
    <3> DEFINE g == DB!PutBucket(db, 1, DB!RootInode)
    <3>1. 1 \in 1..MaxIno
      BY <1>0
    <3>2. Filled(db, g, 1, DB!RootInode)
      BY Zenon, <1>0, <3>1, RootIsFresh, BucketFacts DEF Fresh
    <3> HIDE DEF g
    <3>3. db' = g
      BY Zenon, <2>2 DEF g
    <3>4. QED
      BY Zenon, <2>2, <3>2, <3>3 DEF Filled
  <2>3. QED
    BY Zenon, <1>1, <2>1, <2>2
<1>4. MemOK(mem', dentry')
  <2>1. CASE mem' = OnlyRoot(0)
    <3>1. 0 \in Int
      OBVIOUS
    <3>2. QED
      BY Zenon, <1>1, <2>1, <3>1, OnlyRootReady
  <2>2. CASE 1 \in DOMAIN db' /\ mem' = OnlyRoot(db'[1].size)
    <3>1. db'[1].size \in Int
      BY <1>3, <2>2 DEF DbTyped, DB!Bucket
    <3>2. QED
      BY Zenon, <1>1, <2>2, <3>1, OnlyRootReady
  <2>3. QED
    BY Zenon, <1>1, <1>3, <2>1, <2>2
<1>5. QED
  BY Zenon, <1>0, <1>1, <1>2, <1>3, <1>4 DEF BaseInv

LEMMA BaseStep ==
  ASSUME BaseInv, [Next]_vars
  PROVE  BaseInv'
<1>1. CASE UNCHANGED vars
  BY Zenon, <1>1, StutterSafe
<1>2. CASE Mount
  BY Zenon, <1>2, MountSafe
<1>3. ASSUME NEW o \in {x \in Places : mem[x].dir}, NEW n \in Names,
             \/ \E x \in Places : mem[x] = Free /\ dbfs_lookup(o, n, x)
             \/ \E x \in Places, t \in Types : mem[x] = Free /\ dbfs_rvfs_create(o, n, x, t)
             \/ \E x \in Places : mem[x] # Free /\ dbfs_link(x, o, n)
             \/ dbfs_unlink(o, n)
             \/ dbfs_rmdir(o, n)
             \/ \E p \in {x \in Places : mem[x].dir}, m \in Names : dbfs_rename(o, n, p, m)
             \/ Evict(o, n)
      PROVE  BaseInv'
  <2>1. o \in Places /\ mem[o].dir
    BY Zenon
  <2>2. ASSUME NEW x \in Places, mem[x] = Free, dbfs_lookup(o, n, x) PROVE BaseInv'
    BY Zenon, <2>1, <2>2, LookupSafe
  <2>3. ASSUME NEW x \in Places, NEW t \in Types, mem[x] = Free, dbfs_rvfs_create(o, n, x, t) PROVE BaseInv'
    BY Zenon, <2>1, <2>3, CreateSafe
  <2>4. ASSUME NEW x \in Places, mem[x] # Free, dbfs_link(x, o, n) PROVE BaseInv'
    BY Zenon, <2>1, <2>4, LinkSafe
  <2>5. ASSUME NEW p \in {x \in Places : mem[x].dir}, NEW m \in Names, dbfs_rename(o, n, p, m) PROVE BaseInv'
    BY Zenon, <2>1, <2>5, RenameSafe
  <2>6. QED
    BY Zenon, <1>3, <2>1, <2>2, <2>3, <2>4, <2>5, UnlinkSafe, RmdirSafe, EvictSafe
<1>4. QED
  BY Zenon, <1>1, <1>2, <1>3 DEF Next

LEMMA InitBase ==
  ASSUME Init
  PROVE  BaseInv /\ DOMAIN db = {1} /\ db[1] = DB!RootInode
<1>1. db = [i \in {1} |-> DB!RootInode] /\ num = 2 /\ reply = [by |-> 0, res |-> "none"]
  <2>1. 1 + 1 = 2
    OBVIOUS
  <2>2. QED
    BY Zenon, <2>1 DEF Init, DB!Init, DB!RootIno
<1>2. DOMAIN db = {1} /\ db[1] = DB!RootInode /\ db = [i \in DOMAIN db |-> db[i]]
  BY Zenon, <1>1
<1>3. num \in 1 .. MaxIno + 1 /\ 1 \in 1..MaxIno /\ DB!RootInode.size \in Int
  BY <1>1, Numbers, RootIsFresh DEF Fresh, DB!Bucket
<1>4. DbTyped(db) /\ CountsOK(db)
  BY Zenon, <1>2, <1>3, RootIsFresh DEF DbTyped, CountsOK, Fresh
<1>5. MemOK(mem, dentry)
  BY Zenon, <1>2, <1>3, OnlyRootReady DEF Init
<1>6. reply \in [by : {Kernel.uid}, res : DB!Results]
  BY Zenon, <1>1 DEF DB!Results, Kernel
<1>7. QED
  BY Zenon, <1>2, <1>3, <1>4, <1>5, <1>6 DEF Init, BaseInv

LEMMA BaseAlways == Spec => []BaseInv
<1>1. Init => BaseInv
  BY Zenon, InitBase
<1>2. BaseInv /\ [Next]_vars => BaseInv'
  BY Zenon, BaseStep
<1>3. QED
  BY <1>1, <1>2, PTL DEF Spec

LEMMA BaseTypes ==
  ASSUME BaseInv
  PROVE  TypeOK /\ MemoryCoversLinks
<1>1. /\ DOMAIN db \subseteq DB!Ino /\ \A i \in DOMAIN db : db[i] \in DB!Bucket
  BY Zenon, Numbers DEF BaseInv, DbTyped
<1>2. mem \in [Places -> [number : 0..MaxIno, dir : BOOLEAN, file_size : Int, hard_links : Int]]
  BY Zenon DEF BaseInv, MemOK, Ready, InMemoryInode
<1>3. dentry \in [Places \X Names -> InMemory \cup {NoInode}]
  <2>1. dentry \in [Pairs -> Places \cup {NoInode}] /\ MemOK(mem, dentry)
    BY Zenon DEF BaseInv, MemOK, Ready
  <2>2. ASSUME NEW q \in Pairs, dentry[q] # NoInode PROVE dentry[q] \in InMemory
    <3>1. dentry[q] \in Places /\ HeldIn(dentry, dentry[q])
      BY Zenon, <2>1, <2>2 DEF HeldIn
    <3>2. QED
      BY Zenon, <2>1, <3>1, FreeOrHeld DEF InMemory
  <2>3. QED
    BY Zenon, <2>1, <2>2 DEF Pairs
<1>4. TypeOK
  BY Zenon, <1>1, <1>2, <1>3 DEF BaseInv, TypeOK
<1>5. ASSUME NEW x \in InMemory PROVE Cardinality(Dentries(x)) <= mem[x].hard_links
  <2>1. x \in Places /\ HeldIn(dentry, x)
    BY Zenon, FreeOrHeld DEF InMemory, BaseInv
  <2>2. Dentries(x) = DentriesOf(dentry, x)
    BY Zenon DEF Dentries, DentriesOf, BaseInv, MemOK, Ready
  <2>3. QED
    BY Zenon, <2>1, <2>2 DEF BaseInv, MemOK, Ready
<1>6. QED
  BY Zenon, <1>4, <1>5 DEF MemoryCoversLinks

(* Type correctness: whatever the kernel asks and keeps, whichever renames  *)
(* and mounts there are, sizes and link counts in the database never go     *)
(* below zero, a text size is that of a bucket that exists, and a cached    *)
(* name leads to an inode in memory.                                        *)
THEOREM TypeCorrect == Spec => []TypeOK
<1>1. BaseInv => TypeOK
  BY Zenon, BaseTypes
<1>2. QED
  BY <1>1, BaseAlways, PTL

(* dbfs_unlink can take a link away from an inode in memory for each of the *)
(* dentries that share it, after any renames and mounts.                    *)
THEOREM LinksInMemory == Spec => []MemoryCoversLinks
<1>1. BaseInv => MemoryCoversLinks
  BY Zenon, BaseTypes
<1>2. QED
  BY <1>1, BaseAlways, PTL

-----------------------------------------------------------------------------
(* Before the first rename, the cache agrees with the database.  Dentries   *)
(* that are added and dropped keep it so.                                   *)

LEMMA CacheFacts ==
  ASSUME BaseInv, CacheOK(db, mem, dentry), NEW x \in Places, HeldIn(dentry, x)
  PROVE  /\ mem[x].number \in DOMAIN db /\ mem[x].number # 0
         /\ mem[x].dir <=> IsDirectory(db[mem[x].number].mode)
         /\ mem[x].dir => Cardinality(NamesOf(db[mem[x].number])) <= mem[x].file_size
BY Zenon DEF CacheOK, BaseInv, MemOK, Ready

LEMMA PairParts ==
  ASSUME NEW q \in Pairs
  PROVE  \E p \in Places, m \in Names : q = <<p, m>>
BY DEF Pairs

LEMMA DirIsHeld ==
  ASSUME BaseInv, NEW o \in Places, mem[o].dir
  PROVE  HeldIn(dentry, o)
BY Zenon, FreeOrHeld DEF BaseInv

(* A cached name of p leads where g says. *)
NameAgrees(g, p, m) ==
  /\ HeldIn(dentry, p) /\ mem[p].dir /\ dentry[<<p, m>>] \in Places
  /\ HeldIn(dentry, dentry[<<p, m>>])
  /\ g[mem[p].number].data[m] = mem[dentry[<<p, m>>]].number

(* Another cached name than n of o is another name of the database. *)
LEMMA OtherName ==
  ASSUME BaseInv, CacheOK(db, mem, dentry), NEW o \in Places, mem[o].dir, NEW n \in Names,
         NEW g, NEW i, Changed(db, g, Number(o), n, i),
         NEW p \in Places, NEW m \in Names, <<p, m>> # <<o, n>>, dentry[<<p, m>>] # NoInode,
         mem[p].number \in DOMAIN g
  PROVE  NameAgrees(g, p, m)
<1>1. /\ HeldIn(dentry, p) /\ mem[p].dir
      /\ db[mem[p].number].data[m] = mem[dentry[<<p, m>>]].number
  BY Zenon DEF CacheOK
<1>2. dentry[<<p, m>>] \in Places /\ HeldIn(dentry, dentry[<<p, m>>])
  BY Zenon DEF BaseInv, MemOK, Ready, HeldIn, Pairs
<1>3. HeldIn(dentry, o) /\ mem[p].number \in DOMAIN db
  BY Zenon, <1>1, DirIsHeld, CacheFacts
<1>4. ~(mem[p].number = Number(o) /\ m = n)
  <2>1. SUFFICES ASSUME mem[p].number = mem[o].number, m = n PROVE FALSE
    BY Zenon DEF Number
  <2>2. p = o
    BY Zenon, <1>1, <1>3, <2>1 DEF CacheOK
  <2>3. QED
    BY Zenon, <2>1, <2>2
<1>5. g[mem[p].number].data[m] = db[mem[p].number].data[m]
  BY Zenon, <1>3, <1>4 DEF Changed
<1>6. QED
  BY Zenon, <1>1, <1>2, <1>5 DEF NameAgrees

(* A dentry for name n of o is added. *)
LEMMA AddCache ==
  ASSUME BaseInv, CacheOK(db, mem, dentry), NEW o \in Places, mem[o].dir, NEW n \in Names,
         Cached(o, n) = NoInode, NEW x \in Places, x # RootPlace, x # o,
         NEW ms, Ready(ms, Bind(o, n, x)), SameInodes(ms),
         NEW g, Changed(db, g, Number(o), n, ms[x].number), DOMAIN db \subseteq DOMAIN g,
         ms[x].number \in DOMAIN g, ms[x].dir <=> IsDirectory(g[ms[x].number].mode),
         \A y \in Places \ {x} :
           HeldIn(dentry, y) /\ mem[y].dir /\ ms[x].dir => mem[y].number # ms[x].number,
         \A y \in Places : (HeldIn(dentry, y) \/ y = x) /\ ms[y].dir =>
           Cardinality(NamesOf(g[ms[y].number])) <= ms[y].file_size
  PROVE  CacheOK(g, ms, Bind(o, n, x))
<1> DEFINE ds == Bind(o, n, x)
<1>0. MemOK(mem, dentry) /\ x # NoInode /\ <<o, n>> \in Pairs
  BY Zenon, RvfsAssumption DEF BaseInv, Pairs
<1>1. Bound(ds, o, n, x)
  BY Zenon, <1>0, BindFacts
<1> HIDE DEF ds
<1>2. \A y \in Places : HeldIn(ds, y) => y = x \/ HeldIn(dentry, y)
  BY Zenon, <1>1 DEF Bound
<1>3. \A y \in Places : HeldIn(dentry, y) => HeldIn(ds, y)
  <2> SUFFICES ASSUME NEW y \in Places, HeldIn(dentry, y) PROVE HeldIn(ds, y)
    BY Zenon
  <2>1. \A q \in Pairs : q # <<o, n>> => ds[q] = dentry[q]
    BY Zenon, <1>1 DEF Bound
  <2>2. dentry[<<o, n>>] = NoInode /\ NoInode \notin Places
    BY Zenon, RvfsAssumption DEF Cached
  <2>3. CASE y = RootPlace
    BY Zenon, <2>3 DEF HeldIn
  <2>4. CASE \E q \in Pairs : dentry[q] = y
    <3>1. PICK q \in Pairs : dentry[q] = y
      BY Zenon, <2>4
    <3>2. q # <<o, n>>
      BY Zenon, <2>2, <3>1
    <3>3. QED
      BY Zenon, <2>1, <3>1, <3>2 DEF HeldIn
  <2>5. QED
    BY Zenon, <2>3, <2>4 DEF HeldIn
<1>4. HeldIn(dentry, o) /\ Number(o) \in DOMAIN db /\ ms[o].number = Number(o) /\ ms[o].dir
  BY Zenon, DirIsHeld, CacheFacts DEF Number, SameInodes
<1>5. ASSUME NEW y \in Places, HeldIn(ds, y)
      PROVE  /\ ms[y].number \in DOMAIN g
             /\ ms[y].dir <=> IsDirectory(g[ms[y].number].mode)
             /\ ms[y].dir => Cardinality(NamesOf(g[ms[y].number])) <= ms[y].file_size
  <2>1. CASE y = x
    BY Zenon, <2>1
  <2>2. CASE y # x
    <3>1. /\ HeldIn(dentry, y) /\ mem[y].number \in DOMAIN db
          /\ ms[y].number = mem[y].number /\ ms[y].dir = mem[y].dir
          /\ mem[y].dir <=> IsDirectory(db[mem[y].number].mode)
      BY Zenon, <1>2, <1>5, <2>2, CacheFacts DEF SameInodes
    <3>2. mem[y].number \in DOMAIN g /\ g[mem[y].number].mode = db[mem[y].number].mode
      BY Zenon, <3>1 DEF Changed
    <3>3. ms[y].dir <=> IsDirectory(g[ms[y].number].mode)
      BY Zenon, <3>1, <3>2
    <3>4. QED
      BY Zenon, <3>1, <3>2, <3>3
  <2>3. QED
    BY Zenon, <2>1, <2>2
<1>6. ASSUME NEW y \in Places, NEW z \in Places, HeldIn(ds, y), HeldIn(ds, z), ms[y].dir, ms[z].dir,
             ms[y].number = ms[z].number
      PROVE  y = z
  <2>1. CASE y # x /\ z # x
    BY Zenon, <1>2, <1>6, <2>1 DEF SameInodes, CacheOK
  <2>2. CASE y = x /\ z # x
    BY Zenon, <1>2, <1>6, <2>2 DEF SameInodes
  <2>3. CASE y # x /\ z = x
    BY Zenon, <1>2, <1>6, <2>3 DEF SameInodes
  <2>4. QED
    BY Zenon, <2>1, <2>2, <2>3
<1>7. ASSUME NEW p \in Places, NEW m \in Names, ds[<<p, m>>] # NoInode
      PROVE  /\ HeldIn(ds, p) /\ ms[p].dir
             /\ g[ms[p].number].data[m] = ms[ds[<<p, m>>]].number
  <2>0. <<p, m>> \in Pairs
    BY Zenon DEF Pairs
  <2>1. CASE <<p, m>> = <<o, n>>
    <3>1. p = o /\ m = n /\ ds[<<p, m>>] = x
      BY Zenon, <1>0, <1>1, <2>1 DEF Bound
    <3>2. g[Number(o)].data[n] = ms[x].number
      BY Zenon, <1>4 DEF Changed
    <3>3. QED
      BY Zenon, <1>3, <1>4, <3>1, <3>2
  <2>2. CASE <<p, m>> # <<o, n>>
    <3>1. ds[<<p, m>>] = dentry[<<p, m>>]
      BY Zenon, <1>1, <2>0, <2>2 DEF Bound
    <3>2. mem[p].number \in DOMAIN g
      BY Zenon, <1>7, <3>1, CacheFacts DEF CacheOK
    <3>3. NameAgrees(g, p, m)
      BY Zenon, <1>7, <2>2, <3>1, <3>2, OtherName
    <3>4. /\ ms[p].number = mem[p].number /\ ms[p].dir = mem[p].dir
          /\ ms[dentry[<<p, m>>]].number = mem[dentry[<<p, m>>]].number
      BY Zenon, <3>3 DEF SameInodes, NameAgrees
    <3>5. QED
      BY Zenon, <1>3, <3>1, <3>3, <3>4 DEF NameAgrees
  <2>3. QED
    BY Zenon, <2>1, <2>2
<1>8. CacheOK(g, ms, ds)
  BY Zenon, <1>5, <1>6, <1>7 DEF CacheOK
<1>9. QED
  BY Zenon, <1>8 DEF ds

(* The dentry of name n of o, which is not a directory or has none below    *)
(* it, is dropped.                                                          *)
LEMMA DropCache ==
  ASSUME BaseInv, CacheOK(db, mem, dentry), NEW o \in Places, mem[o].dir, NEW n \in Names,
         Cached(o, n) # NoInode, ~mem[Cached(o, n)].dir \/ Leaf(Cached(o, n)),
         NEW ms, Ready(ms, Bind(o, n, NoInode)), SameInodes(ms),
         NEW g, NEW i, Changed(db, g, Number(o), n, i), TreeOK(g),
         \A y \in Places : HeldIn(Bind(o, n, NoInode), y) /\ mem[y].dir => mem[y].number \in DOMAIN g,
         \A y \in Places : HeldIn(dentry, y) /\ ms[y].dir /\ mem[y].number \in DOMAIN g =>
           Cardinality(NamesOf(g[ms[y].number])) <= ms[y].file_size
  PROVE  CacheOK(g, ms, Bind(o, n, NoInode))
<1> DEFINE ds == Bind(o, n, NoInode)
<1>0. MemOK(mem, dentry) /\ NoInode # RootPlace /\ NoInode \notin Places /\ <<o, n>> \in Pairs
  BY Zenon, RvfsAssumption DEF BaseInv, Pairs
<1>1. Bound(ds, o, n, NoInode)
  BY Zenon, <1>0, BindFacts
<1>a. Ready(ms, ds) /\ \A y \in Places : HeldIn(ds, y) /\ mem[y].dir => mem[y].number \in DOMAIN g
  BY Zenon
<1> HIDE DEF ds
<1>2. \A y \in Places : HeldIn(ds, y) => HeldIn(dentry, y)
  BY Zenon, <1>0, <1>1 DEF Bound
<1>3. ASSUME NEW p \in Places, NEW m \in Names, ds[<<p, m>>] # NoInode
      PROVE  /\ HeldIn(ds, p) /\ ms[p].dir /\ ms[p].number \in DOMAIN g
             /\ g[ms[p].number].data[m] = ms[ds[<<p, m>>]].number
  <2>1. /\ <<p, m>> # <<o, n>> /\ ds[<<p, m>>] = dentry[<<p, m>>] /\ <<p, m>> \in Pairs
        /\ Cached(p, m) # NoInode
    BY Zenon, <1>0, <1>1, <1>3 DEF Bound, Pairs, Cached
  <2>2. HeldIn(dentry, p) /\ mem[p].dir
    BY Zenon, <1>3, <2>1 DEF CacheOK
  <2>3. p # Cached(o, n)
    BY Zenon, <2>1, <2>2 DEF Leaf
  <2>4. HeldIn(ds, p)
    BY Zenon, <1>1, <2>2, <2>3 DEF HeldIn, Bound, Cached
  <2>5. mem[p].number \in DOMAIN g
    BY Zenon, <1>a, <2>2, <2>4
  <2>6. NameAgrees(g, p, m)
    BY Zenon, <1>3, <2>1, <2>5, OtherName
  <2>7. /\ ms[p].number = mem[p].number /\ ms[p].dir = mem[p].dir
        /\ ms[dentry[<<p, m>>]].number = mem[dentry[<<p, m>>]].number
    BY Zenon, <2>6 DEF SameInodes, NameAgrees
  <2>8. QED
    BY Zenon, <2>1, <2>4, <2>5, <2>6, <2>7 DEF NameAgrees
<1>4. ASSUME NEW y \in Places, HeldIn(ds, y) PROVE ms[y].number \in DOMAIN g
  <2>1. CASE y = RootPlace
    BY Zenon, <1>a, <2>1 DEF Ready, TreeOK
  <2>2. CASE y # RootPlace
    <3>0. PICK q \in Pairs : ds[q] = y
      BY Zenon, <1>4, <2>2 DEF HeldIn
    <3>1. PICK p \in Places, m \in Names : ds[<<p, m>>] = y
      BY Zenon, <3>0, PairParts
    <3>2. ms[p].number \in DOMAIN g /\ g[ms[p].number].data[m] = ms[y].number
      BY Zenon, <1>0, <1>3, <3>1
    <3>3. ms[y].number # 0
      BY Zenon, <1>4, <1>a DEF Ready
    <3>4. QED
      BY Zenon, <3>2, <3>3 DEF TreeOK
  <2>3. QED
    BY Zenon, <2>1, <2>2
<1>5. ASSUME NEW y \in Places, HeldIn(ds, y)
      PROVE  /\ ms[y].dir <=> IsDirectory(g[ms[y].number].mode)
             /\ ms[y].dir => Cardinality(NamesOf(g[ms[y].number])) <= ms[y].file_size
  <2>1. /\ HeldIn(dentry, y) /\ mem[y].number \in DOMAIN db
        /\ ms[y].number = mem[y].number /\ ms[y].dir = mem[y].dir
        /\ mem[y].dir <=> IsDirectory(db[mem[y].number].mode)
    BY Zenon, <1>2, <1>5, CacheFacts DEF SameInodes
  <2>2. mem[y].number \in DOMAIN g
    BY Zenon, <1>4, <1>5, <2>1
  <2>3. g[mem[y].number].mode = db[mem[y].number].mode
    BY Zenon, <2>1, <2>2 DEF Changed
  <2>4. ms[y].dir <=> IsDirectory(g[ms[y].number].mode)
    BY Zenon, <2>1, <2>3
  <2>5. QED
    BY Zenon, <2>1, <2>2, <2>4
<1>6. ASSUME NEW y \in Places, NEW z \in Places, HeldIn(ds, y), HeldIn(ds, z), ms[y].dir, ms[z].dir,
             ms[y].number = ms[z].number
      PROVE  y = z
  BY Zenon, <1>2, <1>6 DEF SameInodes, CacheOK
<1>7. CacheOK(g, ms, ds)
  BY Zenon, <1>3, <1>4, <1>5, <1>6 DEF CacheOK
<1>8. QED
  BY Zenon, <1>7 DEF ds

(* A directory that has name n of o has no dentry but that one. *)
LEMMA OnlyDentry ==
  ASSUME BaseInv, CacheOK(db, mem, dentry), TreeOK(db), NEW o \in Places, mem[o].dir,
         NEW n \in Names, NEW y \in Places, HeldIn(dentry, y), mem[y].dir,
         mem[y].number = db[Number(o)].data[n]
  PROVE  Cached(o, n) = y /\ y # RootPlace /\ \A q \in Pairs : dentry[q] = y => q = <<o, n>>
<1>1. HeldIn(dentry, o) /\ Number(o) \in DOMAIN db
  BY Zenon, DirIsHeld, CacheFacts DEF Number
<1>2. mem[y].number \in DOMAIN db /\ mem[y].number # 0 /\ IsDirectory(db[mem[y].number].mode)
  BY Zenon, CacheFacts
<1>3. y # RootPlace
  <2>1. mem[y].number # 1
    BY Zenon, <1>1, <1>2 DEF TreeOK
  <2>2. QED
    BY Zenon, <2>1 DEF BaseInv, MemOK, Ready
<1>4. ASSUME NEW q \in Pairs, dentry[q] = y PROVE q = <<o, n>>
  <2>1. PICK p \in Places, m \in Names : q = <<p, m>>
    BY Zenon, PairParts
  <2>0. dentry[<<p, m>>] = y /\ y # NoInode
    BY Zenon, <1>4, <2>1, RvfsAssumption
  <2>2. HeldIn(dentry, p) /\ mem[p].dir /\ db[mem[p].number].data[m] = mem[y].number
    BY Zenon, <2>0 DEF CacheOK
  <2>3. mem[p].number \in DOMAIN db
    BY Zenon, <2>2, CacheFacts
  <2>4. mem[p].number = Number(o) /\ m = n
    <3>1. /\ db[Number(o)].data[n] \in DOMAIN db /\ IsDirectory(db[db[Number(o)].data[n]].mode)
          /\ db[mem[p].number].data[m] = db[Number(o)].data[n]
      BY Zenon, <1>2, <2>2
    <3>2. QED
      BY <1>1, <2>3, <3>1 DEF TreeOK
  <2>5. p = o
    BY Zenon, <1>1, <2>2, <2>4 DEF CacheOK, Number
  <2>6. QED
    BY Zenon, <2>1, <2>4, <2>5
<1>5. Cached(o, n) = y
  BY Zenon, <1>3, <1>4 DEF HeldIn, Cached
<1>6. QED
  BY Zenon, <1>3, <1>4, <1>5

LEMMA NamesFinite ==
  ASSUME NEW b
  PROVE  /\ IsFiniteSet(NamesOf(b)) /\ Cardinality(NamesOf(b)) \in Nat
         /\ Cardinality(NamesOf(b)) <= Cardinality(DB!Entries(b))
<1>1. NamesOf(b) \subseteq DB!Entries(b)
  BY Zenon, NamesAreNames, Numbers DEF NamesOf, DB!Entries
<1>2. QED
  BY Zenon, <1>1, EntriesFinite, FS_Subset, FS_CardinalityType

(* The names of a directory in memory are still covered when n of o is      *)
(* written and k is added to the file_size of o.                            *)
LEMMA StillCovered ==
  ASSUME BaseInv, CacheOK(db, mem, dentry), NEW o \in Places, mem[o].dir, NEW n \in Names,
         NEW g, NEW i, Changed(db, g, Number(o), n, i), NEW k \in {1, 0, -1},
         k = 0 => i \in {0, db[Number(o)].data[n]},
         k = -1 => i = 0 /\ db[Number(o)].data[n] # 0,
         NEW y \in Places, HeldIn(dentry, y), mem[y].dir, mem[y].number \in DOMAIN g
  PROVE  Cardinality(NamesOf(g[mem[y].number])) <= mem[y].file_size + IF y = o THEN k ELSE 0
<1> DEFINE j == mem[y].number
           T == NamesOf(db[j])
           S == NamesOf(g[j])
<1>1. HeldIn(dentry, o) /\ j \in DOMAIN db /\ Cardinality(T) <= mem[y].file_size
  BY Zenon, DirIsHeld, CacheFacts
<1>2. mem[y].file_size \in Int
  BY Zenon, Operand
<1>3. IsFiniteSet(T) /\ Cardinality(T) \in Nat /\ Cardinality(S) \in Nat
  BY Zenon, NamesFinite
<1>4. \A m \in Names : g[j].data[m] = IF j = Number(o) /\ m = n THEN i ELSE db[j].data[m]
  BY Zenon, <1>1 DEF Changed
<1>5. CASE y # o
  <2>1. j # Number(o)
    BY Zenon, <1>1, <1>5 DEF CacheOK, Number
  <2>2. S = T
    BY Zenon, <1>4, <2>1 DEF NamesOf
  <2>3. QED
    BY <1>1, <1>2, <1>3, <1>5, <2>2
<1>6. CASE y = o /\ k = 1
  <2>1. S \subseteq T \cup {n}
    BY Zenon, <1>4 DEF NamesOf
  <2>2. Cardinality(S) <= Cardinality(T) + 1
    BY Zenon, <1>3, <2>1, CardOneMore
  <2>3. QED
    BY <1>1, <1>2, <1>3, <1>6, <2>2
<1>7. CASE y = o /\ k = 0
  <2>1. S \subseteq T
    BY <1>4, <1>7 DEF NamesOf, Number
  <2>2. Cardinality(S) <= Cardinality(T)
    BY Zenon, <1>3, <2>1, FS_Subset
  <2>3. QED
    BY <1>1, <1>2, <1>3, <1>7, <2>2
<1>8. CASE y = o /\ k = -1
  <2>1. S \subseteq T \ {n} /\ n \in T
    BY <1>4, <1>8 DEF NamesOf, Number
  <2>2. Cardinality(S) <= Cardinality(T) - 1
    BY Zenon, <1>3, <2>1, CardOneLess
  <2>3. QED
    BY <1>1, <1>2, <1>3, <1>8, <2>2
<1>9. QED
  BY Zenon, <1>5, <1>6, <1>7, <1>8

Agreed == BaseInv /\ text = {} /\ CacheOK(db, mem, dentry) /\ TreeOK(db)

StillAgreed == CacheOK(db', mem', dentry') /\ text' = {}

LEMMA StillCache ==
  ASSUME Agreed, Still
  PROVE  StillAgreed
BY Zenon DEF Agreed, Still, StillAgreed

LEMMA DoneCache ==
  ASSUME Agreed, NEW ms, NEW ds, NEW d, NEW n, NEW i, NEW D, Done(ms, ds, d, n, i, D),
         CacheOK(db', ms, ds)
  PROVE  StillAgreed
<1>1. CacheOK(db', Held(ms, ds), ds)
  BY Zenon, HeldCache DEF Done
<1>2. QED
  BY Zenon, <1>1 DEF Done, Committed, Agreed, StillAgreed

LEMMA SizeCoversNames ==
  ASSUME NEW f, DbTyped(f), CountsOK(f), NEW i \in DOMAIN f
  PROVE  Cardinality(NamesOf(f[i])) <= f[i].size
<1>1. /\ Cardinality(NamesOf(f[i])) \in Nat /\ Cardinality(DB!Entries(f[i])) \in Nat
      /\ Cardinality(NamesOf(f[i])) <= Cardinality(DB!Entries(f[i]))
  BY Zenon, NamesFinite, EntriesFinite
<1>2. Cardinality(DB!Entries(f[i])) <= f[i].size /\ f[i].size \in Nat
  BY Zenon DEF CountsOK, DbTyped, DB!Bucket
<1>3. QED
  BY <1>1, <1>2

(* An operation finds what the kernel has in memory. *)
LEMMA AgreedFacts ==
  ASSUME Agreed, NEW o \in Places, mem[o].dir, NEW n \in Names
  PROVE  /\ BaseInv /\ CacheOK(db, mem, dentry) /\ TreeOK(db) /\ MemOK(mem, dentry)
         /\ mem \in [Places -> InMemoryInode] /\ DbTyped(db) /\ CountsOK(db)
         /\ HeldIn(dentry, o) /\ Number(o) \in DOMAIN db /\ Number(o) = mem[o].number
         /\ Cached(o, n) # NoInode => /\ Cached(o, n) \in Places /\ HeldIn(dentry, Cached(o, n))
                                      /\ db[Number(o)].data[n] = mem[Cached(o, n)].number
<1>1. BaseInv /\ CacheOK(db, mem, dentry) /\ TreeOK(db)
  BY Zenon DEF Agreed
<1>2. /\ MemOK(mem, dentry) /\ mem \in [Places -> InMemoryInode] /\ DbTyped(db) /\ CountsOK(db)
  BY Zenon, <1>1, Operand
<1>3. HeldIn(dentry, o) /\ mem[o].number \in DOMAIN db
  BY Zenon, <1>1, DirIsHeld, CacheFacts
<1>4. <<o, n>> \in Pairs
  BY Zenon DEF Pairs
<1>5. ASSUME Cached(o, n) # NoInode
      PROVE  /\ Cached(o, n) \in Places /\ HeldIn(dentry, Cached(o, n))
             /\ db[Number(o)].data[n] = mem[Cached(o, n)].number
  <2>1. Cached(o, n) \in Places /\ HeldIn(dentry, Cached(o, n))
    BY Zenon, <1>2, <1>4, <1>5 DEF MemOK, Ready, HeldIn, Cached
  <2>2. db[Number(o)].data[n] = mem[Cached(o, n)].number
    BY Zenon, <1>1, <1>5 DEF Cached, CacheOK, Number
  <2>3. QED
    BY Zenon, <2>1, <2>2
<1>6. QED
  BY Zenon, <1>1, <1>2, <1>3, <1>5 DEF Number

LEMMA RootCache ==
  ASSUME NEW f, DbTyped(f), CountsOK(f), TreeOK(f)
  PROVE  CacheOK(f, OnlyRoot(f[1].size), NoDentry)
<1> DEFINE ms == OnlyRoot(f[1].size)
<1>1. 1 \in DOMAIN f /\ IsDirectory(f[1].mode) /\ Cardinality(NamesOf(f[1])) <= f[1].size
  BY Zenon, SizeCoversNames DEF TreeOK
<1>2. f[1].size \in Int
  <2>1. f[1].size \in Nat
    BY Zenon, <1>1 DEF DbTyped, DB!Bucket
  <2>2. QED
    BY <2>1
<1>3. ms[RootPlace].number = 1 /\ ms[RootPlace].dir /\ ms[RootPlace].file_size = f[1].size
  BY Zenon, <1>2, RvfsAssumption DEF OnlyRoot, RootInMemory, TmpInode
<1>4. \A p \in Places, n \in Names : NoDentry[<<p, n>>] = NoInode
  BY Zenon DEF NoDentry
<1>5. \A y \in Places : HeldIn(NoDentry, y) => y = RootPlace
  BY Zenon, RvfsAssumption DEF HeldIn, NoDentry, Pairs
<1> HIDE DEF ms
<1>6. CacheOK(f, ms, NoDentry)
  BY Zenon, <1>1, <1>3, <1>4, <1>5 DEF CacheOK
<1>7. QED
  BY Zenon, <1>6 DEF ms

LEMMA MountCache ==
  ASSUME Agreed, Mount
  PROVE  StillAgreed /\ UNCHANGED db /\ num' <= num
<1>1. 1 \in DOMAIN db /\ Readable(1) /\ DbTyped(db) /\ CountsOK(db) /\ TreeOK(db) /\ text = {}
  BY Zenon DEF Agreed, TreeOK, BaseInv, Readable
<1>2. PICK k \in 1..num : /\ dentry' = NoDentry /\ num' = k /\ db' = db
                          /\ mem' = OnlyRoot(db'[1].size) /\ UNCHANGED text
  BY Zenon, <1>1 DEF Mount
<1>3. num' <= num
  BY <1>2 DEF Agreed, BaseInv
<1>4. CacheOK(db', mem', dentry')
  BY Zenon, <1>1, <1>2, RootCache
<1>5. QED
  BY Zenon, <1>1, <1>2, <1>3, <1>4 DEF StillAgreed

-----------------------------------------------------------------------------
(* Before the first rename, a step that changes the database is a request   *)
(* of DbfsNamespace.                                                        *)

KeepsDb == num' <= num /\ UNCHANGED db

LEMMA FailKeepsDb ==
  ASSUME BaseInv, UNCHANGED num, UNCHANGED db
  PROVE  KeepsDb
BY DEF KeepsDb, BaseInv

(* An inode in memory has a name in the database. *)
LEMMA HeldHasName ==
  ASSUME Agreed, NEW x \in Places, HeldIn(dentry, x)
  PROVE  /\ Number(x) \in DOMAIN db /\ DB!HasName(Number(x))
         /\ mem[x].dir => Number(x) \in DB!VfsDirs
         /\ ~mem[x].dir => Number(x) \in DB!VfsFiles
<1>1. BaseInv /\ CacheOK(db, mem, dentry) /\ MemOK(mem, dentry)
  BY Zenon DEF Agreed, BaseInv
<1>2. Number(x) \in DOMAIN db /\ (mem[x].dir <=> DB!IsDirectory(db[Number(x)].mode))
  BY Zenon, <1>1, CacheFacts, SameType DEF Number
<1>3. DB!HasName(Number(x))
  <2>1. CASE x = RootPlace
    BY Zenon, <1>1, <2>1 DEF MemOK, Ready, DB!HasName, DB!RootIno, Number
  <2>2. CASE x # RootPlace
    <3>1. PICK q \in Pairs : dentry[q] = x
      BY Zenon, <2>2 DEF HeldIn
    <3>2. PICK p \in Places, m \in Names : dentry[<<p, m>>] = x
      BY Zenon, <3>1, PairParts
    <3>3. HeldIn(dentry, p) /\ db[mem[p].number].data[m] = mem[x].number
      BY Zenon, <1>1, <3>2, RvfsAssumption DEF CacheOK
    <3>4. mem[p].number \in DOMAIN db
      BY Zenon, <1>1, <3>3, CacheFacts
    <3>5. QED
      BY Zenon, <3>3, <3>4 DEF DB!HasName, DB!Inodes, DB!Lookup, Number
  <2>3. QED
    BY Zenon, <2>1, <2>2
<1>4. QED
  BY Zenon, <1>2, <1>3 DEF DB!VfsDirs, DB!VfsFiles, DB!Dirs, DB!Inodes

(* An operation of the kernel in directory o is one of DbfsNamespace there. *)
LEMMA InDirectory ==
  ASSUME Agreed, NEW o \in Places, mem[o].dir
  PROVE  /\ BaseInv /\ Exists(o) /\ Readable(Number(o)) /\ Number(o) \in DB!VfsDirs
         /\ HeldIn(dentry, o) /\ \A i : Readable(i)
<1>1. BaseInv /\ text = {}
  BY Zenon DEF Agreed
<1>2. HeldIn(dentry, o)
  BY Zenon, <1>1, DirIsHeld
<1>3. QED
  BY Zenon, <1>1, <1>2, HeldHasName DEF Exists, Readable

LEMMA CreateRefines ==
  ASSUME Agreed, NEW o \in Places, mem[o].dir, NEW n \in Names, NEW x \in Places,
         NEW t \in Types, dbfs_rvfs_create(o, n, x, t)
  PROVE  DB!Next
<1>1. Exists(o) /\ Readable(Number(o)) /\ Number(o) \in DB!VfsDirs /\ Kernel \in {Kernel}
  BY Zenon, InDirectory
<1>2. DB!Create(Kernel, Number(o), n, Perm777 \cup t)
  BY Zenon, <1>1 DEF dbfs_rvfs_create, Stops
<1>3. DB!S_IFDIR = S_IFDIR /\ DB!S_IFLNK = S_IFLNK /\ DB!Perm777 = Perm777
  BY Zenon DEF DB!S_IFDIR, S_IFDIR, DB!S_IFLNK, S_IFLNK, DB!Perm777, Perm777
<1>4. CASE t = S_IFDIR
  <2>1. DB!Mkdir(Kernel, Number(o), n, Perm777)
    BY Zenon, <1>2, <1>3, <1>4 DEF DB!Mkdir
  <2>2. QED
    BY Zenon, <1>1, <2>1 DEF DB!Next
<1>5. CASE t # S_IFDIR /\ t = S_IFLNK
  <2>1. DB!Symlink(Kernel, Number(o), n)
    BY Zenon, <1>2, <1>3, <1>5 DEF DB!Symlink
  <2>2. DB!S_IFLNK \in Types \ {S_IFDIR}
    BY Zenon, <1>3, <1>5
  <2>3. QED
    BY Zenon, <1>1, <2>1, <2>2 DEF DB!Next
<1>6. CASE t # S_IFDIR /\ t # S_IFLNK
  <2>1. DB!Mknod(Kernel, Number(o), n, Perm777, t)
    BY Zenon, <1>2 DEF DB!Mknod
  <2>2. t \in (Types \ {S_IFDIR}) \ {DB!S_IFLNK}
    BY Zenon, <1>3, <1>6
  <2>3. QED
    BY Zenon, <1>1, <2>1, <2>2 DEF DB!Next
<1>7. QED
  BY Zenon, <1>4, <1>5, <1>6

LEMMA LinkRefines ==
  ASSUME Agreed, NEW o \in Places, mem[o].dir, NEW n \in Names, NEW x \in Places, mem[x] # Free,
         dbfs_link(x, o, n)
  PROVE  DB!Next
<1>1. /\ BaseInv /\ Exists(o) /\ Number(o) \in DB!VfsDirs /\ Kernel \in {Kernel}
      /\ \A i : Readable(i)
  BY Zenon, InDirectory
<1>2. HeldIn(dentry, x) /\ ~mem[x].dir
  BY Zenon, <1>1 DEF BaseInv, MemOK, dbfs_link
<1>3. Number(x) \in DB!VfsFiles /\ Exists(x)
  BY Zenon, <1>2, HeldHasName DEF Exists
<1>4. DB!Link(Kernel, Number(x), Number(o), n)
  BY Zenon, <1>1, <1>3 DEF dbfs_link, Stops
<1>5. QED
  BY Zenon, <1>1, <1>3, <1>4 DEF DB!Next

(* The inode that the kernel has for a name is the one that the database    *)
(* has for it.                                                              *)
LEMMA CachedIsFound ==
  ASSUME Agreed, NEW o \in Places, mem[o].dir, NEW n \in Names, Cached(o, n) # NoInode
  PROVE  /\ Number(Cached(o, n)) = DB!Lookup(Number(o), n) /\ Exists(Cached(o, n))
         /\ DB!Found(Number(o), n) /\ ~DB!Absent(Number(o), n)
         /\ mem[Cached(o, n)].dir <=> DB!Lookup(Number(o), n) \in DB!Dirs
<1> DEFINE x == Cached(o, n)
<1>1. /\ BaseInv /\ CacheOK(db, mem, dentry) /\ x \in Places /\ HeldIn(dentry, x)
      /\ db[Number(o)].data[n] = mem[x].number
  BY Zenon, AgreedFacts
<1>2. mem[x].number \in DOMAIN db /\ mem[x].number # 0 /\ (mem[x].dir <=> IsDirectory(db[mem[x].number].mode))
  BY Zenon, <1>1, CacheFacts
<1>3. mem[x].dir <=> DB!IsDirectory(db[mem[x].number].mode)
  BY Zenon, <1>2, SameType
<1> HIDE DEF x
<1>4. Number(x) = DB!Lookup(Number(o), n) /\ mem[x].number = DB!Lookup(Number(o), n)
  BY Zenon, <1>1 DEF DB!Lookup, Number
<1>5. QED
  BY Zenon, <1>2, <1>3, <1>4, Numbers DEF Exists, DB!Found, DB!Absent, DB!Dirs, DB!Inodes, x

LEMMA UnlinkRefines ==
  ASSUME Agreed, Running, NEW o \in Places, mem[o].dir, NEW n \in Names, dbfs_unlink(o, n)
  PROVE  KeepsDb \/ DB!Next
<1> DEFINE x == Cached(o, n)
           d == Number(o)
<1>1. /\ BaseInv /\ d \in DB!VfsDirs /\ UNCHANGED num /\ x # NoInode /\ ~mem[x].dir /\ Kernel \in {Kernel}
  BY Zenon, InDirectory DEF dbfs_unlink
<1>2. CASE Fail("NotFound") \/ Fail("panic")
  BY Zenon, <1>1, <1>2, FailKeepsDb DEF Fail
<1>3. CASE db' = DB!DropLink(DB!RemoveEntry(db, d, n), Number(x)) /\ Answer("Ok")
  <2>1. /\ Number(x) = DB!Lookup(d, n) /\ DB!Found(d, n) /\ DB!Lookup(d, n) \notin DB!Dirs
    BY Zenon, <1>1, CachedIsFound
  <2>2. DB!MayWrite(Kernel, d) /\ ~DB!StickyDenies(Kernel, d, DB!Lookup(d, n)) /\ DB!Up
    BY Zenon, WritableToKernel DEF DB!Up, Running
  <2>3. db' = DB!DropLink(DB!RemoveEntry(db, d, n), DB!Lookup(d, n)) /\ DB!Reply(Kernel, "Ok")
    BY Zenon, <1>3, <2>1 DEF Answer, DB!Reply
  <2>4. DB!Unlink(Kernel, d, n)
    BY Zenon, <1>1, <2>1, <2>2, <2>3 DEF DB!Unlink
  <2>5. QED
    BY Zenon, <1>1, <2>4 DEF DB!Next
<1>4. QED
  BY Zenon, <1>2, <1>3 DEF dbfs_unlink

LEMMA RmdirRefines ==
  ASSUME Agreed, Running, NEW o \in Places, mem[o].dir, NEW n \in Names, dbfs_rmdir(o, n)
  PROVE  KeepsDb \/ DB!Next
<1> DEFINE x == Cached(o, n)
           d == Number(o)
           i == DB!Lookup(d, n)
<1>1. /\ BaseInv /\ d \in DB!VfsDirs /\ UNCHANGED num /\ x # NoInode /\ mem[x].dir /\ Kernel \in {Kernel}
  BY Zenon, InDirectory DEF dbfs_rmdir
<1>2. CASE Fail("NotFound") \/ Fail("panic") \/ Fail("NotEmpty")
  BY Zenon, <1>1, <1>2, FailKeepsDb DEF Fail
<1>3. CASE /\ ~DB!NotEmpty(i) /\ db' = DB!DeleteBucket(DB!RemoveEntry(db, d, n), i) /\ Answer("Ok")
  <2>1. DB!Found(d, n) /\ i \in DB!Dirs
    BY Zenon, <1>1, CachedIsFound
  <2>2. DB!MayWrite(Kernel, d) /\ ~DB!StickyDenies(Kernel, d, i) /\ DB!Up
    BY Zenon, WritableToKernel DEF DB!Up, Running
  <2>3. DB!Reply(Kernel, "Ok")
    BY Zenon, <1>3 DEF Answer, DB!Reply
  <2>4. DB!Rmdir(Kernel, d, n)
    BY Zenon, <1>1, <1>3, <2>1, <2>2, <2>3 DEF DB!Rmdir
  <2>5. QED
    BY Zenon, <1>1, <2>4 DEF DB!Next
<1>4. QED
  BY Zenon, <1>2, <1>3 DEF dbfs_rmdir

LEMMA Refines ==
  ASSUME Agreed, ~renamed', [Next]_vars
  PROVE  KeepsDb \/ DB!Next
<1>0. BaseInv
  BY Zenon DEF Agreed
<1>1. CASE UNCHANGED vars
  BY Zenon, <1>0, <1>1, FailKeepsDb DEF vars
<1>2. CASE Mount
  BY Zenon, <1>2, MountCache DEF KeepsDb
<1>3. ASSUME Running, NEW o \in Places, mem[o].dir, NEW n \in Names
      PROVE  /\ \A x \in Places : dbfs_lookup(o, n, x) => KeepsDb
             /\ \A x \in Places, t \in Types : dbfs_rvfs_create(o, n, x, t) => DB!Next
             /\ \A x \in Places : mem[x] # Free /\ dbfs_link(x, o, n) => DB!Next
             /\ dbfs_unlink(o, n) => KeepsDb \/ DB!Next
             /\ dbfs_rmdir(o, n) => KeepsDb \/ DB!Next
             /\ \A p \in Places, m \in Names : dbfs_rename(o, n, p, m) => KeepsDb
             /\ Evict(o, n) => KeepsDb
  <2>1. \A x \in Places : dbfs_lookup(o, n, x) => KeepsDb
    BY Zenon, <1>0, FailKeepsDb DEF dbfs_lookup, Fail
  <2>2. ASSUME NEW p \in Places, NEW m \in Names, dbfs_rename(o, n, p, m) PROVE KeepsDb
    <3>1. Still /\ UNCHANGED num
      BY Zenon, <1>0, <1>3, <2>2, RenameSafe DEF dbfs_rename
    <3>2. QED
      BY Zenon, <1>0, <3>1, FailKeepsDb DEF Still
  <2>3. Evict(o, n) => KeepsDb
    BY Zenon, <1>0, FailKeepsDb DEF Evict
  <2>4. QED
    BY Zenon, <1>3, <2>1, <2>2, <2>3, CreateRefines, LinkRefines, UnlinkRefines, RmdirRefines
<1>4. QED
  <2>1. CASE Running /\ \E o \in {x \in Places : mem[x].dir}, n \in Names :
               \/ \E x \in Places : mem[x] = Free /\ dbfs_lookup(o, n, x)
               \/ \E x \in Places, t \in Types : mem[x] = Free /\ dbfs_rvfs_create(o, n, x, t)
               \/ \E x \in Places : mem[x] # Free /\ dbfs_link(x, o, n)
               \/ dbfs_unlink(o, n)
               \/ dbfs_rmdir(o, n)
               \/ \E p \in {x \in Places : mem[x].dir}, m \in Names : dbfs_rename(o, n, p, m)
               \/ Evict(o, n)
    BY Zenon, <1>3, <2>1
  <2>2. QED
    BY Zenon, <1>1, <1>2, <2>1 DEF Next

(* A rename is not forgotten. *)
LEMMA RenamedForGood ==
  ASSUME BaseInv, renamed, [Next]_vars
  PROVE  renamed'
<1>0. \A res, ms, ds : Fail(res) \/ Committed(ms, ds) => UNCHANGED renamed
  BY Zenon DEF Fail, Committed
<1>1. ASSUME NEW o \in Places, NEW n \in Names, NEW x \in Places
      PROVE  /\ dbfs_lookup(o, n, x) => UNCHANGED renamed
             /\ \A t \in Types : dbfs_rvfs_create(o, n, x, t) => UNCHANGED renamed
             /\ dbfs_link(x, o, n) => UNCHANGED renamed
  <2>1. dbfs_lookup(o, n, x) => UNCHANGED renamed
    BY Zenon, <1>0 DEF dbfs_lookup
  <2>2. ASSUME NEW t \in Types, dbfs_rvfs_create(o, n, x, t) PROVE UNCHANGED renamed
    BY Zenon, <1>0, <2>2 DEF dbfs_rvfs_create, Stops
  <2>3. dbfs_link(x, o, n) => UNCHANGED renamed
    BY Zenon, <1>0 DEF dbfs_link, Stops
  <2>4. QED
    BY Zenon, <2>1, <2>2, <2>3
<1>2. ASSUME NEW o \in Places, NEW n \in Names
      PROVE  dbfs_unlink(o, n) \/ dbfs_rmdir(o, n) \/ Evict(o, n) => UNCHANGED renamed
  <2>1. dbfs_unlink(o, n) => UNCHANGED renamed
    BY Zenon, <1>0 DEF dbfs_unlink
  <2>2. dbfs_rmdir(o, n) => UNCHANGED renamed
    BY Zenon, <1>0 DEF dbfs_rmdir
  <2>3. Evict(o, n) => UNCHANGED renamed
    BY Zenon DEF Evict
  <2>4. QED
    BY Zenon, <2>1, <2>2, <2>3
<1>3. ASSUME NEW o \in Places, NEW n \in Names, NEW p \in Places, NEW m \in Names, dbfs_rename(o, n, p, m)
      PROVE  renamed'
  BY Zenon, <1>3, RenameSafe DEF Still
<1>4. Mount \/ UNCHANGED vars => UNCHANGED renamed
  BY Zenon DEF Mount, vars
<1>5. QED
  BY Zenon, <1>1, <1>2, <1>3, <1>4 DEF Next
=============================================================================
