------------------------ MODULE DbfsNamespaceProofs ------------------------
(***************************************************************************)
(* Theorems about DbfsNamespace, for any names, callers and modes and any  *)
(* bounds, when no sockets and no block devices are created: their type    *)
(* bits include the one of a directory, and create takes them for one.     *)
(* First the inductive invariant, and facts about it: what a write to a    *)
(* bucket changes, field by field, and how many entries and names a change *)
(* of one of them can leave.  Then, request by request, that what it       *)
(* commits keeps the invariant and respects the sticky bit.                *)
(***************************************************************************)
EXTENDS DbfsNamespace, FiniteSetTheorems, TLAPS

DirBit == 14

IsDir(b) == DirBit \in b.mode

-----------------------------------------------------------------------------
(* The inductive invariant, conjunct by conjunct, of a database f.          *)

DbType(f) ==
  /\ DOMAIN f \subseteq Ino
  /\ f = [i \in DOMAIN f |-> f[i]]
  /\ \A i \in DOMAIN f : f[i] \in Bucket

(* The bit of S_IFDIR is set in directories only, and in the root. *)
ModesOK(f) ==
  /\ RootIno \in DOMAIN f
  /\ IsDir(f[RootIno])
  /\ \A i \in DOMAIN f : IsDir(f[i]) => {12, 13, 15} \cap f[i].mode = {}

(* Files have no entries; every directory but the root has "." and "..". *)
DotsOK(f) ==
  \A i \in DOMAIN f :
    /\ ~IsDir(f[i]) => \A n \in AllNames : f[i].data[n] = NoIno
    /\ IsDir(f[i]) /\ i # RootIno => f[i].data["."] # NoIno /\ f[i].data[".."] # NoIno

(* A name leads to an inode that exists, not to the root nor to the         *)
(* directory that holds the name.                                           *)
NamesOK(f) ==
  \A d \in DOMAIN f, n \in Names :
    f[d].data[n] # NoIno => f[d].data[n] \in DOMAIN f \ {RootIno, d}

SizesOK(f) ==
  \A d \in DOMAIN f : IsDir(f[d]) => Cardinality(Entries(f[d])) <= f[d].size

LinksOK(f) ==
  \A i \in DOMAIN f :
    Cardinality(Refs(f, i)) <= IF IsDir(f[i]) THEN 1 ELSE f[i].hard_links

DbOK(f) == DbType(f) /\ ModesOK(f) /\ DotsOK(f) /\ NamesOK(f) /\ SizesOK(f) /\ LinksOK(f)

IInv ==
  /\ DbOK(db)
  /\ num \in 1 .. MaxIno + 1
  /\ reply \in [by : Nat, res : Results]

-----------------------------------------------------------------------------
(* Cardinalities of sets that differ in one element.                        *)

LEMMA CardMono ==
  ASSUME NEW T, IsFiniteSet(T), NEW S, S \subseteq T
  PROVE  Cardinality(S) <= Cardinality(T)
BY Zenon, FS_Subset

LEMMA CardAdd ==
  ASSUME NEW T, IsFiniteSet(T), NEW x, NEW S, S \subseteq T \cup {x}
  PROVE  Cardinality(S) <= Cardinality(T) + 1
<1>1. IsFiniteSet(T \cup {x})
      /\ Cardinality(T \cup {x}) = IF x \in T THEN Cardinality(T) ELSE Cardinality(T) + 1
  BY Zenon, FS_AddElement
<1>2. Cardinality(S) <= Cardinality(T \cup {x}) /\ IsFiniteSet(S)
  BY Zenon, <1>1, FS_Subset
<1>3. Cardinality(T) \in Nat /\ Cardinality(S) \in Nat
  BY Zenon, <1>2, FS_CardinalityType
<1>4. QED
  BY <1>1, <1>2, <1>3

LEMMA CardRemove ==
  ASSUME NEW T, IsFiniteSet(T), NEW x \in T, NEW S, S \subseteq T \ {x}
  PROVE  Cardinality(S) <= Cardinality(T) - 1
<1>1. IsFiniteSet(T \ {x}) /\ Cardinality(T \ {x}) = Cardinality(T) - 1
  BY Zenon, FS_RemoveElement
<1>2. QED
  BY <1>1, FS_Subset

LEMMA CardSwap ==
  ASSUME NEW T, IsFiniteSet(T), NEW x \in T, NEW y, NEW S, S \subseteq (T \ {x}) \cup {y}
  PROVE  Cardinality(S) <= Cardinality(T)
<1>1. IsFiniteSet(T \ {x}) /\ Cardinality(T \ {x}) = Cardinality(T) - 1
  BY Zenon, FS_RemoveElement
<1>2. Cardinality(S) <= Cardinality(T \ {x}) + 1
  BY Zenon, <1>1, CardAdd
<1>3. IsFiniteSet((T \ {x}) \cup {y})
  BY Zenon, <1>1, FS_AddElement
<1>4. IsFiniteSet(S)
  BY Zenon, <1>3, FS_Subset
<1>5. QED
  BY <1>1, <1>2, <1>4, FS_CardinalityType

LEMMA CardPositive ==
  ASSUME NEW T, IsFiniteSet(T), NEW x \in T
  PROVE  Cardinality(T) \in Nat /\ Cardinality(T) >= 1
BY FS_EmptySet, FS_CardinalityType

LEMMA CardAtMostOne ==
  ASSUME NEW T, IsFiniteSet(T), Cardinality(T) <= 1, NEW x \in T, NEW y \in T
  PROVE  x = y
<1>1. Cardinality(T) = 1
  BY CardPositive
<1>2. \E z : T = {z}
  BY Zenon, <1>1, FS_Singleton
<1>3. QED
  BY <1>2

LEMMA CardThree ==
  ASSUME NEW T, IsFiniteSet(T), NEW x \in T, NEW y \in T, NEW z \in T,
         x # y, x # z, y # z
  PROVE  Cardinality(T) > 2
<1>1. IsFiniteSet(T \ {x}) /\ Cardinality(T \ {x}) = Cardinality(T) - 1
  BY Zenon, FS_RemoveElement
<1>2. IsFiniteSet((T \ {x}) \ {y})
      /\ Cardinality((T \ {x}) \ {y}) = Cardinality(T \ {x}) - 1
  BY Zenon, <1>1, FS_RemoveElement
<1>3. Cardinality((T \ {x}) \ {y}) >= 1
  BY Zenon, <1>2, CardPositive
<1>4. Cardinality(T) \in Nat
  BY Zenon, FS_CardinalityType
<1>5. QED
  BY <1>1, <1>2, <1>3, <1>4

LEMMA AllNamesFinite == IsFiniteSet(AllNames)
<1>1. AllNames = (Names \cup {"."}) \cup {".."}
  BY Zenon DEF AllNames
<1>2. IsFiniteSet(Names \cup {"."})
  BY Zenon, ConstantsAssumption, FS_AddElement
<1>3. QED
  BY Zenon, <1>1, <1>2, FS_AddElement

LEMMA EntriesFinite ==
  ASSUME NEW b
  PROVE  IsFiniteSet(Entries(b))
BY Zenon, AllNamesFinite, FS_Subset DEF Entries

LEMMA RefsFinite ==
  ASSUME NEW f, DOMAIN f \subseteq Ino, NEW i
  PROVE  IsFiniteSet(Refs(f, i))
<1>1. IsFiniteSet(Ino)
  BY ConstantsAssumption, FS_Interval DEF Ino
<1>2. IsFiniteSet(DOMAIN f)
  BY Zenon, <1>1, FS_Subset
<1>3. IsFiniteSet((DOMAIN f) \X Names)
  BY Zenon, <1>2, ConstantsAssumption, FS_Product
<1>4. QED
  BY Zenon, <1>3, FS_Subset DEF Refs

-----------------------------------------------------------------------------
(* What the writes to buckets change, field by field.                       *)

SameAttrs(b, c) == b.mode = c.mode /\ b.hard_links = c.hard_links

(* g has i for name n of d, and otherwise the entries of f. *)
EntrySet(f, g, d, n, i) ==
  \A j \in DOMAIN f : \A m \in AllNames :
    g[j].data[m] = IF j = d /\ m = n THEN i ELSE f[j].data[m]

(* What a write of one entry, of a size or of a parent leaves. *)
EntryPut(f, g, d, n, i) ==
  /\ DbType(g) /\ DOMAIN g = DOMAIN f /\ EntrySet(f, g, d, n, i)
  /\ \A j \in DOMAIN f : SameAttrs(g[j], f[j]) /\ g[j].size = f[j].size

EntryAdded(f, g, d, n, i) ==
  /\ DbType(g) /\ DOMAIN g = DOMAIN f /\ EntrySet(f, g, d, n, i)
  /\ \A j \in DOMAIN f : /\ SameAttrs(g[j], f[j])
                         /\ g[j].size = IF j = d THEN f[j].size + 1 ELSE f[j].size

EntryRemoved(f, g, d, n) ==
  /\ DbType(g) /\ DOMAIN g = DOMAIN f /\ EntrySet(f, g, d, n, NoIno)
  /\ \A j \in DOMAIN f : /\ SameAttrs(g[j], f[j])
                         /\ g[j].size = IF j = d THEN f[j].size - 1 ELSE f[j].size

Sized(f, g, d, k) ==
  /\ DbType(g) /\ DOMAIN g = DOMAIN f
  /\ \A j \in DOMAIN f : /\ SameAttrs(g[j], f[j]) /\ g[j].data = f[j].data
                         /\ g[j].size = IF j = d THEN k ELSE f[j].size

ParentSet(f, g, i, d) ==
  /\ DbType(g) /\ DOMAIN g = DOMAIN f
  /\ \A j \in DOMAIN f : SameAttrs(g[j], f[j]) /\ g[j].size = f[j].size
  /\ \A j \in DOMAIN f, m \in AllNames :
       g[j].data[m] = IF IsDir(f[i]) /\ j = i /\ m = ".." THEN d ELSE f[j].data[m]

BucketPut(f, g, i, b) ==
  /\ DbType(g) /\ DOMAIN g = DOMAIN f \cup {i} /\ g[i] = b
  /\ \A j \in DOMAIN f \ {i} : g[j] = f[j]

LEMMA PutEntryFacts ==
  ASSUME NEW f, DbType(f), NEW d \in DOMAIN f, NEW n \in AllNames, NEW i \in Ino \cup {NoIno}
  PROVE  EntryPut(f, PutEntry(f, d, n, i), d, n, i)
BY ZenonT(60) DEF DbType, Bucket, PutEntry, EntrySet, SameAttrs, EntryPut

WithSize(f, d, k) == [f EXCEPT ![d].size = k]

LEMMA SizeFacts ==
  ASSUME NEW f, DbType(f), NEW d \in DOMAIN f, NEW k \in Nat
  PROVE  Sized(f, WithSize(f, d, k), d, k)
BY DEF DbType, Bucket, SameAttrs, WithSize, Sized

LEMMA AddEntryFacts ==
  ASSUME NEW f, DbType(f), NEW d \in DOMAIN f, NEW n \in AllNames, NEW i \in Ino \cup {NoIno}
  PROVE  EntryAdded(f, AddEntry(f, d, n, i), d, n, i)
<1> DEFINE p == PutEntry(f, d, n, i)
<1>1. /\ DbType(p) /\ DOMAIN p = DOMAIN f /\ EntrySet(f, p, d, n, i)
      /\ \A j \in DOMAIN f : SameAttrs(p[j], f[j]) /\ p[j].size = f[j].size
  BY PutEntryFacts DEF EntryPut
<1>2. AddEntry(f, d, n, i) = WithSize(p, d, p[d].size + 1)
  BY Zenon DEF AddEntry, WithSize
<1>3. p[d].size + 1 \in Nat
  BY <1>1 DEF DbType, Bucket
<1> DEFINE k == p[d].size + 1
           g == WithSize(p, d, k)
<1> HIDE DEF p
<1>4. k \in Nat
  BY Zenon, <1>3
<1> HIDE DEF k
<1>5. /\ DbType(g) /\ DOMAIN g = DOMAIN p
      /\ \A j \in DOMAIN p : /\ SameAttrs(g[j], p[j]) /\ g[j].data = p[j].data
                             /\ g[j].size = IF j = d THEN k ELSE p[j].size
  <2>1. d \in DOMAIN p
    BY Zenon, <1>1
  <2>2. Sized(p, g, d, k)
    BY Zenon, <1>1, <1>4, <2>1, SizeFacts
  <2>3. QED
    BY Zenon, <2>2 DEF Sized
<1> HIDE DEF g
<1>6. EntrySet(f, g, d, n, i)
  BY <1>1, <1>5 DEF EntrySet
<1>7. \A j \in DOMAIN f : /\ SameAttrs(g[j], f[j])
                          /\ g[j].size = IF j = d THEN f[j].size + 1 ELSE f[j].size
  BY <1>1, <1>5 DEF SameAttrs, k
<1>8. AddEntry(f, d, n, i) = g
  BY Zenon, <1>2 DEF g, k
<1>9. QED
  BY Zenon, <1>1, <1>5, <1>6, <1>7, <1>8 DEF EntryAdded

LEMMA RemoveEntryFacts ==
  ASSUME NEW f, DbType(f), NEW d \in DOMAIN f, NEW n \in AllNames, f[d].size > 0
  PROVE  EntryRemoved(f, RemoveEntry(f, d, n), d, n)
<1> DEFINE p == PutEntry(f, d, n, NoIno)
<1>1. /\ DbType(p) /\ DOMAIN p = DOMAIN f /\ EntrySet(f, p, d, n, NoIno)
      /\ \A j \in DOMAIN f : SameAttrs(p[j], f[j]) /\ p[j].size = f[j].size
  BY PutEntryFacts DEF EntryPut
<1>2. RemoveEntry(f, d, n) = WithSize(p, d, p[d].size - 1)
  BY Zenon DEF RemoveEntry, WithSize
<1>3. p[d].size - 1 \in Nat
  BY <1>1 DEF DbType, Bucket
<1> DEFINE k == p[d].size - 1
           g == WithSize(p, d, k)
<1> HIDE DEF p
<1>4. k \in Nat
  BY Zenon, <1>3
<1> HIDE DEF k
<1>5. /\ DbType(g) /\ DOMAIN g = DOMAIN p
      /\ \A j \in DOMAIN p : /\ SameAttrs(g[j], p[j]) /\ g[j].data = p[j].data
                             /\ g[j].size = IF j = d THEN k ELSE p[j].size
  <2>1. d \in DOMAIN p
    BY Zenon, <1>1
  <2>2. Sized(p, g, d, k)
    BY Zenon, <1>1, <1>4, <2>1, SizeFacts
  <2>3. QED
    BY Zenon, <2>2 DEF Sized
<1> HIDE DEF g
<1>6. EntrySet(f, g, d, n, NoIno)
  BY <1>1, <1>5 DEF EntrySet
<1>7. \A j \in DOMAIN f : /\ SameAttrs(g[j], f[j])
                          /\ g[j].size = IF j = d THEN f[j].size - 1 ELSE f[j].size
  BY <1>1, <1>5 DEF SameAttrs, k
<1>8. RemoveEntry(f, d, n) = g
  BY Zenon, <1>2 DEF g, k
<1>9. QED
  BY Zenon, <1>1, <1>5, <1>6, <1>7, <1>8 DEF EntryRemoved

LEMMA DeleteBucketFacts ==
  ASSUME NEW f, DbType(f), NEW i \in DOMAIN f
  PROVE  /\ DbType(DeleteBucket(f, i))
         /\ DOMAIN DeleteBucket(f, i) = DOMAIN f \ {i}
         /\ \A j \in DOMAIN f \ {i} : DeleteBucket(f, i)[j] = f[j]
BY Zenon DEF DbType, DeleteBucket

LEMMA PutBucketFacts ==
  ASSUME NEW f, DbType(f), NEW i \in Ino, NEW b \in Bucket
  PROVE  BucketPut(f, PutBucket(f, i, b), i, b)
BY Zenon DEF DbType, PutBucket, BucketPut

WithLinks(f, i, k) == [f EXCEPT ![i].hard_links = k]

(* g is f but for the links of i, which are k. *)
LinksSet(f, g, i, k) ==
  /\ DbType(g) /\ DOMAIN g = DOMAIN f
  /\ \A j \in DOMAIN f :
       /\ g[j].mode = f[j].mode /\ g[j].size = f[j].size /\ g[j].data = f[j].data
       /\ g[j].hard_links = IF j = i THEN k ELSE f[j].hard_links

LEMMA LinksFacts ==
  ASSUME NEW f, DbType(f), NEW i \in DOMAIN f, NEW k \in Nat
  PROVE  LinksSet(f, WithLinks(f, i, k), i, k)
BY DEF DbType, Bucket, WithLinks, LinksSet

(* With the directory bit kept to directories, the code's test of the file  *)
(* type is a test of that bit.                                              *)
LEMMA DirectoryBit ==
  ASSUME NEW f, ModesOK(f), NEW i \in DOMAIN f
  PROVE  /\ IsDirectory(f[i].mode) <=> IsDir(f[i])
         /\ Has(f[i].mode, S_IFDIR) <=> IsDir(f[i])
BY Zenon DEF ModesOK, IsDir, DirBit, IsDirectory, DbfsFileType, Has, S_IFSOCK, S_IFLNK, S_IFREG,
       S_IFBLK, S_IFDIR, S_IFCHR

LEMMA DirsAre ==
  ASSUME IInv
  PROVE  Dirs = {i \in DOMAIN db : IsDir(db[i])}
BY Zenon, DirectoryBit DEF IInv, DbOK, Dirs, Inodes

-----------------------------------------------------------------------------
(* Bounds on the entries and the names that a step leaves.                  *)

LEMMA EntriesBounds ==
  ASSUME NEW f, DbOK(f), NEW d \in DOMAIN f, IsDir(f[d]), NEW S
  PROVE  /\ f[d].size \in Nat
         /\ S \subseteq Entries(f[d]) => Cardinality(S) <= f[d].size
         /\ \A n : S \subseteq Entries(f[d]) \cup {n} => Cardinality(S) <= f[d].size + 1
         /\ \A n \in Entries(f[d]) :
              f[d].size > 0 /\ (S \subseteq Entries(f[d]) \ {n} => Cardinality(S) <= f[d].size - 1)
<1> DEFINE E == Entries(f[d])
<1>1. f[d].size \in Nat /\ Cardinality(E) <= f[d].size
  BY Zenon DEF DbOK, DbType, Bucket, SizesOK
<1>2. IsFiniteSet(E) /\ Cardinality(E) \in Nat
  BY Zenon, EntriesFinite, FS_CardinalityType
<1> HIDE DEF E
<1>3. ASSUME S \subseteq E PROVE Cardinality(S) <= f[d].size
  BY <1>1, <1>2, <1>3, FS_Subset, FS_CardinalityType
<1>4. ASSUME NEW n, S \subseteq E \cup {n} PROVE Cardinality(S) <= f[d].size + 1
  <2>1. Cardinality(S) <= Cardinality(E) + 1
    BY Zenon, <1>2, <1>4, CardAdd
  <2>2. IsFiniteSet(E \cup {n})
    BY Zenon, <1>2, FS_AddElement
  <2>3. Cardinality(S) \in Nat
    BY Zenon, <1>4, <2>2, FS_Subset, FS_CardinalityType
  <2>4. QED
    BY <1>1, <1>2, <2>1, <2>3
<1>5. ASSUME NEW n \in E PROVE f[d].size > 0
  BY <1>1, <1>2, CardPositive
<1>6. ASSUME NEW n \in E, S \subseteq E \ {n} PROVE Cardinality(S) <= f[d].size - 1
  <2>1. Cardinality(S) <= Cardinality(E) - 1
    BY Zenon, <1>2, <1>6, CardRemove
  <2>2. Cardinality(S) \in Nat
    BY Zenon, <1>2, <1>6, FS_Subset, FS_CardinalityType
  <2>3. QED
    BY <1>1, <1>2, <2>1, <2>2
<1>7. QED
  BY Zenon, <1>1, <1>3, <1>4, <1>5, <1>6 DEF E

LinkBound(b) == IF IsDir(b) THEN 1 ELSE b.hard_links

LEMMA RefsBounds ==
  ASSUME NEW f, DbOK(f), NEW i \in DOMAIN f, NEW S
  PROVE  /\ LinkBound(f[i]) \in Nat
         /\ S \subseteq Refs(f, i) => Cardinality(S) <= LinkBound(f[i])
         /\ \A y : S \subseteq Refs(f, i) \cup {y} => Cardinality(S) <= LinkBound(f[i]) + 1
         /\ \A x \in Refs(f, i) :
              /\ LinkBound(f[i]) > 0
              /\ S \subseteq Refs(f, i) \ {x} => Cardinality(S) <= LinkBound(f[i]) - 1
              /\ \A y : S \subseteq (Refs(f, i) \ {x}) \cup {y} =>
                          Cardinality(S) <= LinkBound(f[i])
<1> DEFINE R == Refs(f, i)
           k == LinkBound(f[i])
<1>1. k \in Nat /\ Cardinality(R) <= k
  BY Zenon DEF DbOK, DbType, Bucket, LinksOK, LinkBound
<1>2. IsFiniteSet(R) /\ Cardinality(R) \in Nat
  BY Zenon, RefsFinite, FS_CardinalityType DEF DbOK, DbType
<1> HIDE DEF R, k
<1>3. ASSUME S \subseteq R PROVE Cardinality(S) <= k
  BY <1>1, <1>2, <1>3, FS_Subset, FS_CardinalityType
<1>4. ASSUME NEW y, S \subseteq R \cup {y} PROVE Cardinality(S) <= k + 1
  <2>1. Cardinality(S) <= Cardinality(R) + 1
    BY Zenon, <1>2, <1>4, CardAdd
  <2>2. IsFiniteSet(R \cup {y})
    BY Zenon, <1>2, FS_AddElement
  <2>3. Cardinality(S) \in Nat
    BY Zenon, <1>4, <2>2, FS_Subset, FS_CardinalityType
  <2>4. QED
    BY <1>1, <1>2, <2>1, <2>3
<1>5. ASSUME NEW x \in R PROVE k > 0
  BY <1>1, <1>2, CardPositive
<1>6. ASSUME NEW x \in R, S \subseteq R \ {x} PROVE Cardinality(S) <= k - 1
  <2>1. Cardinality(S) <= Cardinality(R) - 1
    BY Zenon, <1>2, <1>6, CardRemove
  <2>2. Cardinality(S) \in Nat
    BY Zenon, <1>2, <1>6, FS_Subset, FS_CardinalityType
  <2>3. QED
    BY <1>1, <1>2, <2>1, <2>2
<1>7. ASSUME NEW x \in R, NEW y, S \subseteq (R \ {x}) \cup {y} PROVE Cardinality(S) <= k
  <2>1. Cardinality(S) <= Cardinality(R)
    BY Zenon, <1>2, <1>7, CardSwap
  <2>2. IsFiniteSet(R \cup {y})
    BY Zenon, <1>2, FS_AddElement
  <2>3. Cardinality(S) \in Nat
    BY <1>7, <2>2, FS_Subset, FS_CardinalityType
  <2>4. QED
    BY <1>1, <1>2, <2>1, <2>3
<1>8. QED
  BY Zenon, <1>1, <1>3, <1>4, <1>5, <1>6, <1>7 DEF R, k

(* An inode that may have one name only has the one that is known. *)
LEMMA OnlyName ==
  ASSUME NEW f, DbOK(f), NEW d \in DOMAIN f, NEW n \in Names, NEW i \in DOMAIN f,
         f[d].data[n] = i, LinkBound(f[i]) <= 1,
         NEW e \in DOMAIN f, NEW m \in Names, f[e].data[m] = i
  PROVE  e = d /\ m = n
<1>1. <<d, n>> \in Refs(f, i) /\ <<e, m>> \in Refs(f, i)
  BY Zenon DEF Refs
<1>2. IsFiniteSet(Refs(f, i)) /\ Cardinality(Refs(f, i)) \in Nat
  BY Zenon, RefsFinite, FS_CardinalityType DEF DbOK, DbType
<1>3. Cardinality(Refs(f, i)) <= 1
  BY <1>2, RefsBounds
<1>4. <<d, n>> = <<e, m>>
  BY Zenon, <1>1, <1>2, <1>3, CardAtMostOne
<1>5. QED
  BY Zenon, <1>4

(* rmdir and rename delete a directory on the strength of its size: with a  *)
(* size of two at most it has no names.                                     *)
LEMMA SmallMeansEmpty ==
  ASSUME NEW f, DbOK(f), NEW i \in DOMAIN f \ {RootIno}, IsDir(f[i]), f[i].size <= 2,
         NEW n \in Names
  PROVE  f[i].data[n] = NoIno
<1> SUFFICES ASSUME f[i].data[n] # NoIno PROVE FALSE
  OBVIOUS
<1>1. "." \in Entries(f[i]) /\ ".." \in Entries(f[i]) /\ n \in Entries(f[i])
  BY Zenon DEF DbOK, DotsOK, Entries, AllNames
<1>2. n # "." /\ n # ".." /\ "." # ".."
  BY Zenon, ConstantsAssumption
<1>3. IsFiniteSet(Entries(f[i])) /\ Cardinality(Entries(f[i])) \in Nat
  BY Zenon, EntriesFinite, FS_CardinalityType
<1>4. Cardinality(Entries(f[i])) > 2
  BY Zenon, <1>1, <1>2, <1>3, CardThree
<1>5. Cardinality(Entries(f[i])) <= f[i].size /\ f[i].size \in Nat
  BY Zenon DEF DbOK, SizesOK, DbType, Bucket
<1>6. QED
  BY <1>3, <1>4, <1>5

-----------------------------------------------------------------------------
(* What the requests are shown to preserve.                                 *)

(* A directory that a step deletes has no names in it. *)
EmptyIfDeleted ==
  \A d \in DOMAIN db \ DOMAIN db' :
    IsDir(db[d]) => \A n \in Names : db[d].data[n] = NoIno

Preserved == IInv' /\ EmptyIfDeleted

(* The sticky bit.  A step that keeps the directory e takes a name away, or *)
(* makes it lead elsewhere, only for a caller whom the sticky bit allows.   *)
StickyStep ==
  \A e \in DOMAIN db \cap DOMAIN db', m \in Names :
    Has(db[e].mode, S_ISVTX) /\ db[e].data[m] # NoIno /\ db'[e].data[m] # db[e].data[m]
    => reply'.by \in {0, db[e].uid, db[db[e].data[m]].uid}

(* "." leads to the directory itself, and ".." to the one that holds its    *)
(* name.                                                                    *)
DotsInv(f) ==
  /\ \A i \in DOMAIN f : IsDir(f[i]) => f[i].data["."] = i
  /\ \A d \in DOMAIN f, n \in Names :
       LET i == f[d].data[n]
       IN i # NoIno /\ IsDir(f[i]) => f[i].data[".."] = d

-----------------------------------------------------------------------------
LEMMA FailStep ==
  ASSUME IInv, NEW c \in Creds, NEW res \in Results, Fail(c, res), num' \in 1 .. MaxIno + 1
  PROVE  Preserved
<1>1. c.uid \in Nat
  BY Zenon, ConstantsAssumption
<1>2. db' = db /\ reply' \in [by : Nat, res : Results]
  BY Zenon, <1>1 DEF Fail, Reply
<1>3. DbOK(db')
  BY Zenon, <1>2 DEF IInv
<1>4. QED
  BY Zenon, <1>2, <1>3 DEF Preserved, IInv, EmptyIfDeleted

LEMMA OkStep ==
  ASSUME IInv, NEW c \in Creds, Reply(c, "Ok"), num' \in 1 .. MaxIno + 1, DbOK(db')
  PROVE  IInv'
<1>1. c.uid \in Nat /\ "Ok" \in Results
  BY Zenon, ConstantsAssumption DEF Results
<1>2. QED
  BY Zenon, <1>1 DEF IInv, Reply

LEMMA VfsSets ==
  ASSUME IInv
  PROVE  /\ \A d \in VfsDirs : d \in DOMAIN db /\ IsDir(db[d])
         /\ \A i \in VfsFiles : i \in DOMAIN db /\ ~IsDir(db[i])
         /\ \A i \in DOMAIN db : i \in Dirs <=> IsDir(db[i])
BY Zenon, DirsAre DEF VfsDirs, VfsFiles, Inodes

LEMMA NoInoFree ==
  ASSUME IInv
  PROVE  NoIno \notin DOMAIN db
BY DEF IInv, DbOK, DbType, Ino, NoIno

LEMMA QuietStep ==
  ASSUME \A e \in DOMAIN db \cap DOMAIN db', m \in Names :
           db[e].data[m] = NoIno \/ db'[e].data[m] = db[e].data[m]
  PROVE  StickyStep
BY Zenon DEF StickyStep

(* A step that keeps types and dots, and adds no name, keeps the invariant. *)
LEMMA KeptDots ==
  ASSUME DotsInv(db), NEW g, DOMAIN g \subseteq DOMAIN db, NamesOK(g),
         \A j \in DOMAIN g : /\ IsDir(g[j]) <=> IsDir(db[j])
                             /\ g[j].data["."] = db[j].data["."]
                             /\ g[j].data[".."] = db[j].data[".."],
         \A j \in DOMAIN g, m \in Names : g[j].data[m] \in {NoIno, db[j].data[m]}
  PROVE  DotsInv(g)
BY DEF DotsInv, NamesOK

LEMMA RestartStep ==
  ASSUME IInv, Restart \/ UNCHANGED vars
  PROVE  Preserved
<1>1. db' = db
  BY Zenon DEF Restart, vars
<1>2. num' \in 1 .. MaxIno + 1 /\ reply' \in [by : Nat, res : Results]
  BY ConstantsAssumption DEF Restart, vars, IInv, Results
<1>3. QED
  BY Zenon, <1>1, <1>2 DEF Preserved, IInv, EmptyIfDeleted

LEMMA InitIInv ==
  ASSUME Init
  PROVE  IInv
<1>1. /\ RootInode.size = 1
      /\ RootInode.mode = Perm777 \cup S_IFDIR
      /\ \A n \in AllNames : RootInode.data[n] = IF n = "." THEN RootIno ELSE NoIno
  BY Zenon DEF RootInode, NoData, AllNames
<1>2. RootInode \in Bucket
  <2>1. [NoData EXCEPT !["."] = RootIno] \in [AllNames -> Ino \cup {NoIno}]
    BY ConstantsAssumption DEF NoData, AllNames, Ino, RootIno, NoIno
  <2>2. Mounter.uid \in Nat /\ Mounter.gid \in Nat
    BY Zenon, ConstantsAssumption
  <2>3. Perm777 \cup S_IFDIR \in SUBSET Bit
    BY DEF Perm777, S_IFDIR, Bit
  <2>4. QED
    BY Zenon, <2>1, <2>2, <2>3 DEF RootInode, Bucket
<1>3. DOMAIN db = {RootIno} /\ db[RootIno] = RootInode /\ db = [i \in DOMAIN db |-> db[i]]
  BY Zenon DEF Init
<1>4. DbType(db)
  BY <1>2, <1>3, ConstantsAssumption DEF DbType, Ino, RootIno
<1>5. IsDir(RootInode) /\ {12, 13, 15} \cap RootInode.mode = {}
  BY <1>1 DEF IsDir, DirBit, Perm777, S_IFDIR
<1>6. ModesOK(db) /\ DotsOK(db)
  BY Zenon, <1>3, <1>5 DEF ModesOK, DotsOK
<1>7. \A n \in Names : RootInode.data[n] = NoIno
  BY Zenon, <1>1, ConstantsAssumption DEF AllNames
<1>8. NamesOK(db)
  BY Zenon, <1>3, <1>7 DEF NamesOK
<1>9. SizesOK(db)
  <2>1. Entries(RootInode) \subseteq {"."}
    BY Zenon, <1>1 DEF Entries
  <2>2. Cardinality(Entries(RootInode)) <= 1
    <3>1. IsFiniteSet({"."}) /\ Cardinality({"."}) = 1
      BY Zenon, FS_Singleton
    <3>2. QED
      BY Zenon, <2>1, <3>1, CardMono
  <2>3. QED
    BY Zenon, <1>1, <1>3, <2>2 DEF SizesOK
<1>10. LinksOK(db)
  <2>1. Refs(db, RootIno) = {}
    BY <1>3, <1>7 DEF Refs, RootIno, NoIno
  <2>2. Cardinality(Refs(db, RootIno)) = 0
    BY Zenon, <2>1, FS_EmptySet
  <2>3. QED
    BY <1>3, <1>5, <2>2 DEF LinksOK
<1>11. num \in 1 .. MaxIno + 1 /\ reply \in [by : Nat, res : Results]
  BY ConstantsAssumption DEF Init, RootIno, Results
<1>12. QED
  BY Zenon, <1>4, <1>6, <1>8, <1>9, <1>10, <1>11 DEF IInv, DbOK

-----------------------------------------------------------------------------
(* chmod and chown change neither the data nor the type bits of an inode.   *)

SameTypeBits(m1, m2) == \A k \in 12..15 : k \in m1 <=> k \in m2

LEMMA AttrOK ==
  ASSUME DbOK(db), NEW i \in DOMAIN db, NEW b \in Bucket,
         b.data = db[i].data, b.size = db[i].size, b.hard_links = db[i].hard_links,
         SameTypeBits(b.mode, db[i].mode)
  PROVE  DbOK([db EXCEPT ![i] = b])
<1> DEFINE g == [db EXCEPT ![i] = b]
<1>1. DOMAIN g = DOMAIN db
  OBVIOUS
<1>2. ASSUME NEW j \in DOMAIN db
      PROVE  /\ g[j] = IF j = i THEN b ELSE db[j]
             /\ g[j].data = db[j].data /\ g[j].size = db[j].size
             /\ g[j].hard_links = db[j].hard_links
             /\ SameTypeBits(g[j].mode, db[j].mode)
  BY Zenon DEF SameTypeBits
<1>3. g = [j \in DOMAIN g |-> g[j]]
  OBVIOUS
<1> HIDE DEF g
<1>4. \A j \in DOMAIN db : IsDir(g[j]) <=> IsDir(db[j])
  BY <1>2 DEF SameTypeBits, IsDir, DirBit
<1>5. \A j \in DOMAIN db : {12, 13, 15} \cap g[j].mode = {} <=> {12, 13, 15} \cap db[j].mode = {}
  BY <1>2 DEF SameTypeBits
<1>6. DbType(g)
  BY Zenon, <1>1, <1>2, <1>3 DEF DbOK, DbType
<1>7. ModesOK(g)
  BY Zenon, <1>1, <1>4, <1>5 DEF DbOK, DbType, ModesOK
<1>8. DotsOK(g)
  BY <1>1, <1>2, <1>4 DEF DbOK, DotsOK
<1>9. NamesOK(g)
  BY Zenon, <1>1, <1>2 DEF DbOK, NamesOK
<1>10. SizesOK(g)
  <2>1. \A j \in DOMAIN db : Entries(g[j]) = Entries(db[j])
    BY Zenon, <1>2 DEF Entries
  <2>2. QED
    BY Zenon, <1>1, <1>2, <1>4, <2>1 DEF DbOK, SizesOK
<1>11. LinksOK(g)
  <2>1. \A j : Refs(g, j) = Refs(db, j)
    BY Zenon, <1>1, <1>2 DEF Refs
  <2>2. QED
    BY Zenon, <1>1, <1>2, <1>4, <2>1 DEF DbOK, LinksOK
<1>12. QED
  BY Zenon, <1>6, <1>7, <1>8, <1>9, <1>10, <1>11 DEF DbOK, g

LEMMA ChmodStep ==
  ASSUME IInv, NEW c \in Creds, NEW i \in Inodes, NEW m \in ChmodModes,
         dbfs_common_chmod(c, i, m)
  PROVE  Preserved
<1>1. num' \in 1 .. MaxIno + 1 /\ "PermissionDenied" \in Results
  BY Zenon DEF dbfs_common_chmod, IInv, Results
<1>2. CASE Fail(c, "PermissionDenied")
  BY Zenon, <1>1, <1>2, FailStep
<1>3. CASE /\ db' = [db EXCEPT ![i].mode = ChmodMode(@, m)]
           /\ Reply(c, "Ok")
  <2> DEFINE mode == ChmodMode(db[i].mode, m)
             b == [db[i] EXCEPT !.mode = mode]
  <2>1. i \in DOMAIN db /\ db[i] \in Bucket /\ DbOK(db)
    BY Zenon DEF Inodes, IInv, DbOK, DbType
  <2>2. mode \in SUBSET Bit /\ SameTypeBits(mode, db[i].mode)
    BY <2>1 DEF SameTypeBits, ChmodMode, S_IFMT, Perm777, Bit, Bucket
  <2>3. db' = [db EXCEPT ![i] = b]
    BY Zenon, <1>3
  <2> HIDE DEF mode
  <2>4. /\ b \in Bucket /\ b.mode = mode /\ b.data = db[i].data
        /\ b.size = db[i].size /\ b.hard_links = db[i].hard_links
    BY Zenon, <2>1, <2>2 DEF Bucket
  <2> HIDE DEF b
  <2>5. DbOK(db')
    BY Zenon, <2>1, <2>2, <2>3, <2>4, AttrOK
  <2>6. DOMAIN db' = DOMAIN db
    BY Zenon, <2>3
  <2>7. QED
    BY Zenon, <1>1, <1>3, <2>5, <2>6, OkStep DEF Preserved, EmptyIfDeleted
<1>4. QED
  BY Zenon, <1>2, <1>3 DEF dbfs_common_chmod

LEMMA ChownStep ==
  ASSUME IInv, NEW c \in Creds, NEW i \in Inodes,
         NEW uid \in ChownIds \cup {None}, NEW gid \in ChownIds \cup {None},
         dbfs_common_chown(c, i, uid, gid)
  PROVE  Preserved
<1> DEFINE mode == ChownMode(db[i].mode, uid, gid)
           b == Chowned(db[i], uid, gid)
<1>1. num' \in 1 .. MaxIno + 1 /\ "PermissionDenied" \in Results
  BY Zenon DEF dbfs_common_chown, IInv, Results
<1>2. CASE Fail(c, "PermissionDenied")
  BY Zenon, <1>1, <1>2, FailStep
<1>3. CASE db' = [db EXCEPT ![i] = b] /\ Reply(c, "Ok")
  <2>1. i \in DOMAIN db /\ db[i] \in Bucket /\ DbOK(db)
    BY Zenon DEF Inodes, IInv, DbOK, DbType
  <2>2. mode \in SUBSET Bit /\ SameTypeBits(mode, db[i].mode)
    BY <2>1 DEF SameTypeBits, ChownMode, clear_suid_sgid, S_ISUID, S_ISGID, Bit, Bucket
  <2>3. ChownIds \subseteq Nat
    BY Zenon, ConstantsAssumption
  <2>4. /\ b \in Bucket /\ b.mode = mode /\ b.data = db[i].data
        /\ b.size = db[i].size /\ b.hard_links = db[i].hard_links
    BY Zenon, <2>1, <2>2, <2>3 DEF Chowned, Bucket
  <2> HIDE DEF b, mode
  <2>5. DbOK(db')
    BY Zenon, <1>3, <2>1, <2>2, <2>4, AttrOK
  <2>6. DOMAIN db' = DOMAIN db
    BY Zenon, <1>3
  <2>7. QED
    BY Zenon, <1>1, <1>3, <2>5, <2>6, OkStep DEF Preserved, EmptyIfDeleted
<1>4. QED
  BY Zenon, <1>2, <1>3 DEF dbfs_common_chown

LEMMA AttrSticky ==
  ASSUME IInv, NEW c \in Creds, NEW i \in Inodes,
         \/ \E m \in ChmodModes : dbfs_common_chmod(c, i, m)
         \/ \E uid, gid \in ChownIds \cup {None} : dbfs_common_chown(c, i, uid, gid)
  PROVE  StickyStep
<1>1. db[i] \in Bucket
  BY Zenon DEF Inodes, IInv, DbOK, DbType
<1>2. CASE UNCHANGED db
  BY Zenon, <1>2, QuietStep
<1>3. CASE \E m \in ChmodModes : db' = [db EXCEPT ![i].mode = ChmodMode(@, m)]
  BY <1>1, <1>3, QuietStep DEF Bucket, Inodes
<1>4. CASE \E uid, gid \in ChownIds \cup {None} : db' = [db EXCEPT ![i] = Chowned(@, uid, gid)]
  BY <1>1, <1>4, QuietStep DEF Bucket, Inodes, Chowned
<1>5. QED
  BY Zenon, <1>2, <1>3, <1>4 DEF dbfs_common_chmod, dbfs_common_chown, Fail

LEMMA AttrDots ==
  ASSUME IInv, IInv', DotsInv(db), NEW c \in Creds, NEW i \in Inodes,
         \/ \E m \in ChmodModes : dbfs_common_chmod(c, i, m)
         \/ \E uid, gid \in ChownIds \cup {None} : dbfs_common_chown(c, i, uid, gid)
  PROVE  DotsInv(db')
<1>1. db[i] \in Bucket /\ i \in DOMAIN db /\ NamesOK(db')
  BY Zenon DEF Inodes, IInv, DbOK, DbType
<1>2. CASE UNCHANGED db
  BY Zenon, <1>2
<1>3. ASSUME NEW b, db' = [db EXCEPT ![i] = b], b.data = db[i].data,
             DirBit \in b.mode <=> DirBit \in db[i].mode
      PROVE  DotsInv(db')
  <2>1. DOMAIN db' = DOMAIN db
    BY Zenon, <1>3
  <2>2. \A j \in DOMAIN db : db'[j].data = db[j].data /\ (IsDir(db'[j]) <=> IsDir(db[j]))
    BY Zenon, <1>3 DEF IsDir
  <2>3. QED
    <3> DEFINE g == db'
    <3>1. DOMAIN g \subseteq DOMAIN db /\ NamesOK(g)
      BY Zenon, <1>1, <2>1
    <3>2. \A j \in DOMAIN g : g[j].data = db[j].data /\ (IsDir(g[j]) <=> IsDir(db[j]))
      BY Zenon, <2>1, <2>2
    <3> HIDE DEF g
    <3>3. DotsInv(g)
      BY Zenon, <3>1, <3>2, KeptDots
    <3>4. QED
      BY Zenon, <3>3 DEF g
<1>4. ASSUME NEW m \in ChmodModes, db' = [db EXCEPT ![i].mode = ChmodMode(@, m)]
      PROVE  DotsInv(db')
  <2> DEFINE b == [db[i] EXCEPT !.mode = ChmodMode(db[i].mode, m)]
  <2>1. b.data = db[i].data /\ b.mode = ChmodMode(db[i].mode, m)
    BY Zenon, <1>1 DEF Bucket
  <2>2. db' = [db EXCEPT ![i] = b]
    BY Zenon, <1>4
  <2>3. DirBit \in ChmodMode(db[i].mode, m) <=> DirBit \in db[i].mode
    BY DEF ChmodMode, S_IFMT, Perm777, DirBit
  <2> HIDE DEF b
  <2>4. QED
    BY Zenon, <1>3, <2>1, <2>2, <2>3
<1>5. ASSUME NEW uid \in ChownIds \cup {None}, NEW gid \in ChownIds \cup {None},
             db' = [db EXCEPT ![i] = Chowned(@, uid, gid)]
      PROVE  DotsInv(db')
  <2> DEFINE b == Chowned(db[i], uid, gid)
  <2>1. b.data = db[i].data /\ b.mode = ChownMode(db[i].mode, uid, gid)
    BY Zenon, <1>1 DEF Bucket, Chowned
  <2>2. db' = [db EXCEPT ![i] = b]
    BY Zenon, <1>5
  <2>3. DirBit \in ChownMode(db[i].mode, uid, gid) <=> DirBit \in db[i].mode
    BY SMTT(60) DEF ChownMode, clear_suid_sgid, S_ISUID, S_ISGID, DirBit
  <2> HIDE DEF b
  <2>4. QED
    BY Zenon, <1>3, <2>1, <2>2, <2>3
<1>6. QED
  BY Zenon, <1>2, <1>4, <1>5 DEF dbfs_common_chmod, dbfs_common_chown, Fail

-----------------------------------------------------------------------------
(* Create, mkdir, mknod and symlink.                                        *)

(* The mode words that are asked for: one file type, or none. *)
CreatePerm(perm) == perm \subseteq Bit /\ (DirBit \in perm => {12, 13, 15} \cap perm = {})

(* The bucket b of a new inode in d. *)
NewBucket(b, d, new, perm) ==
  /\ b \in Bucket
  /\ IsDir(b) <=> DirBit \in perm
  /\ IsDir(b) => {12, 13, 15} \cap b.mode = {}
  /\ \A n \in Names : b.data[n] = NoIno
  /\ ~IsDir(b) => \A n \in AllNames : b.data[n] = NoIno
  /\ IsDir(b) => b.data["."] = new /\ b.data[".."] = d /\ b.size = 2
  /\ b.hard_links >= 1

LEMMA NewInodeFacts ==
  ASSUME DbType(db), NEW c \in Creds, NEW d \in DOMAIN db, NEW new \in Ino,
         NEW perm, CreatePerm(perm)
  PROVE  NewBucket(NewInode(c, d, new, perm), d, new, perm)
<1> DEFINE b == NewInode(c, d, new, perm)
<1>1. db[d] \in Bucket /\ d \in Ino /\ c \in [uid : Nat, gid : Nat]
  BY Zenon, ConstantsAssumption DEF DbType
<1>2. /\ b.mode = NewMode(c, d, perm) /\ b.uid = c.uid
      /\ b.gid = creation_gid(db[d].gid, perm, c.gid) /\ b.size = NewSize(perm)
      /\ b.hard_links = NewLinks(perm) /\ b.data = NewData(d, new, perm)
  BY Zenon DEF NewInode
<1>3. NewMode(c, d, perm) \in SUBSET Bit
  <2>1. NewMode(c, d, perm) \subseteq perm \cup {10}
    BY Zenon DEF NewMode, S_ISGID
  <2>2. perm \subseteq Bit /\ 10 \in Bit
    BY DEF CreatePerm, Bit
  <2>3. QED
    BY Zenon, <2>1, <2>2
<1>4. \A k \in 12..15 : k \in NewMode(c, d, perm) <=> k \in perm
  BY DEF NewMode, S_ISGID, S_ISUID
<1>5. Has(perm, S_IFDIR) <=> DirBit \in perm
  BY Zenon DEF Has, S_IFDIR, DirBit
<1>6. NewData(d, new, perm) \in [AllNames -> Ino \cup {NoIno}]
  BY Zenon, <1>1 DEF NewData, NoData, AllNames
<1>7. \A n \in Names : NewData(d, new, perm)[n] = NoIno
  BY Zenon, ConstantsAssumption DEF NewData, NoData, AllNames
<1>8. DirBit \in perm => /\ NewData(d, new, perm)["."] = new
                         /\ NewData(d, new, perm)[".."] = d
  BY Zenon, <1>5 DEF NewData, NoData, AllNames
<1>9. DirBit \notin perm => \A n \in AllNames : NewData(d, new, perm)[n] = NoIno
  BY Zenon, <1>5 DEF NewData, NoData
<1>10. DirBit \in perm => ~IsSpecial(perm)
  BY Zenon DEF CreatePerm, IsSpecial, Has, S_IFSOCK, S_IFCHR, S_IFBLK, S_IFIFO, DirBit
<1>11. /\ NewSize(perm) \in Nat /\ NewLinks(perm) \in Nat /\ NewLinks(perm) >= 1
       /\ DirBit \in perm => NewSize(perm) = 2
  BY <1>5, <1>10, ConstantsAssumption DEF NewSize, NewLinks
<1>12. creation_gid(db[d].gid, perm, c.gid) \in Nat
  BY Zenon, <1>1 DEF creation_gid, Bucket
<1>13. b \in Bucket
  BY Zenon, <1>1, <1>3, <1>6, <1>11, <1>12 DEF Bucket, NewInode
<1>14. (IsDir(b) <=> DirBit \in perm) /\ (IsDir(b) => {12, 13, 15} \cap b.mode = {})
  BY <1>2, <1>4 DEF IsDir, DirBit, CreatePerm
<1> HIDE DEF b
<1>15. QED
  BY Zenon, <1>2, <1>7, <1>8, <1>9, <1>11, <1>13, <1>14 DEF b, NewBucket

LEMMA CreateOK ==
  ASSUME DbOK(db), NEW c \in Creds, NEW d \in DOMAIN db, IsDir(db[d]), NEW n \in Names,
         db[d].data[n] = NoIno, NEW new \in Ino, new \notin DOMAIN db,
         NEW perm, CreatePerm(perm)
  PROVE  DbOK(PutBucket(AddEntry(db, d, n, new), new, NewInode(c, d, new, perm)))
<1> DEFINE a == AddEntry(db, d, n, new)
           b == NewInode(c, d, new, perm)
           g == PutBucket(a, new, b)
<1>1. /\ b \in Bucket
      /\ IsDir(b) => {12, 13, 15} \cap b.mode = {}
      /\ \A m \in Names : b.data[m] = NoIno
      /\ ~IsDir(b) => \A m \in AllNames : b.data[m] = NoIno
      /\ IsDir(b) => b.data["."] = new /\ b.data[".."] = d /\ b.size = 2
      /\ b.hard_links >= 1
  <2>1. NewBucket(b, d, new, perm)
    BY Zenon, NewInodeFacts DEF DbOK
  <2>2. QED
    BY Zenon, <2>1 DEF NewBucket
<1> HIDE DEF b
<1>2. /\ DbType(a) /\ DOMAIN a = DOMAIN db /\ EntrySet(db, a, d, n, new)
      /\ \A j \in DOMAIN db :
           /\ SameAttrs(a[j], db[j])
           /\ a[j].size = IF j = d THEN db[j].size + 1 ELSE db[j].size
  BY AddEntryFacts DEF DbOK, AllNames, EntryAdded
<1> HIDE DEF a
<1>3. /\ DbType(g) /\ DOMAIN g = DOMAIN db \cup {new}
      /\ g[new] = b /\ \A j \in DOMAIN db : g[j] = a[j]
  BY <1>1, <1>2, PutBucketFacts DEF BucketPut
<1> HIDE DEF g
<1>4. \A j \in DOMAIN db : SameAttrs(g[j], db[j]) /\ (IsDir(g[j]) <=> IsDir(db[j]))
  BY Zenon, <1>2, <1>3 DEF SameAttrs, IsDir
<1>5. \A j \in DOMAIN db, m \in AllNames :
        g[j].data[m] = IF j = d /\ m = n THEN new ELSE db[j].data[m]
  BY <1>2, <1>3 DEF EntrySet
<1>6. ModesOK(g)
  BY Zenon, <1>1, <1>3, <1>4 DEF DbOK, DbType, ModesOK, SameAttrs
<1>7. DotsOK(g)
  <2>1. ASSUME NEW j \in DOMAIN db, ~IsDir(g[j]), NEW m \in AllNames
        PROVE  g[j].data[m] = NoIno
    BY <2>1, <1>4, <1>5 DEF DbOK, DotsOK
  <2>2. ASSUME NEW j \in DOMAIN db, IsDir(g[j]), j # RootIno
        PROVE  g[j].data["."] # NoIno /\ g[j].data[".."] # NoIno
    BY <2>2, <1>4, <1>5, ConstantsAssumption DEF DbOK, DotsOK, AllNames
  <2>3. new # NoIno /\ d # NoIno
    BY DEF Ino, NoIno, DbOK, DbType
  <2>4. QED
    BY Zenon, <1>1, <1>3, <2>1, <2>2, <2>3 DEF DotsOK
<1>8. NamesOK(g)
  <2>1. new # RootIno /\ new # d
    BY Zenon DEF DbOK, ModesOK
  <2>2. QED
    BY <1>1, <1>3, <1>5, <2>1 DEF DbOK, NamesOK, AllNames
<1>9. SizesOK(g)
  <2>1. ASSUME IsDir(b) PROVE Cardinality(Entries(b)) <= b.size
    <3>1. Entries(b) \subseteq {"."} \cup {".."}
      BY Zenon, <1>1 DEF Entries, AllNames
    <3>2. IsFiniteSet({"."}) /\ Cardinality({"."}) = 1
      BY Zenon, FS_Singleton
    <3>3. Cardinality(Entries(b)) <= Cardinality({"."}) + 1
      BY Zenon, <3>1, <3>2, CardAdd
    <3>4. QED
      BY <1>1, <2>1, <3>2, <3>3
  <2>2. ASSUME NEW j \in DOMAIN db, IsDir(db[j]) PROVE Cardinality(Entries(g[j])) <= g[j].size
    <3>1. Entries(g[j]) \subseteq IF j = d THEN Entries(db[j]) \cup {n} ELSE Entries(db[j])
      BY Zenon, <1>5 DEF Entries
    <3>2. g[j].size = IF j = d THEN db[j].size + 1 ELSE db[j].size
      BY Zenon, <1>2, <1>3
    <3>3. QED
      BY Zenon, <2>2, <3>1, <3>2, EntriesBounds
  <2>3. QED
    BY Zenon, <1>3, <1>4, <2>1, <2>2 DEF SizesOK
<1>10. LinksOK(g)
  <2>1. Cardinality(Refs(g, new)) <= LinkBound(b)
    <3>1. Refs(g, new) \subseteq {<<d, n>>}
      BY <1>1, <1>3, <1>5 DEF Refs, DbOK, NamesOK, AllNames, Ino, NoIno
    <3>2. IsFiniteSet({<<d, n>>}) /\ Cardinality({<<d, n>>}) = 1
      BY Zenon, FS_Singleton
    <3>3. Cardinality(Refs(g, new)) <= 1 /\ Cardinality(Refs(g, new)) \in Nat
      BY Zenon, <3>1, <3>2, FS_Subset, FS_CardinalityType
    <3>4. QED
      BY <1>1, <3>3 DEF LinkBound, Bucket
  <2>2. ASSUME NEW j \in DOMAIN db PROVE Cardinality(Refs(g, j)) <= LinkBound(g[j])
    <3>1. Refs(g, j) \subseteq Refs(db, j)
      BY <1>1, <1>3, <1>5 DEF Refs, DbOK, DbType, AllNames, Ino, NoIno
    <3>2. LinkBound(g[j]) = LinkBound(db[j])
      BY Zenon, <1>4 DEF LinkBound, SameAttrs
    <3>3. QED
      BY Zenon, <3>1, <3>2, RefsBounds
  <2>3. QED
    BY Zenon, <1>3, <2>1, <2>2 DEF LinksOK, LinkBound
<1>11. QED
  BY Zenon, <1>3, <1>6, <1>7, <1>8, <1>9, <1>10 DEF DbOK, g, a, b

-----------------------------------------------------------------------------
(* Link, unlink and rmdir.                                                  *)

LEMMA LinkOK ==
  ASSUME DbOK(db), NEW d \in DOMAIN db, IsDir(db[d]), NEW n \in Names,
         NEW i \in DOMAIN db, ~IsDir(db[i]), db[d].data[n] = NoIno
  PROVE  DbOK(AddLink(AddEntry(db, d, n, i), i))
<1> DEFINE a == AddEntry(db, d, n, i)
           k == db[i].hard_links + 1
           g == WithLinks(a, i, k)
<1>1. i \in Ino /\ i # NoIno /\ n \in AllNames /\ k \in Nat
  BY DEF DbOK, DbType, Bucket, Ino, NoIno, AllNames
<1>2. /\ DbType(a) /\ DOMAIN a = DOMAIN db /\ EntrySet(db, a, d, n, i)
      /\ \A j \in DOMAIN db :
           /\ SameAttrs(a[j], db[j])
           /\ a[j].size = IF j = d THEN db[j].size + 1 ELSE db[j].size
  BY <1>1, AddEntryFacts DEF DbOK, EntryAdded
<1> HIDE DEF a, k
<1>3. /\ DbType(g) /\ DOMAIN g = DOMAIN db
      /\ \A j \in DOMAIN db :
           /\ g[j].mode = a[j].mode /\ g[j].size = a[j].size /\ g[j].data = a[j].data
           /\ g[j].hard_links = IF j = i THEN k ELSE a[j].hard_links
  <2>1. LinksSet(a, g, i, k)
    BY Zenon, <1>1, <1>2, LinksFacts
  <2>2. QED
    BY Zenon, <1>2, <2>1 DEF LinksSet
<1> HIDE DEF g
<1>4. \A j \in DOMAIN db : g[j].mode = db[j].mode /\ (IsDir(g[j]) <=> IsDir(db[j]))
  BY <1>2, <1>3 DEF SameAttrs, IsDir
<1>5. \A j \in DOMAIN db, m \in AllNames :
        g[j].data[m] = IF j = d /\ m = n THEN i ELSE db[j].data[m]
  BY <1>2, <1>3 DEF EntrySet
<1>6. ModesOK(g)
  BY <1>3, <1>4 DEF DbOK, DbType, ModesOK
<1>7. DotsOK(g)
  BY <1>3, <1>4, <1>5, ConstantsAssumption DEF DbOK, DotsOK, AllNames
<1>8. NamesOK(g)
  <2>1. i # RootIno /\ i # d
    BY Zenon DEF DbOK, ModesOK
  <2>2. QED
    BY <1>3, <1>5, <2>1 DEF DbOK, NamesOK, AllNames
<1>9. SizesOK(g)
  <2>1. ASSUME NEW j \in DOMAIN db, IsDir(db[j]) PROVE Cardinality(Entries(g[j])) <= g[j].size
    <3>1. Entries(g[j]) \subseteq IF j = d THEN Entries(db[j]) \cup {n} ELSE Entries(db[j])
      BY Zenon, <1>5 DEF Entries
    <3>2. g[j].size = IF j = d THEN db[j].size + 1 ELSE db[j].size
      BY Zenon, <1>2, <1>3
    <3>3. QED
      BY Zenon, <2>1, <3>1, <3>2, EntriesBounds
  <2>2. QED
    BY Zenon, <1>3, <1>4, <2>1 DEF SizesOK
<1>10. LinksOK(g)
  <2>1. ASSUME NEW j \in DOMAIN db PROVE Cardinality(Refs(g, j)) <= LinkBound(g[j])
    <3>1. Refs(g, j) \subseteq IF j = i THEN Refs(db, j) \cup {<<d, n>>} ELSE Refs(db, j)
      BY <1>3, <1>5 DEF Refs, AllNames
    <3>2. LinkBound(g[j]) = IF j = i THEN LinkBound(db[j]) + 1 ELSE LinkBound(db[j])
      BY <1>2, <1>3, <1>4 DEF LinkBound, SameAttrs, k
    <3>3. QED
      BY Zenon, <3>1, <3>2, RefsBounds
  <2>2. QED
    BY Zenon, <1>3, <2>1 DEF LinksOK, LinkBound
<1>11. AddLink(a, i) = g
  BY Zenon, <1>2 DEF AddLink, WithLinks, g, k, SameAttrs
<1>12. QED
  BY Zenon, <1>3, <1>6, <1>7, <1>8, <1>9, <1>10, <1>11 DEF DbOK, a

(* What removing a name leaves, whether or not the inode goes with it. *)
LEMMA RemovedFacts ==
  ASSUME DbOK(db), NEW d \in DOMAIN db, IsDir(db[d]), NEW n \in Names,
         db[d].data[n] # NoIno
  PROVE  LET r == RemoveEntry(db, d, n)
         IN /\ DbType(r) /\ DOMAIN r = DOMAIN db /\ EntrySet(db, r, d, n, NoIno)
            /\ ModesOK(r) /\ DotsOK(r) /\ NamesOK(r) /\ SizesOK(r)
            /\ \A j \in DOMAIN db : SameAttrs(r[j], db[j])
            /\ \A j \in DOMAIN db :
                 Refs(r, j) = IF j = db[d].data[n] THEN Refs(db, j) \ {<<d, n>>} ELSE Refs(db, j)
<1> DEFINE r == RemoveEntry(db, d, n)
<1>1. n \in AllNames /\ n \in Entries(db[d])
  BY Zenon DEF AllNames, Entries
<1>2. db[d].size > 0
  BY Zenon, <1>1, EntriesBounds
<1>3. /\ DbType(r) /\ DOMAIN r = DOMAIN db /\ EntrySet(db, r, d, n, NoIno)
      /\ \A j \in DOMAIN db :
           /\ SameAttrs(r[j], db[j])
           /\ r[j].size = IF j = d THEN db[j].size - 1 ELSE db[j].size
  BY Zenon, <1>1, <1>2, RemoveEntryFacts DEF DbOK, EntryRemoved
<1> HIDE DEF r
<1>4. \A j \in DOMAIN db : r[j].mode = db[j].mode /\ (IsDir(r[j]) <=> IsDir(db[j]))
  BY Zenon, <1>3 DEF SameAttrs, IsDir
<1>5. \A j \in DOMAIN db, m \in AllNames :
        r[j].data[m] = IF j = d /\ m = n THEN NoIno ELSE db[j].data[m]
  BY Zenon, <1>3 DEF EntrySet
<1>6. ModesOK(r)
  BY Zenon, <1>3, <1>4 DEF DbOK, DbType, ModesOK
<1>7. DotsOK(r)
  BY <1>3, <1>4, <1>5, ConstantsAssumption DEF DbOK, DotsOK, AllNames
<1>8. NamesOK(r)
  BY <1>3, <1>5 DEF DbOK, NamesOK, AllNames
<1>9. SizesOK(r)
  <2>1. ASSUME NEW j \in DOMAIN db, IsDir(db[j]) PROVE Cardinality(Entries(r[j])) <= r[j].size
    <3>1. Entries(r[j]) \subseteq IF j = d THEN Entries(db[j]) \ {n} ELSE Entries(db[j])
      BY Zenon, <1>5 DEF Entries
    <3>2. QED
      BY Zenon, <1>1, <1>3, <2>1, <3>1, EntriesBounds
  <2>2. QED
    BY Zenon, <1>3, <1>4, <2>1 DEF SizesOK
<1>10. ASSUME NEW j \in DOMAIN db
       PROVE  Refs(r, j) = IF j = db[d].data[n] THEN Refs(db, j) \ {<<d, n>>} ELSE Refs(db, j)
  <2>1. j # NoIno
    BY DEF DbOK, DbType, Ino, NoIno
  <2>2. QED
    BY <1>3, <1>5, <2>1 DEF Refs, AllNames
<1>11. QED
  BY Zenon, <1>3, <1>6, <1>7, <1>8, <1>9, <1>10 DEF r

(* rmdir, and unlink of the last link *)
LEMMA DeleteOK ==
  ASSUME DbOK(db), NEW d \in DOMAIN db, IsDir(db[d]), NEW n \in Names,
         NEW i \in DOMAIN db, db[d].data[n] = i, i # d, LinkBound(db[i]) <= 1
  PROVE  DbOK(DeleteBucket(RemoveEntry(db, d, n), i))
<1> DEFINE r == RemoveEntry(db, d, n)
           g == DeleteBucket(r, i)
<1>1. i # NoIno /\ i # RootIno
  BY DEF DbOK, DbType, NamesOK, Ino, NoIno
<1>2. /\ DbType(r) /\ DOMAIN r = DOMAIN db /\ EntrySet(db, r, d, n, NoIno)
      /\ ModesOK(r) /\ DotsOK(r) /\ NamesOK(r) /\ SizesOK(r)
      /\ \A j \in DOMAIN db : SameAttrs(r[j], db[j])
      /\ \A j \in DOMAIN db :
           Refs(r, j) = IF j = i THEN Refs(db, j) \ {<<d, n>>} ELSE Refs(db, j)
  BY <1>1, RemovedFacts
<1> HIDE DEF r
<1>3. /\ DbType(g) /\ DOMAIN g = DOMAIN db \ {i}
      /\ \A j \in DOMAIN db \ {i} : g[j] = r[j]
  <2>1. DbType(r) /\ DOMAIN r = DOMAIN db /\ i \in DOMAIN r
    BY Zenon, <1>1, <1>2
  <2>2. DbType(g) /\ DOMAIN g = DOMAIN r \ {i} /\ \A j \in DOMAIN r \ {i} : g[j] = r[j]
    BY Zenon, <2>1, DeleteBucketFacts
  <2>3. QED
    BY Zenon, <2>1, <2>2
<1> HIDE DEF g
<1>4. ModesOK(g) /\ DotsOK(g) /\ SizesOK(g)
  BY <1>1, <1>2, <1>3 DEF ModesOK, DotsOK, SizesOK, DbType
<1>5. NamesOK(g)
  <2>1. ASSUME NEW e \in DOMAIN db, NEW m \in Names PROVE r[e].data[m] # i
    <3>1. m \in AllNames
      BY Zenon DEF AllNames
    <3>2. r[e].data[m] = IF e = d /\ m = n THEN NoIno ELSE db[e].data[m]
      BY Zenon, <1>2, <3>1 DEF EntrySet
    <3>3. db[e].data[m] = i => e = d /\ m = n
      BY OnlyName
    <3>4. QED
      BY Zenon, <1>1, <3>2, <3>3
  <2>2. QED
    BY <1>2, <1>3, <2>1 DEF NamesOK
<1>6. LinksOK(g)
  <2>1. ASSUME NEW j \in DOMAIN db \ {i} PROVE Cardinality(Refs(g, j)) <= LinkBound(g[j])
    <3>1. Refs(g, j) \subseteq Refs(db, j)
      BY SMTT(60), <1>2, <1>3 DEF Refs
    <3>2. LinkBound(g[j]) = LinkBound(db[j])
      BY <1>2, <1>3 DEF LinkBound, SameAttrs, IsDir
    <3>3. QED
      BY Zenon, <3>1, <3>2, RefsBounds
  <2>2. QED
    BY Zenon, <1>3, <2>1 DEF LinksOK, LinkBound
<1>7. QED
  BY Zenon, <1>3, <1>4, <1>5, <1>6 DEF DbOK, g, r

LEMMA UnlinkOK ==
  ASSUME DbOK(db), NEW d \in DOMAIN db, IsDir(db[d]), NEW n \in Names,
         NEW i \in DOMAIN db, db[d].data[n] = i, ~IsDir(db[i])
  PROVE  DbOK(DropLink(RemoveEntry(db, d, n), i))
<1> DEFINE r == RemoveEntry(db, d, n)
           k == db[i].hard_links - 1
           g == WithLinks(r, i, k)
<1>1. i # NoIno /\ i # d
  BY DEF DbOK, DbType, Ino, NoIno
<1>2. /\ DbType(r) /\ DOMAIN r = DOMAIN db /\ EntrySet(db, r, d, n, NoIno)
      /\ ModesOK(r) /\ DotsOK(r) /\ NamesOK(r) /\ SizesOK(r)
      /\ \A j \in DOMAIN db : SameAttrs(r[j], db[j])
      /\ \A j \in DOMAIN db :
           Refs(r, j) = IF j = i THEN Refs(db, j) \ {<<d, n>>} ELSE Refs(db, j)
  BY <1>1, RemovedFacts
<1>3. <<d, n>> \in Refs(db, i) /\ LinkBound(db[i]) = db[i].hard_links
  BY Zenon DEF Refs, LinkBound
<1>4. k \in Nat
  BY <1>3, RefsBounds
<1>5. CASE db[i].hard_links = 1
  <2>1. DbOK(DeleteBucket(r, i))
    BY <1>1, <1>3, <1>5, DeleteOK
  <2>2. QED
    BY Zenon, <1>2, <1>5, <2>1 DEF DropLink, SameAttrs
<1>6. CASE db[i].hard_links # 1
  <2> HIDE DEF r, k
  <2>1. /\ DbType(g) /\ DOMAIN g = DOMAIN db
        /\ \A j \in DOMAIN db :
             /\ g[j].mode = r[j].mode /\ g[j].size = r[j].size /\ g[j].data = r[j].data
             /\ g[j].hard_links = IF j = i THEN k ELSE r[j].hard_links
    <3>1. LinksSet(r, g, i, k)
      BY Zenon, <1>2, <1>4, LinksFacts
    <3>2. QED
      BY Zenon, <1>2, <3>1 DEF LinksSet
  <2> HIDE DEF g
  <2>2. ModesOK(g) /\ DotsOK(g) /\ NamesOK(g) /\ SizesOK(g)
    BY <1>2, <2>1 DEF ModesOK, DotsOK, NamesOK, SizesOK, Entries, IsDir, DbType
  <2>3. ASSUME NEW j \in DOMAIN db PROVE Cardinality(Refs(g, j)) <= LinkBound(g[j])
    <3>1. Refs(g, j) = Refs(r, j)
      <4>1. DOMAIN g = DOMAIN r /\ \A e \in DOMAIN r : g[e].data = r[e].data
        BY Zenon, <1>2, <2>1
      <4>2. QED
        BY Zenon, <4>1 DEF Refs
    <3>2. LinkBound(g[j]) = IF j = i THEN LinkBound(db[j]) - 1 ELSE LinkBound(db[j])
      BY <1>2, <2>1 DEF LinkBound, SameAttrs, IsDir, k
    <3>3. QED
      BY <1>2, <1>3, <3>1, <3>2, RefsBounds
  <2>4. LinksOK(g)
    BY Zenon, <2>1, <2>3 DEF LinksOK, LinkBound
  <2>5. DropLink(r, i) = g
    BY Zenon, <1>2, <1>6 DEF DropLink, WithLinks, g, k, SameAttrs
  <2>6. QED
    BY Zenon, <2>1, <2>2, <2>4, <2>5 DEF DbOK, r
<1>7. QED
  BY Zenon, <1>5, <1>6

-----------------------------------------------------------------------------
(* The requests.                                                            *)

(* No sockets and no block devices: their type bits include the one of a    *)
(* directory.                                                               *)
PlainTypes == Types \cap {S_IFSOCK, S_IFBLK} = {}

LEMMA CreateStep ==
  ASSUME IInv, NEW c \in Creds, NEW d \in VfsDirs, NEW n \in Names, NEW perm, CreatePerm(perm),
         Create(c, d, n, perm)
  PROVE  Preserved
<1>1. num' \in 1 .. MaxIno + 1 /\ num \in Ino
  BY ConstantsAssumption DEF Create, IInv, Ino
<1>2. {"AccessError", "FileExists"} \subseteq Results
  BY Zenon DEF Results
<1>3. CASE Fail(c, "AccessError") \/ Fail(c, "FileExists")
  BY Zenon, <1>1, <1>2, <1>3, FailStep
<1>4. CASE /\ num \notin Inodes /\ Reply(c, "Ok")
           /\ db' = PutBucket(AddEntry(db, d, n, num), num, NewInode(c, d, num, perm))
  <2>1. d \in DOMAIN db /\ IsDir(db[d]) /\ db[d].data[n] = NoIno /\ DbOK(db)
    BY Zenon, VfsSets DEF Create, Absent, Lookup, IInv
  <2>2. DbOK(db')
    BY Zenon, <1>1, <1>4, <2>1, CreateOK DEF Inodes
  <2>3. DOMAIN db \subseteq DOMAIN db'
    BY Zenon, <1>4 DEF PutBucket, AddEntry, PutEntry
  <2>4. QED
    BY Zenon, <1>1, <1>4, <2>2, <2>3, OkStep DEF Preserved, EmptyIfDeleted
<1>5. QED
  BY Zenon, <1>3, <1>4 DEF Create

(* The mode words of mkdir, mknod and symlink. *)
LEMMA RequestedPerms ==
  ASSUME PlainTypes
  PROVE  /\ \A m \in Modes : CreatePerm(m \cup S_IFDIR)
         /\ \A m \in Modes, t \in Types \ {S_IFLNK} : CreatePerm(m \cup t)
         /\ CreatePerm(Perm777 \cup S_IFLNK)
<1>1. ASSUME NEW m \in Modes PROVE m \subseteq Bit /\ \A k \in 12..15 : k \notin m
  BY ConstantsAssumption DEF Bit
<1>2. ASSUME NEW m \in Modes PROVE CreatePerm(m \cup S_IFDIR)
  BY <1>1 DEF CreatePerm, DirBit, S_IFDIR, Bit
<1>3. ASSUME NEW m \in Modes, NEW t \in Types \ {S_IFLNK} PROVE CreatePerm(m \cup t)
  <2>1. t \in {S_IFREG, S_IFCHR, S_IFIFO}
    BY Zenon, ConstantsAssumption DEF PlainTypes, FileTypes
  <2>2. t \subseteq Bit /\ DirBit \notin t
    BY <2>1 DEF Bit, DirBit, S_IFREG, S_IFCHR, S_IFIFO
  <2>3. DirBit \notin m
    BY <1>1 DEF DirBit
  <2>4. QED
    BY Zenon, <1>1, <2>2, <2>3 DEF CreatePerm
<1>4. CreatePerm(Perm777 \cup S_IFLNK)
  BY DEF CreatePerm, DirBit, Perm777, S_IFLNK, Bit
<1>5. QED
  BY Zenon, <1>2, <1>3, <1>4

LEMMA LinkStep ==
  ASSUME IInv, NEW c \in Creds, NEW i \in VfsFiles, NEW d \in VfsDirs, NEW n \in Names,
         Link(c, i, d, n)
  PROVE  Preserved
<1>1. num' \in 1 .. MaxIno + 1 /\ "AccessError" \in Results
  BY Zenon DEF Link, IInv, Results
<1>2. CASE Fail(c, "AccessError")
  BY Zenon, <1>1, <1>2, FailStep
<1>3. CASE Reply(c, "Ok") /\ db' = AddLink(AddEntry(db, d, n, i), i)
  <2>1. /\ d \in DOMAIN db /\ IsDir(db[d]) /\ db[d].data[n] = NoIno /\ DbOK(db)
        /\ i \in DOMAIN db /\ ~IsDir(db[i])
    BY Zenon, VfsSets DEF Link, Absent, Lookup, IInv
  <2>2. DbOK(db')
    BY Zenon, <1>3, <2>1, LinkOK
  <2>3. DOMAIN db' = DOMAIN db
    BY Zenon, <1>3 DEF AddLink, AddEntry, PutEntry
  <2>4. QED
    BY Zenon, <1>1, <1>3, <2>2, <2>3, OkStep DEF Preserved, EmptyIfDeleted
<1>4. QED
  BY Zenon, <1>2, <1>3 DEF Link

LEMMA UnlinkStep ==
  ASSUME IInv, NEW c \in Creds, NEW d \in VfsDirs, NEW n \in Names, Unlink(c, d, n)
  PROVE  Preserved
<1> DEFINE i == Lookup(d, n)
<1>1. num' \in 1 .. MaxIno + 1 /\ "AccessError" \in Results
  BY Zenon DEF Unlink, IInv, Results
<1>2. CASE Fail(c, "AccessError")
  BY Zenon, <1>1, <1>2, FailStep
<1>3. CASE Reply(c, "Ok") /\ db' = DropLink(RemoveEntry(db, d, n), i)
  <2>1. /\ d \in DOMAIN db /\ IsDir(db[d]) /\ db[d].data[n] = i /\ DbOK(db)
        /\ i \in DOMAIN db /\ ~IsDir(db[i])
    BY Zenon, VfsSets DEF Unlink, Found, Lookup, Inodes, IInv
  <2>2. DbOK(db')
    BY Zenon, <1>3, <2>1, UnlinkOK
  <2>3. DOMAIN db \ {i} \subseteq DOMAIN db'
    BY Zenon, <1>3 DEF DropLink, DeleteBucket, RemoveEntry, PutEntry
  <2>4. QED
    BY Zenon, <1>1, <1>3, <2>1, <2>2, <2>3, OkStep DEF Preserved, EmptyIfDeleted
<1>4. QED
  BY Zenon, <1>2, <1>3 DEF Unlink

LEMMA RmdirStep ==
  ASSUME IInv, NEW c \in Creds, NEW d \in VfsDirs, NEW n \in Names, Rmdir(c, d, n)
  PROVE  Preserved
<1> DEFINE i == Lookup(d, n)
<1>1. num' \in 1 .. MaxIno + 1 /\ "AccessError" \in Results /\ "NotEmpty" \in Results
  BY Zenon DEF Rmdir, IInv, Results
<1>2. CASE Fail(c, "AccessError") \/ Fail(c, "NotEmpty")
  BY Zenon, <1>1, <1>2, FailStep
<1>3. CASE ~NotEmpty(i) /\ Reply(c, "Ok") /\ db' = DeleteBucket(RemoveEntry(db, d, n), i)
  <2>1. /\ d \in DOMAIN db /\ IsDir(db[d]) /\ db[d].data[n] = i /\ DbOK(db)
        /\ i \in DOMAIN db /\ IsDir(db[i])
    BY Zenon, VfsSets DEF Rmdir, Found, Lookup, Inodes, IInv
  <2>2. i # d /\ i # RootIno /\ i # NoIno /\ db[i].size \in Nat
    BY <2>1 DEF DbOK, DbType, NamesOK, Ino, NoIno, Bucket
  <2>3. DbOK(db')
    BY <1>3, <2>1, <2>2, DeleteOK DEF LinkBound
  <2>4. DOMAIN db \ {i} \subseteq DOMAIN db'
    BY Zenon, <1>3 DEF DeleteBucket, RemoveEntry, PutEntry
  <2>5. \A m \in Names : db[i].data[m] = NoIno
    BY <1>3, <2>1, <2>2, SmallMeansEmpty DEF NotEmpty
  <2>6. QED
    BY Zenon, <1>1, <1>3, <2>3, <2>4, <2>5, OkStep DEF Preserved, EmptyIfDeleted
<1>4. QED
  BY Zenon, <1>2, <1>3 DEF Rmdir

-----------------------------------------------------------------------------
(* The entries that they leave alone, and the check before they remove one. *)

LEMMA CreateSticky ==
  ASSUME IInv, NEW c \in Creds, NEW d \in VfsDirs, NEW n \in Names, NEW perm,
         Create(c, d, n, perm)
  PROVE  StickyStep
<1> DEFINE a == AddEntry(db, d, n, num)
<1>1. CASE UNCHANGED db
  BY Zenon, <1>1, QuietStep
<1>2. CASE num \notin Inodes /\ db' = PutBucket(a, num, NewInode(c, d, num, perm))
  <2>1. d \in DOMAIN db /\ db[d].data[n] = NoIno /\ n \in AllNames /\ num \in Ino /\ DbType(db)
    BY Zenon, VfsSets DEF Create, Absent, Lookup, AllNames, IInv, DbOK
  <2>2. DOMAIN a = DOMAIN db /\ EntrySet(db, a, d, n, num)
    BY <2>1, AddEntryFacts DEF EntryAdded
  <2> HIDE DEF a
  <2>3. \A e \in DOMAIN db : db'[e] = a[e]
    BY Zenon, <1>2, <2>2 DEF PutBucket, Inodes
  <2>4. QED
    BY <2>1, <2>2, <2>3, QuietStep DEF EntrySet, AllNames
<1>3. QED
  BY Zenon, <1>1, <1>2 DEF Create, Fail

LEMMA LinkSticky ==
  ASSUME IInv, NEW c \in Creds, NEW i \in VfsFiles, NEW d \in VfsDirs, NEW n \in Names,
         Link(c, i, d, n)
  PROVE  StickyStep
<1> DEFINE a == AddEntry(db, d, n, i)
           k == a[i].hard_links + 1
<1>1. CASE UNCHANGED db
  BY Zenon, <1>1, QuietStep
<1>2. CASE db' = AddLink(a, i)
  <2>1. /\ d \in DOMAIN db /\ db[d].data[n] = NoIno /\ n \in AllNames
        /\ i \in DOMAIN db /\ i \in Ino /\ DbType(db)
    BY Zenon, VfsSets DEF Link, Absent, Lookup, AllNames, IInv, DbOK, DbType
  <2>2. DOMAIN a = DOMAIN db /\ EntrySet(db, a, d, n, i) /\ DbType(a)
    BY <2>1, AddEntryFacts DEF EntryAdded
  <2> HIDE DEF a
  <2>3. k \in Nat /\ db' = WithLinks(a, i, k)
    BY <1>2, <2>1, <2>2 DEF DbType, Bucket, AddLink, WithLinks
  <2> HIDE DEF k
  <2>4. \A e \in DOMAIN db : db'[e].data = a[e].data
    <3>1. LinksSet(a, db', i, k)
      BY Zenon, <2>1, <2>2, <2>3, LinksFacts
    <3>2. QED
      BY Zenon, <2>2, <3>1 DEF LinksSet
  <2>5. QED
    BY <2>1, <2>2, <2>4, QuietStep DEF EntrySet, AllNames
<1>3. QED
  BY Zenon, <1>1, <1>2 DEF Link, Fail

(* A step that takes the name n of d away, and no other. *)
LEMMA RemovedSticky ==
  ASSUME NEW c \in Creds, NEW d \in DOMAIN db, NEW n \in Names, Reply(c, "Ok"),
         ~StickyDenies(c, d, db[d].data[n]), EntrySet(db, RemoveEntry(db, d, n), d, n, NoIno),
         \A e \in DOMAIN db \cap DOMAIN db' : db'[e].data = RemoveEntry(db, d, n)[e].data
  PROVE  StickyStep
BY DEF StickyStep, StickyDenies, Reply, EntrySet, AllNames

LEMMA UnlinkSticky ==
  ASSUME IInv, NEW c \in Creds, NEW d \in VfsDirs, NEW n \in Names, Unlink(c, d, n)
  PROVE  StickyStep
<1> DEFINE i == db[d].data[n]
           r == RemoveEntry(db, d, n)
           k == r[i].hard_links - 1
<1>1. CASE UNCHANGED db
  BY Zenon, <1>1, QuietStep
<1>2. CASE ~StickyDenies(c, d, i) /\ Reply(c, "Ok") /\ db' = DropLink(r, i)
  <2>1. /\ d \in DOMAIN db /\ IsDir(db[d]) /\ i \in DOMAIN db /\ ~IsDir(db[i])
        /\ DbOK(db) /\ i # NoIno
    <3>1. d \in DOMAIN db /\ IsDir(db[d]) /\ DbOK(db) /\ NoIno \notin DOMAIN db
      BY Zenon, VfsSets, NoInoFree DEF IInv
    <3>2. Found(d, n) /\ i \in DOMAIN db /\ i \notin Dirs
      BY Zenon DEF Unlink, Found, Lookup, Inodes
    <3>3. QED
      BY Zenon, <3>1, <3>2, VfsSets
  <2>2. /\ DOMAIN r = DOMAIN db /\ EntrySet(db, r, d, n, NoIno) /\ DbType(r)
        /\ SameAttrs(r[i], db[i])
    BY Zenon, <2>1, RemovedFacts
  <2>3. <<d, n>> \in Refs(db, i) /\ LinkBound(db[i]) = db[i].hard_links
    BY Zenon, <2>1 DEF Refs, LinkBound
  <2>4. k \in Nat
    <3>1. LinkBound(db[i]) \in Nat /\ LinkBound(db[i]) > 0
      BY Zenon, <2>1, <2>3, RefsBounds
    <3> DEFINE h == r[i].hard_links
    <3>2. h = LinkBound(db[i])
      BY Zenon, <2>2, <2>3 DEF SameAttrs
    <3>3. h \in Nat /\ h > 0
      BY Zenon, <3>1, <3>2
    <3> HIDE DEF h
    <3>4. h - 1 \in Nat
      BY <3>3
    <3>5. QED
      BY Zenon, <3>4 DEF h
  <2> HIDE DEF r
  <2>5. DropLink(r, i) \in {DeleteBucket(r, i), WithLinks(r, i, k)}
    BY Zenon DEF DropLink, WithLinks
  <2> HIDE DEF k
  <2>6. \A e \in DOMAIN db \cap DOMAIN db' : db'[e].data = r[e].data
    <3>1. LinksSet(r, WithLinks(r, i, k), i, k)
      BY Zenon, <2>1, <2>2, <2>4, LinksFacts
    <3>2. CASE db' = WithLinks(r, i, k)
      BY Zenon, <2>2, <3>1, <3>2 DEF LinksSet
    <3>3. CASE db' = DeleteBucket(r, i)
      BY Zenon, <2>2, <3>3 DEF DeleteBucket
    <3>4. QED
      BY Zenon, <1>2, <2>5, <3>2, <3>3
  <2>7. QED
    BY Zenon, <1>2, <2>1, <2>2, <2>6, RemovedSticky DEF r
<1>3. QED
  BY Zenon, <1>1, <1>2 DEF Unlink, Fail, Lookup

LEMMA RmdirSticky ==
  ASSUME IInv, NEW c \in Creds, NEW d \in VfsDirs, NEW n \in Names, Rmdir(c, d, n)
  PROVE  StickyStep
<1> DEFINE i == db[d].data[n]
           r == RemoveEntry(db, d, n)
<1>1. CASE UNCHANGED db
  BY Zenon, <1>1, QuietStep
<1>2. CASE ~StickyDenies(c, d, i) /\ Reply(c, "Ok") /\ db' = DeleteBucket(r, i)
  <2>1. d \in DOMAIN db /\ IsDir(db[d]) /\ DbOK(db) /\ i # NoIno
    <3>1. d \in DOMAIN db /\ IsDir(db[d]) /\ DbOK(db) /\ NoIno \notin DOMAIN db
      BY Zenon, VfsSets, NoInoFree DEF IInv
    <3>2. QED
      BY Zenon, <3>1 DEF Rmdir, Found, Lookup, Inodes
  <2>2. DOMAIN r = DOMAIN db /\ EntrySet(db, r, d, n, NoIno)
    BY Zenon, <2>1, RemovedFacts
  <2> HIDE DEF r
  <2>3. \A e \in DOMAIN db \cap DOMAIN db' : db'[e].data = r[e].data
    BY Zenon, <1>2, <2>2 DEF DeleteBucket
  <2>4. QED
    BY <1>2, <2>1, <2>2, <2>3, RemovedSticky DEF r
<1>3. QED
  BY Zenon, <1>1, <1>2 DEF Rmdir, Fail, Lookup

-----------------------------------------------------------------------------
(* Rename with RENAME_EXCHANGE.                                             *)

LEMMA SelfInSubtree ==
  ASSUME NEW i \in Inodes
  PROVE  i \in Subtree(i)
BY Zenon DEF Subtree

LEMMA SetParentFacts ==
  ASSUME NEW f, DbType(f), ModesOK(f), NEW i \in DOMAIN f, NEW d \in DOMAIN f
  PROVE  ParentSet(f, SetParent(f, i, d), i, d)
<1>1. ".." \in AllNames /\ d \in Ino \cup {NoIno}
  BY Zenon DEF AllNames, DbType
<1>2. CASE IsDir(f[i])
  <2>1. SetParent(f, i, d) = PutEntry(f, i, "..", d)
    BY Zenon, <1>2, DirectoryBit DEF SetParent
  <2>2. QED
    <3> DEFINE g == PutEntry(f, i, "..", d)
    <3>1. /\ DbType(g) /\ DOMAIN g = DOMAIN f /\ EntrySet(f, g, i, "..", d)
          /\ \A j \in DOMAIN f : SameAttrs(g[j], f[j]) /\ g[j].size = f[j].size
      <4>1. EntryPut(f, g, i, "..", d)
        BY Zenon, <1>1, PutEntryFacts
      <4>2. QED
        BY Zenon, <4>1 DEF EntryPut
    <3>2. SetParent(f, i, d) = g
      BY Zenon, <2>1
    <3> HIDE DEF g
    <3>3. QED
      BY Zenon, <1>2, <3>1, <3>2 DEF EntrySet, ParentSet
<1>3. CASE ~IsDir(f[i])
  <2>1. SetParent(f, i, d) = f
    BY Zenon, <1>3, DirectoryBit DEF SetParent
  <2>2. QED
    BY Zenon, <1>3, <2>1 DEF SameAttrs, ParentSet
<1>4. QED
  BY Zenon, <1>2, <1>3

(* The database g after an exchange of two names. *)
ExchangeResult(g, od, on, nd, nn, i, t) ==
  /\ DbType(g) /\ DOMAIN g = DOMAIN db
  /\ \A j \in DOMAIN db : SameAttrs(g[j], db[j]) /\ g[j].size = db[j].size
  /\ \A j \in DOMAIN db, m \in Names :
       g[j].data[m] = IF j = od /\ m = on THEN t
                      ELSE IF j = nd /\ m = nn THEN i ELSE db[j].data[m]
  /\ \A j \in DOMAIN db, m \in {".", ".."} :
       \/ g[j].data[m] = db[j].data[m]
       \/ IsDir(db[j]) /\ j \in {i, t} /\ g[j].data[m] \in Ino

LEMMA ExchangedFacts ==
  ASSUME DbOK(db), NEW od \in DOMAIN db, NEW nd \in DOMAIN db, NEW on \in Names,
         NEW nn \in Names, NEW i \in DOMAIN db, NEW t \in DOMAIN db,
         db[od].data[on] = i, i # t
  PROVE  ExchangeResult(Exchanged(od, on, nd, nn, t), od, on, nd, nn, i, t)
<1> DEFINE s1 == PutEntry(db, nd, nn, i)
           s2 == PutEntry(s1, od, on, t)
           s3 == IF Has(db[i].mode, S_IFDIR) THEN PutEntry(s2, i, ".", nd) ELSE s2
           g == SetParent(s3, t, od)
<1>1. /\ DbType(db) /\ DOMAIN db \subseteq Ino
      /\ on \in AllNames /\ nn \in AllNames /\ "." \in AllNames /\ ".." \in AllNames
      /\ on \notin {".", ".."} /\ nn \notin {".", ".."}
  BY Zenon, ConstantsAssumption DEF DbOK, DbType, AllNames
<1>2. /\ DbType(s1) /\ DOMAIN s1 = DOMAIN db /\ EntrySet(db, s1, nd, nn, i)
      /\ \A j \in DOMAIN db : SameAttrs(s1[j], db[j]) /\ s1[j].size = db[j].size
  BY <1>1, PutEntryFacts DEF EntryPut
<1> HIDE DEF s1
<1>3. /\ DbType(s2) /\ DOMAIN s2 = DOMAIN s1 /\ EntrySet(s1, s2, od, on, t)
      /\ \A j \in DOMAIN s1 : SameAttrs(s2[j], s1[j]) /\ s2[j].size = s1[j].size
  BY <1>1, <1>2, PutEntryFacts DEF EntryPut
<1> HIDE DEF s2
<1>4. Has(db[i].mode, S_IFDIR) <=> IsDir(db[i])
  BY Zenon, DirectoryBit DEF DbOK
<1>5. /\ DbType(s3) /\ DOMAIN s3 = DOMAIN db
      /\ \A j \in DOMAIN db : SameAttrs(s3[j], s2[j]) /\ s3[j].size = s2[j].size
      /\ \A j \in DOMAIN db, m \in AllNames :
           s3[j].data[m] = IF IsDir(db[i]) /\ j = i /\ m = "." THEN nd ELSE s2[j].data[m]
  <2>1. CASE IsDir(db[i])
    <3> DEFINE q == PutEntry(s2, i, ".", nd)
    <3>1. DbType(s2) /\ i \in DOMAIN s2 /\ nd \in Ino \cup {NoIno} /\ DOMAIN s2 = DOMAIN db
      BY Zenon, <1>1, <1>2, <1>3
    <3>2. /\ DbType(q) /\ DOMAIN q = DOMAIN s2 /\ EntrySet(s2, q, i, ".", nd)
          /\ \A j \in DOMAIN s2 : SameAttrs(q[j], s2[j]) /\ q[j].size = s2[j].size
      BY <1>1, <3>1, PutEntryFacts DEF EntryPut
    <3>3. s3 = q
      BY Zenon, <1>4, <2>1
    <3> HIDE DEF q, s3
    <3>4. QED
      BY <2>1, <3>1, <3>2, <3>3 DEF EntrySet
  <2>2. CASE ~IsDir(db[i])
    <3>1. s3 = s2
      BY Zenon, <1>4, <2>2
    <3>2. QED
      BY Zenon, <1>2, <1>3, <2>2, <3>1 DEF SameAttrs
  <2>3. QED
    BY Zenon, <2>1, <2>2
<1> HIDE DEF s3
<1>6. \A j \in DOMAIN db : /\ SameAttrs(s3[j], db[j]) /\ s3[j].size = db[j].size
                           /\ IsDir(s3[j]) <=> IsDir(db[j])
  BY <1>2, <1>3, <1>5 DEF SameAttrs, IsDir
<1>7. ModesOK(s3)
  BY <1>5, <1>6 DEF DbOK, DbType, ModesOK, SameAttrs
<1>8. /\ DbType(g) /\ DOMAIN g = DOMAIN db
      /\ \A j \in DOMAIN db : SameAttrs(g[j], s3[j]) /\ g[j].size = s3[j].size
      /\ \A j \in DOMAIN db, m \in AllNames :
           g[j].data[m] = IF IsDir(s3[t]) /\ j = t /\ m = ".." THEN od ELSE s3[j].data[m]
  BY <1>5, <1>7, SetParentFacts DEF ParentSet
<1>9. g = Exchanged(od, on, nd, nn, t)
  BY Zenon DEF Exchanged, Lookup, g, s3, s2, s1
<1> HIDE DEF g
<1>10. \A j \in DOMAIN db : SameAttrs(g[j], db[j]) /\ g[j].size = db[j].size
  BY <1>6, <1>8 DEF SameAttrs
<1>11. ASSUME NEW j \in DOMAIN db, NEW m \in Names
       PROVE  g[j].data[m] = IF j = od /\ m = on THEN t
                             ELSE IF j = nd /\ m = nn THEN i ELSE db[j].data[m]
  <2>1. m \in AllNames /\ m # "." /\ m # ".."
    BY Zenon, ConstantsAssumption DEF AllNames
  <2>2. QED
    BY <1>2, <1>3, <1>5, <1>8, <2>1 DEF EntrySet
<1>12. ASSUME NEW j \in DOMAIN db, NEW m \in {".", ".."}
       PROVE  \/ g[j].data[m] = db[j].data[m]
              \/ IsDir(db[j]) /\ j \in {i, t} /\ g[j].data[m] \in Ino
  <2>1. s2[j].data[m] = db[j].data[m]
    BY <1>1, <1>2, <1>3 DEF EntrySet
  <2>2. QED
    BY <1>1, <1>5, <1>6, <1>8, <2>1
<1>13. QED
  BY <1>8, <1>9, <1>10, <1>11, <1>12 DEF ExchangeResult

LEMMA ExchangedOK ==
  ASSUME DbOK(db), NEW od \in DOMAIN db, NEW nd \in DOMAIN db, NEW on \in Names,
         NEW nn \in Names, NEW i \in DOMAIN db, NEW t \in DOMAIN db,
         db[od].data[on] = i, db[nd].data[nn] = t, i # t, nd # i, od # t
  PROVE  DbOK(Exchanged(od, on, nd, nn, t))
<1> DEFINE g == Exchanged(od, on, nd, nn, t)
<1>1. ExchangeResult(g, od, on, nd, nn, i, t)
  BY Zenon, ExchangedFacts
<1> HIDE DEF g
<1>dom. DbType(g) /\ DOMAIN g = DOMAIN db
  BY Zenon, <1>1 DEF ExchangeResult
<1>attr. \A j \in DOMAIN db : SameAttrs(g[j], db[j]) /\ g[j].size = db[j].size
  BY Zenon, <1>1 DEF ExchangeResult
<1>name. \A j \in DOMAIN db, m \in Names :
           g[j].data[m] = IF j = od /\ m = on THEN t
                          ELSE IF j = nd /\ m = nn THEN i ELSE db[j].data[m]
  BY Zenon, <1>1 DEF ExchangeResult
<1>dot. \A j \in DOMAIN db, m \in {".", ".."} :
          \/ g[j].data[m] = db[j].data[m]
          \/ IsDir(db[j]) /\ j \in {i, t} /\ g[j].data[m] \in Ino
  BY Zenon, <1>1 DEF ExchangeResult
<1>2. \A j \in DOMAIN db : g[j].mode = db[j].mode /\ (IsDir(g[j]) <=> IsDir(db[j]))
  BY Zenon, <1>attr DEF SameAttrs, IsDir
<1>3. NoIno \notin Ino /\ DOMAIN db \subseteq Ino
  BY DEF DbOK, DbType, Ino, NoIno
<1>4. i # RootIno /\ t # RootIno
  BY Zenon, <1>3 DEF DbOK, NamesOK
<1>5. \A j \in DOMAIN db : \A m \in AllNames : g[j].data[m] # NoIno <=> db[j].data[m] # NoIno
  <2>1. ASSUME NEW j \in DOMAIN db, NEW m \in Names
        PROVE  g[j].data[m] # NoIno <=> db[j].data[m] # NoIno
    BY <1>name, <1>3
  <2>2. ASSUME NEW j \in DOMAIN db, NEW m \in {".", ".."}
        PROVE  g[j].data[m] # NoIno <=> db[j].data[m] # NoIno
    BY <1>dot, <1>3, <1>4 DEF DbOK, DotsOK
  <2>3. QED
    BY Zenon, <2>1, <2>2 DEF AllNames
<1>6. ModesOK(g)
  BY Zenon, <1>dom, <1>2 DEF DbOK, DbType, ModesOK
<1>7. DotsOK(g)
  BY <1>dom, <1>2, <1>5 DEF DbOK, DotsOK, AllNames
<1>8. NamesOK(g)
  BY <1>dom, <1>name, <1>4 DEF DbOK, NamesOK
<1>9. SizesOK(g)
  <2>1. ASSUME NEW j \in DOMAIN db PROVE Entries(g[j]) = Entries(db[j])
    BY Zenon, <1>5 DEF Entries
  <2>2. QED
    BY Zenon, <1>dom, <1>attr, <1>2, <2>1 DEF DbOK, SizesOK
<1>10. LinksOK(g)
  <2>1. ASSUME NEW j \in DOMAIN db PROVE Cardinality(Refs(g, j)) <= LinkBound(g[j])
    <3>1. LinkBound(g[j]) = LinkBound(db[j])
      BY Zenon, <1>attr, <1>2 DEF LinkBound, SameAttrs
    <3>2. <<od, on>> \in Refs(db, i) /\ <<nd, nn>> \in Refs(db, t)
      BY Zenon DEF Refs
    <3>3. CASE j = i
      <4>1. Refs(g, j) \subseteq (Refs(db, j) \ {<<od, on>>}) \cup {<<nd, nn>>}
        BY <1>dom, <1>name, <3>3 DEF Refs
      <4>2. QED
        BY Zenon, <3>1, <3>2, <3>3, <4>1, RefsBounds
    <3>4. CASE j = t
      <4>1. Refs(g, j) \subseteq (Refs(db, j) \ {<<nd, nn>>}) \cup {<<od, on>>}
        BY <1>dom, <1>name, <3>4 DEF Refs
      <4>2. QED
        BY Zenon, <3>1, <3>2, <3>4, <4>1, RefsBounds
    <3>5. CASE j \notin {i, t}
      <4>1. Refs(g, j) \subseteq Refs(db, j)
        BY <1>dom, <1>name, <3>5 DEF Refs
      <4>2. QED
        BY Zenon, <3>1, <4>1, RefsBounds
    <3>6. QED
      BY Zenon, <3>3, <3>4, <3>5
  <2>2. QED
    BY Zenon, <1>dom, <2>1 DEF LinksOK, LinkBound
<1>11. QED
  BY Zenon, <1>dom, <1>6, <1>7, <1>8, <1>9, <1>10 DEF DbOK, g

-----------------------------------------------------------------------------
(* Rename without RENAME_EXCHANGE.                                          *)

(* The size that a move leaves in the new directory. *)
MovedSize(od, nd, t) ==
  LET left == IF t = NoIno THEN db[nd].size ELSE db[nd].size - 1
  IN IF od = nd THEN left ELSE left + 1

(* The database g after a move. *)
MoveResult(g, od, on, nd, nn, i, t) ==
  /\ DbType(g) /\ DOMAIN g = DOMAIN db \ {t}
  /\ \A j \in DOMAIN g : SameAttrs(g[j], db[j])
  /\ \A j \in DOMAIN g : g[j].size = IF j = nd THEN MovedSize(od, nd, t)
                                     ELSE IF j = od THEN db[j].size - 1 ELSE db[j].size
  /\ \A j \in DOMAIN g, m \in Names :
       g[j].data[m] = IF j = nd /\ m = nn THEN i
                      ELSE IF j = od /\ m = on THEN NoIno ELSE db[j].data[m]
  /\ \A j \in DOMAIN g, m \in {".", ".."} :
       g[j].data[m] = IF IsDir(db[i]) /\ j = i /\ m = ".." THEN nd ELSE db[j].data[m]

LEMMA MovedFacts ==
  ASSUME DbOK(db), NEW od \in DOMAIN db, NEW nd \in DOMAIN db, NEW on \in Names,
         NEW nn \in Names, NEW i \in DOMAIN db, NEW t \in (DOMAIN db \ {RootIno}) \cup {NoIno},
         db[od].data[on] = i, IsDir(db[od]), IsDir(db[nd]),
         t # i, t # od, t # nd, t # NoIno => db[nd].data[nn] = t
  PROVE  MoveResult(Moved(od, on, nd, nn, t), od, on, nd, nn, i, t)
<1> DEFINE q == PutEntry(db, nd, nn, NoIno)
           gone == IF t = NoIno THEN db ELSE DeleteBucket(q, t)
           left == IF t = NoIno THEN db[nd].size ELSE db[nd].size - 1
           r == RemoveEntry(gone, od, on)
           put == PutEntry(r, nd, nn, i)
           k == IF od = nd THEN left ELSE left + 1
           sized == WithSize(put, nd, k)
           g == SetParent(sized, i, nd)
<1>1. /\ DbType(db) /\ DOMAIN db \subseteq Ino /\ NoIno \notin DOMAIN db
      /\ on \in AllNames /\ nn \in AllNames /\ "." \in AllNames /\ ".." \in AllNames
      /\ on \notin {".", ".."} /\ nn \notin {".", ".."}
  BY ConstantsAssumption DEF DbOK, DbType, AllNames, Ino, NoIno
<1>2. on \in Entries(db[od]) /\ (t # NoIno => nn \in Entries(db[nd]))
  BY Zenon, <1>1 DEF Entries
<1>3. /\ db[od].size \in Nat /\ db[od].size > 0
      /\ db[nd].size \in Nat /\ (t # NoIno => db[nd].size > 0)
  BY Zenon, <1>2, EntriesBounds
<1>4. /\ DbType(q) /\ DOMAIN q = DOMAIN db /\ EntrySet(db, q, nd, nn, NoIno)
      /\ \A j \in DOMAIN db : SameAttrs(q[j], db[j]) /\ q[j].size = db[j].size
  <2>1. DbType(db) /\ nn \in AllNames /\ NoIno \in Ino \cup {NoIno}
    BY Zenon, <1>1
  <2>2. EntryPut(db, q, nd, nn, NoIno)
    BY Zenon, <2>1, PutEntryFacts
  <2>3. QED
    BY Zenon, <2>2 DEF EntryPut
<1> HIDE DEF q
<1>5. /\ DbType(gone) /\ DOMAIN gone = DOMAIN db \ {t}
      /\ \A j \in DOMAIN gone : SameAttrs(gone[j], db[j]) /\ gone[j].size = db[j].size
      /\ \A j \in DOMAIN gone, m \in AllNames :
           gone[j].data[m] = IF t # NoIno /\ j = nd /\ m = nn THEN NoIno ELSE db[j].data[m]
  <2>1. CASE t = NoIno
    BY Zenon, <1>1, <2>1 DEF SameAttrs
  <2>2. CASE t # NoIno
    <3> DEFINE x == DeleteBucket(q, t)
    <3>1. t \in DOMAIN q \ {RootIno}
      BY Zenon, <1>4, <2>2
    <3>2. DbType(x) /\ DOMAIN x = DOMAIN q \ {t} /\ \A j \in DOMAIN q \ {t} : x[j] = q[j]
      BY Zenon, <1>4, <3>1, DeleteBucketFacts
    <3>3. gone = x
      BY Zenon, <2>2
    <3> HIDE DEF x, gone
    <3>4. QED
      BY <1>4, <2>2, <3>2, <3>3 DEF EntrySet
  <2>3. QED
    BY Zenon, <2>1, <2>2
<1> HIDE DEF gone
<1>6. od \in DOMAIN gone /\ nd \in DOMAIN gone /\ i \in DOMAIN gone /\ gone[od].size > 0
  BY Zenon, <1>3, <1>5
<1>7. /\ DbType(r) /\ DOMAIN r = DOMAIN gone /\ EntrySet(gone, r, od, on, NoIno)
      /\ \A j \in DOMAIN gone :
           /\ SameAttrs(r[j], gone[j])
           /\ r[j].size = IF j = od THEN gone[j].size - 1 ELSE gone[j].size
  <2>1. EntryRemoved(gone, r, od, on)
    BY Zenon, <1>1, <1>5, <1>6, RemoveEntryFacts
  <2>2. QED
    BY Zenon, <2>1 DEF EntryRemoved
<1> HIDE DEF r
<1>8. /\ DbType(put) /\ DOMAIN put = DOMAIN r /\ EntrySet(r, put, nd, nn, i)
      /\ \A j \in DOMAIN r : SameAttrs(put[j], r[j]) /\ put[j].size = r[j].size
  <2>1. nd \in DOMAIN r /\ i \in Ino \cup {NoIno}
    BY Zenon, <1>1, <1>6, <1>7
  <2>2. EntryPut(r, put, nd, nn, i)
    BY Zenon, <1>1, <1>7, <2>1, PutEntryFacts
  <2>3. QED
    BY Zenon, <2>2 DEF EntryPut
<1> HIDE DEF put
<1>9. k \in Nat /\ k = MovedSize(od, nd, t)
  BY <1>3 DEF MovedSize
<1> HIDE DEF left, k
<1>10. /\ DbType(sized) /\ DOMAIN sized = DOMAIN put
       /\ \A j \in DOMAIN put :
            /\ SameAttrs(sized[j], put[j]) /\ sized[j].data = put[j].data
            /\ sized[j].size = IF j = nd THEN k ELSE put[j].size
  <2>1. nd \in DOMAIN put
    BY Zenon, <1>6, <1>7, <1>8
  <2>2. Sized(put, sized, nd, k)
    BY Zenon, <1>8, <1>9, <2>1, SizeFacts
  <2>3. QED
    BY Zenon, <2>2 DEF Sized
<1> HIDE DEF sized
<1>11. DOMAIN sized = DOMAIN gone /\ \A j \in DOMAIN sized : SameAttrs(sized[j], db[j])
  BY <1>5, <1>7, <1>8, <1>10 DEF SameAttrs
<1>12. ModesOK(sized) /\ (IsDir(sized[i]) <=> IsDir(db[i]))
  <2>1. RootIno \in DOMAIN sized
    BY <1>5, <1>11 DEF DbOK, ModesOK, NoIno, RootIno
  <2>2. QED
    BY SMTT(60), <1>5, <1>6, <1>10, <1>11, <2>1 DEF DbOK, DbType, ModesOK, SameAttrs, IsDir
<1>13. /\ DbType(g) /\ DOMAIN g = DOMAIN sized
       /\ \A j \in DOMAIN sized : SameAttrs(g[j], sized[j]) /\ g[j].size = sized[j].size
       /\ \A j \in DOMAIN sized, m \in AllNames :
            g[j].data[m] = IF IsDir(sized[i]) /\ j = i /\ m = ".." THEN nd ELSE sized[j].data[m]
  <2>1. DbType(sized) /\ ModesOK(sized) /\ i \in DOMAIN sized /\ nd \in DOMAIN sized
    BY Zenon, <1>6, <1>10, <1>11, <1>12
  <2>2. ParentSet(sized, g, i, nd)
    BY Zenon, <2>1, SetParentFacts
  <2>3. QED
    BY Zenon, <2>2 DEF ParentSet
<1>14. g = Moved(od, on, nd, nn, t)
  <2>1. Lookup(od, on) = i
    BY Zenon DEF Lookup
  <2>2. QED
    BY Zenon, <2>1 DEF Moved, WithSize, g, sized, k, left, put, r, gone, q
<1> HIDE DEF g
<1>15. DOMAIN g = DOMAIN db \ {t} /\ \A j \in DOMAIN g : SameAttrs(g[j], db[j])
  BY <1>5, <1>11, <1>13 DEF SameAttrs
<1>16. \A j \in DOMAIN g : g[j].size = IF j = nd THEN MovedSize(od, nd, t)
                                       ELSE IF j = od THEN db[j].size - 1 ELSE db[j].size
  <2>1. ASSUME NEW j \in DOMAIN g PROVE j \in DOMAIN gone /\ j \in DOMAIN r /\ j \in DOMAIN put
    BY <1>7, <1>8, <1>11, <1>13
  <2>2. ASSUME NEW j \in DOMAIN g PROVE g[j].size = IF j = nd THEN k ELSE put[j].size
    BY Zenon, <1>10, <1>13, <2>1
  <2>3. ASSUME NEW j \in DOMAIN g
        PROVE  put[j].size = IF j = od THEN db[j].size - 1 ELSE db[j].size
    <3>1. put[j].size = r[j].size
      BY Zenon, <1>8, <2>1
    <3>2. r[j].size = IF j = od THEN gone[j].size - 1 ELSE gone[j].size
      BY Zenon, <1>7, <2>1
    <3>3. gone[j].size = db[j].size
      BY Zenon, <1>5, <2>1
    <3>4. QED
      BY Zenon, <3>1, <3>2, <3>3
  <2>4. QED
    BY Zenon, <1>9, <2>2, <2>3
<1>17. ASSUME NEW j \in DOMAIN g, NEW m \in AllNames
       PROVE  sized[j].data[m] = IF j = nd /\ m = nn THEN i
                                 ELSE IF j = od /\ m = on THEN NoIno ELSE db[j].data[m]
  <2>1. j \in DOMAIN gone /\ j \in DOMAIN r /\ j \in DOMAIN put
    BY Zenon, <1>7, <1>8, <1>11, <1>13
  <2>2. sized[j].data[m] = IF j = nd /\ m = nn THEN i ELSE r[j].data[m]
    BY <1>8, <1>10, <2>1 DEF EntrySet
  <2>3. r[j].data[m] = IF j = od /\ m = on THEN NoIno ELSE gone[j].data[m]
    BY Zenon, <1>7, <2>1 DEF EntrySet
  <2>4. QED
    BY Zenon, <1>5, <2>1, <2>2, <2>3
<1>18. \A j \in DOMAIN g, m \in Names :
         g[j].data[m] = IF j = nd /\ m = nn THEN i
                        ELSE IF j = od /\ m = on THEN NoIno ELSE db[j].data[m]
  BY <1>13, <1>17, ConstantsAssumption DEF AllNames
<1>19. \A j \in DOMAIN g, m \in {".", ".."} :
         g[j].data[m] = IF IsDir(db[i]) /\ j = i /\ m = ".." THEN nd ELSE db[j].data[m]
  BY <1>1, <1>12, <1>13, <1>17
<1>20. QED
  BY <1>13, <1>14, <1>15, <1>16, <1>18, <1>19 DEF MoveResult

LEMMA MovedOK ==
  ASSUME DbOK(db), NEW od \in DOMAIN db, NEW nd \in DOMAIN db, NEW on \in Names,
         NEW nn \in Names, NEW i \in DOMAIN db, NEW t \in (DOMAIN db \ {RootIno}) \cup {NoIno},
         db[od].data[on] = i, IsDir(db[od]), IsDir(db[nd]),
         i # nd, db[nd].data[nn] # i, t # od, t # nd,
         t # NoIno => db[nd].data[nn] = t /\ IsDir(db[t])
  PROVE  DbOK(Moved(od, on, nd, nn, t))
<1> DEFINE g == Moved(od, on, nd, nn, t)
<1>1. DOMAIN db \subseteq Ino /\ NoIno \notin Ino
  BY DEF DbOK, DbType, Ino, NoIno
<1>2. i # NoIno /\ i # RootIno /\ i # od /\ i # t
  BY Zenon, <1>1 DEF DbOK, NamesOK
<1>3. MoveResult(g, od, on, nd, nn, i, t)
  BY Zenon, <1>2, MovedFacts
<1> HIDE DEF g
<1>dom. DbType(g) /\ DOMAIN g = DOMAIN db \ {t}
  BY Zenon, <1>3 DEF MoveResult
<1>attr. \A j \in DOMAIN g : SameAttrs(g[j], db[j])
  BY Zenon, <1>3 DEF MoveResult
<1>size. \A j \in DOMAIN g : g[j].size = IF j = nd THEN MovedSize(od, nd, t)
                                         ELSE IF j = od THEN db[j].size - 1 ELSE db[j].size
  BY Zenon, <1>3 DEF MoveResult
<1>name. \A j \in DOMAIN g, m \in Names :
           g[j].data[m] = IF j = nd /\ m = nn THEN i
                          ELSE IF j = od /\ m = on THEN NoIno ELSE db[j].data[m]
  BY Zenon, <1>3 DEF MoveResult
<1>dot. \A j \in DOMAIN g, m \in {".", ".."} :
          g[j].data[m] = IF IsDir(db[i]) /\ j = i /\ m = ".." THEN nd ELSE db[j].data[m]
  BY Zenon, <1>3 DEF MoveResult
<1>4. /\ \A j \in DOMAIN g : g[j].mode = db[j].mode /\ (IsDir(g[j]) <=> IsDir(db[j]))
      /\ DOMAIN g \subseteq DOMAIN db /\ od \in DOMAIN g /\ nd \in DOMAIN g /\ i \in DOMAIN g
  BY Zenon, <1>2, <1>dom, <1>attr DEF SameAttrs, IsDir
<1>5. ModesOK(g)
  BY Zenon, <1>1, <1>dom, <1>4 DEF DbOK, DbType, ModesOK, NoIno, RootIno
<1>6. DotsOK(g)
  <2>1. ASSUME NEW j \in DOMAIN g, ~IsDir(g[j]), NEW m \in AllNames
        PROVE  g[j].data[m] = NoIno
    <3>1. j # nd /\ j # od /\ db[j].data[m] = NoIno
      BY Zenon, <1>4, <2>1 DEF DbOK, DotsOK
    <3>2. IsDir(db[i]) => j # i
      BY Zenon, <1>4, <2>1
    <3>3. m \in Names \/ m \in {".", ".."}
      BY Zenon DEF AllNames
    <3>4. QED
      BY Zenon, <1>name, <1>dot, <3>1, <3>2, <3>3
  <2>2. ASSUME NEW j \in DOMAIN g, IsDir(g[j]), j # RootIno
        PROVE  g[j].data["."] # NoIno /\ g[j].data[".."] # NoIno
    BY <1>1, <1>dot, <1>4, <2>2 DEF DbOK, DotsOK
  <2>3. QED
    BY Zenon, <2>1, <2>2 DEF DotsOK
<1>7. NamesOK(g)
  <2>1. ASSUME NEW e \in DOMAIN g, NEW m \in Names, g[e].data[m] # NoIno
        PROVE  g[e].data[m] \in DOMAIN g \ {RootIno, e}
    <3>1. CASE e = nd /\ m = nn
      BY Zenon, <1>2, <1>name, <1>4, <3>1
    <3>2. CASE ~(e = nd /\ m = nn)
      <4>1. g[e].data[m] = db[e].data[m]
        BY Zenon, <1>name, <2>1, <3>2
      <4>2. db[e].data[m] \in DOMAIN db \ {RootIno, e}
        BY Zenon, <1>4, <2>1, <4>1 DEF DbOK, NamesOK
      <4>3. db[e].data[m] # t
        <5>1. SUFFICES ASSUME db[e].data[m] = t PROVE FALSE
          OBVIOUS
        <5>2. t \in DOMAIN db /\ t # NoIno
          BY Zenon, <1>1, <4>2, <5>1
        <5>3. LinkBound(db[t]) <= 1
          BY <5>2 DEF LinkBound
        <5>4. e = nd /\ m = nn
          BY <1>4, <5>1, <5>2, <5>3, OnlyName
        <5>5. QED
          BY Zenon, <3>2, <5>4
      <4>4. QED
        BY Zenon, <1>dom, <4>1, <4>2, <4>3
    <3>3. QED
      BY Zenon, <3>1, <3>2
  <2>2. QED
    BY Zenon, <2>1 DEF NamesOK
<1>8. SizesOK(g)
  <2>1. ASSUME NEW j \in DOMAIN g, IsDir(g[j]) PROVE Cardinality(Entries(g[j])) <= g[j].size
    <3>1. j \in DOMAIN db /\ IsDir(db[j])
      BY Zenon, <1>4, <2>1
    <3>2. \A m \in AllNames : m \in {".", ".."} \/ m \in Names
      BY Zenon DEF AllNames
    <3>3. on \in Entries(db[od]) /\ on \in AllNames
      BY Zenon, <1>2 DEF Entries, AllNames
    <3>4. \A m \in {".", ".."} : g[j].data[m] # NoIno => db[j].data[m] # NoIno
      BY Zenon, <1>2, <1>dot, <3>1 DEF DbOK, DotsOK
    <3>5. CASE j = nd
      <4>1. Entries(g[j]) \subseteq Entries(db[j]) \cup {nn}
        BY <1>name, <3>2, <3>4, <3>5 DEF Entries
      <4>2. t # NoIno => nn \in Entries(db[j])
        BY Zenon, <3>5 DEF Entries, AllNames
      <4>3. CASE od # nd /\ t = NoIno
        <5>1. db[j].size \in Nat /\ Cardinality(Entries(g[j])) <= db[j].size + 1
          BY Zenon, <3>1, <4>1, EntriesBounds
        <5>2. g[j].size = db[j].size + 1
          BY Zenon, <1>size, <3>5, <4>3 DEF MovedSize
        <5>3. QED
          BY Zenon, <5>1, <5>2
      <4>4. CASE od # nd /\ t # NoIno
        <5>1. Entries(g[j]) \subseteq Entries(db[j])
          BY Zenon, <4>1, <4>2, <4>4
        <5>2. db[j].size \in Nat /\ Cardinality(Entries(g[j])) <= db[j].size
          BY Zenon, <3>1, <5>1, EntriesBounds
        <5>3. g[j].size = db[j].size - 1 + 1
          BY Zenon, <1>size, <3>5, <4>4 DEF MovedSize
        <5>4. QED
          BY <5>2, <5>3
      <4>5. CASE od = nd
        <5>1. on # nn
          BY Zenon, <4>5
        <5>2. Entries(g[j]) \subseteq (Entries(db[j]) \ {on}) \cup {nn}
          BY SMTT(60), <1>name, <3>2, <3>4, <3>5, <4>5, <5>1, ConstantsAssumption DEF Entries
        <5>3. CASE t = NoIno
          <6>1. Cardinality(Entries(g[j])) <= Cardinality(Entries(db[j]))
            BY <3>3, <3>5, <4>5, <5>2, EntriesFinite, CardSwap
          <6>2. Cardinality(Entries(g[j])) \in Nat /\ Cardinality(Entries(db[j])) \in Nat
            BY Zenon, EntriesFinite, FS_CardinalityType
          <6>3. Cardinality(Entries(db[j])) <= db[j].size /\ db[j].size \in Nat
            BY Zenon, <3>1, EntriesBounds
          <6>4. g[j].size = db[j].size
            BY Zenon, <1>size, <3>5, <4>5, <5>3 DEF MovedSize
          <6>5. QED
            BY <6>1, <6>2, <6>3, <6>4
        <5>4. CASE t # NoIno
          <6>1. Entries(g[j]) \subseteq Entries(db[j]) \ {on}
            BY Zenon, <4>2, <5>1, <5>2, <5>4
          <6>2. Cardinality(Entries(g[j])) <= db[j].size - 1
            BY <3>1, <3>3, <3>5, <4>5, <6>1, EntriesBounds
          <6>3. g[j].size = db[j].size - 1
            BY Zenon, <1>size, <3>5, <4>5, <5>4 DEF MovedSize
          <6>4. QED
            BY Zenon, <6>2, <6>3
        <5>5. QED
          BY Zenon, <5>3, <5>4
      <4>6. QED
        BY Zenon, <4>3, <4>4, <4>5
    <3>6. CASE j = od /\ j # nd
      <4>1. Entries(g[j]) \subseteq Entries(db[j]) \ {on}
        BY <1>name, <3>2, <3>4, <3>6, ConstantsAssumption DEF Entries
      <4>2. Cardinality(Entries(g[j])) <= db[j].size - 1
        BY <3>1, <3>3, <3>6, <4>1, EntriesBounds
      <4>3. QED
        BY Zenon, <1>size, <3>6, <4>2
    <3>7. CASE j # od /\ j # nd
      <4>1. Entries(g[j]) \subseteq Entries(db[j])
        BY Zenon, <1>name, <3>2, <3>4, <3>7 DEF Entries
      <4>2. Cardinality(Entries(g[j])) <= db[j].size
        BY Zenon, <3>1, <4>1, EntriesBounds
      <4>3. QED
        BY Zenon, <1>size, <3>7, <4>2
    <3>8. QED
      BY Zenon, <3>5, <3>6, <3>7
  <2>2. QED
    BY Zenon, <2>1 DEF SizesOK
<1>9. LinksOK(g)
  <2>1. ASSUME NEW j \in DOMAIN g PROVE Cardinality(Refs(g, j)) <= LinkBound(g[j])
    <3>1. LinkBound(g[j]) = LinkBound(db[j]) /\ j \in DOMAIN db /\ j # NoIno
      BY Zenon, <1>1, <1>attr, <1>4 DEF LinkBound, SameAttrs
    <3>2. CASE j = i
      <4>1. <<od, on>> \in Refs(db, j)
        BY Zenon, <3>2 DEF Refs
      <4>2. Refs(g, j) \subseteq (Refs(db, j) \ {<<od, on>>}) \cup {<<nd, nn>>}
        BY <1>name, <1>4, <3>1, <3>2 DEF Refs
      <4>3. QED
        BY Zenon, <3>1, <4>1, <4>2, RefsBounds
    <3>3. CASE j # i
      <4>1. Refs(g, j) \subseteq Refs(db, j)
        BY <1>name, <1>4, <3>1, <3>3 DEF Refs
      <4>2. QED
        BY Zenon, <3>1, <4>1, RefsBounds
    <3>4. QED
      BY Zenon, <3>2, <3>3
  <2>2. QED
    BY Zenon, <2>1 DEF LinksOK, LinkBound
<1>10. QED
  BY Zenon, <1>dom, <1>5, <1>6, <1>7, <1>8, <1>9 DEF DbOK, g

-----------------------------------------------------------------------------
(* Rename.  What the kernel rules out keeps the directories apart.          *)
(* A rename's inode i, its target t and the directories are all there and   *)
(* apart.                                                                   *)
Apart(od, nd, i, t) ==
  /\ od \in DOMAIN db /\ IsDir(db[od]) /\ nd \in DOMAIN db /\ IsDir(db[nd])
  /\ i \in DOMAIN db /\ t \in DOMAIN db \cup {NoIno}
  /\ i # t /\ i # nd /\ t # od /\ t # RootIno /\ t # nd

LEMMA RenameApart ==
  ASSUME IInv, NEW od \in VfsDirs, NEW on \in Names, NEW nd \in VfsDirs, NEW nn \in Names,
         NEW flag, VfsRename(od, on, nd, nn, flag)
  PROVE  Apart(od, nd, db[od].data[on], db[nd].data[nn])
<1> DEFINE i == db[od].data[on]
           t == db[nd].data[nn]
<1>1. /\ od \in DOMAIN db /\ IsDir(db[od]) /\ nd \in DOMAIN db /\ IsDir(db[nd])
      /\ od \in Dirs /\ nd \in Dirs
  BY Zenon, VfsSets
<1>2. /\ i \in DOMAIN db /\ t \in DOMAIN db \cup {NoIno} /\ i # t
      /\ i \in Dirs => nd \notin Subtree(i)
      /\ t \in Dirs => od \notin Subtree(t)
  BY Zenon DEF VfsRename, Lookup, Found, Absent, Inodes
<1>3. i # nd
  BY Zenon, <1>1, <1>2, SelfInSubtree DEF Inodes
<1>4. t # od
  BY Zenon, <1>1, <1>2, SelfInSubtree DEF Inodes
<1>5. t # RootIno /\ t # nd
  <2>1. t # NoIno => t \in DOMAIN db \ {RootIno, nd}
    BY Zenon, <1>1 DEF IInv, DbOK, NamesOK
  <2>2. NoIno # RootIno /\ NoIno # nd
    BY <1>1 DEF IInv, DbOK, DbType, Ino, NoIno, RootIno
  <2>3. QED
    BY Zenon, <2>1, <2>2
<1>6. QED
  BY Zenon, <1>1, <1>2, <1>3, <1>4, <1>5 DEF Apart

LEMMA ExchangeStep ==
  ASSUME IInv, NEW c \in Creds, NEW od \in VfsDirs, NEW on \in Names,
         NEW nd \in VfsDirs, NEW nn \in Names, RenameExchange(c, od, on, nd, nn)
  PROVE  Preserved
<1> DEFINE i == db[od].data[on]
           t == RenameTarget(nd, nn)
<1>1. num' \in 1 .. MaxIno + 1 /\ "AccessError" \in Results /\ "NotFound" \in Results
  BY Zenon DEF RenameExchange, IInv, Results
<1>2. CASE Fail(c, "AccessError") \/ Fail(c, "NotFound")
  BY Zenon, <1>1, <1>2, FailStep
<1>3. CASE t # NoIno /\ Reply(c, "Ok") /\ db' = Exchanged(od, on, nd, nn, t)
  <2>1. VfsRename(od, on, nd, nn, "EXCHANGE")
    BY Zenon DEF RenameExchange
  <2>apart. Apart(od, nd, i, db[nd].data[nn])
    BY Zenon, <2>1, RenameApart
  <2>2. t = db[nd].data[nn]
    BY Zenon, <1>3 DEF RenameTarget, Lookup
  <2> HIDE DEF t
  <2>3. /\ od \in DOMAIN db /\ nd \in DOMAIN db /\ i \in DOMAIN db /\ t \in DOMAIN db
        /\ i # t /\ i # nd /\ t # od
    BY Zenon, <1>3, <2>2, <2>apart DEF Apart
  <2>4. DbOK(db)
    BY Zenon DEF IInv
  <2>5. DbOK(db')
    BY Zenon, <1>3, <2>2, <2>3, <2>4, ExchangedOK
  <2>6. DOMAIN db' = DOMAIN db
    <3>1. ExchangeResult(db', od, on, nd, nn, i, t)
      BY Zenon, <1>3, <2>3, <2>4, ExchangedFacts
    <3>2. QED
      BY Zenon, <3>1 DEF ExchangeResult
  <2>7. QED
    BY Zenon, <1>1, <1>3, <2>5, <2>6, OkStep DEF Preserved, EmptyIfDeleted
<1>4. QED
  BY Zenon, <1>2, <1>3 DEF RenameExchange

LEMMA MoveStep ==
  ASSUME IInv, NEW c \in Creds, NEW od \in VfsDirs, NEW on \in Names,
         NEW nd \in VfsDirs, NEW nn \in Names, RenameMove(c, od, on, nd, nn)
  PROVE  Preserved
<1> DEFINE i == db[od].data[on]
           t == RenameTarget(nd, nn)
           overDir == t # NoIno /\ Has(db[t].mode, S_IFDIR)
<1>1. num' \in 1 .. MaxIno + 1 /\ {"AccessError", "NotEmpty", "panic"} \subseteq Results
  BY Zenon DEF RenameMove, IInv, Results
<1>2. CASE Fail(c, "AccessError") \/ Fail(c, "NotEmpty") \/ Fail(c, "panic")
  BY Zenon, <1>1, <1>2, FailStep
<1>3. CASE /\ Reply(c, "Ok") /\ db' = Moved(od, on, nd, nn, t)
           /\ t = NoIno \/ overDir
           /\ ~(overDir /\ NotEmpty(t))
  <2>1. VfsRename(od, on, nd, nn, "NONE")
    BY Zenon DEF RenameMove
  <2>apart. Apart(od, nd, i, db[nd].data[nn])
    BY Zenon, <2>1, RenameApart
  <2>2. t = db[nd].data[nn] \/ t = NoIno
    BY Zenon DEF RenameTarget, Lookup
  <2>3. /\ t = NoIno \/ (t # NoIno /\ Has(db[t].mode, S_IFDIR) /\ db[t].size <= 2)
        /\ Reply(c, "Ok") /\ db' = Moved(od, on, nd, nn, t)
    <3>1. t = NoIno \/ db[t].size \in Nat
      BY <2>2, <2>apart DEF Apart, IInv, DbOK, DbType, Bucket
    <3>2. QED
      BY <1>3, <3>1 DEF NotEmpty
  <2> HIDE DEF t
  <2>4. /\ od \in DOMAIN db /\ IsDir(db[od]) /\ nd \in DOMAIN db /\ IsDir(db[nd])
        /\ i \in DOMAIN db /\ i # nd /\ db[nd].data[nn] # i
    BY Zenon, <2>apart DEF Apart
  <2>5. NoIno # od /\ NoIno # nd /\ NoIno \notin DOMAIN db
    BY <2>4 DEF IInv, DbOK, DbType, Ino, NoIno
  <2>6. t \in (DOMAIN db \ {RootIno}) \cup {NoIno} /\ t # od /\ t # nd
    BY <2>2, <2>5, <2>apart DEF Apart, RootIno, NoIno
  <2>7. t # NoIno => db[nd].data[nn] = t /\ IsDir(db[t])
    BY Zenon, <2>2, <2>3, <2>6, DirectoryBit DEF IInv, DbOK
  <2>8. DbOK(db) /\ t # i
    BY Zenon, <2>2, <2>4, <2>5 DEF IInv
  <2>9. DbOK(db')
    BY <2>3, <2>4, <2>6, <2>7, <2>8, MovedOK
  <2>10. DOMAIN db' = DOMAIN db \ {t}
    <3>1. MoveResult(Moved(od, on, nd, nn, t), od, on, nd, nn, i, t)
      BY Zenon, <2>4, <2>6, <2>7, <2>8, MovedFacts
    <3>2. QED
      BY Zenon, <2>3, <3>1 DEF MoveResult
  <2>11. t # NoIno => \A m \in Names : db[t].data[m] = NoIno
    BY Zenon, <2>3, <2>6, <2>7, <2>8, SmallMeansEmpty
  <2>12. QED
    BY <1>1, <2>3, <2>5, <2>9, <2>10, <2>11, OkStep DEF Preserved, EmptyIfDeleted
<1>4. QED
  BY Zenon, <1>2, <1>3 DEF RenameMove, Lookup

-----------------------------------------------------------------------------
(* The invariant is inductive.                                              *)

LEMMA NextStep ==
  ASSUME PlainTypes, IInv, [Next]_vars
  PROVE  Preserved
<1>1. CASE Restart \/ UNCHANGED vars
  BY Zenon, <1>1, RestartStep
<1>2. ASSUME NEW c \in Creds, NEW d \in VfsDirs, NEW n \in Names,
             \/ \E m \in Modes : Mkdir(c, d, n, m)
             \/ \E m \in Modes, t \in Types \ {S_IFLNK} : Mknod(c, d, n, m, t)
             \/ S_IFLNK \in Types /\ Symlink(c, d, n)
      PROVE  Preserved
  BY Zenon, <1>2, RequestedPerms, CreateStep DEF Mkdir, Mknod, Symlink
<1>3. ASSUME NEW c \in Creds, NEW d \in VfsDirs, NEW n \in Names,
             \/ \E i \in VfsFiles : Link(c, i, d, n)
             \/ Unlink(c, d, n)
             \/ Rmdir(c, d, n)
      PROVE  Preserved
  BY Zenon, <1>3, LinkStep, UnlinkStep, RmdirStep
<1>4. ASSUME NEW c \in Creds, NEW d \in VfsDirs, NEW n \in Names,
             NEW nd \in VfsDirs, NEW nn \in Names, Rename(c, d, n, nd, nn)
      PROVE  Preserved
  BY Zenon, <1>4, MoveStep, ExchangeStep DEF Rename
<1>5. ASSUME NEW c \in Creds, NEW i \in VfsDirs \cup VfsFiles,
             \/ \E m \in ChmodModes : dbfs_common_chmod(c, i, m)
             \/ \E uid, gid \in ChownIds \cup {None} : dbfs_common_chown(c, i, uid, gid)
      PROVE  Preserved
  <2>1. i \in Inodes
    BY Zenon DEF VfsDirs, VfsFiles, Dirs
  <2>2. QED
    BY Zenon, <1>5, <2>1, ChmodStep, ChownStep
<1>6. QED
  BY <1>1, <1>2, <1>3, <1>4, <1>5 DEF Next

(* The invariant holds in every state, if only directories have the         *)
(* directory bit.                                                           *)
THEOREM Inductive == PlainTypes /\ Spec => []IInv
<1> SUFFICES ASSUME PlainTypes PROVE Spec => []IInv
  OBVIOUS
<1>1. Init => IInv
  BY Zenon, InitIInv
<1>2. IInv /\ [Next]_vars => IInv'
  BY Zenon, NextStep DEF Preserved
<1>3. QED
  BY <1>1, <1>2, PTL DEF Spec

(* Every bucket stays a complete, well-typed inode with sizes and link      *)
(* counts that are never below zero, for every history of create, link,     *)
(* unlink, rmdir, rename, chmod, chown and restarts.                        *)
THEOREM TypeCorrect == PlainTypes /\ Spec => []TypeOK
<1> SUFFICES ASSUME PlainTypes PROVE Spec => []TypeOK
  OBVIOUS
<1>1. Spec => []IInv
  BY Zenon, Inductive
<1>2. IInv => TypeOK
  BY Zenon DEF IInv, DbOK, DbType, ModesOK, TypeOK, Inodes
<1>3. QED
  BY <1>1, <1>2, PTL

(* The "size" key of a directory, by which rmdir and rename tell an empty   *)
(* directory, never falls short of its entries.                             *)
THEOREM SizesCover == PlainTypes /\ Spec => []SizeCoversEntries
<1> SUFFICES ASSUME PlainTypes PROVE Spec => []SizeCoversEntries
  OBVIOUS
<1>1. Spec => []IInv
  BY Zenon, Inductive
<1>2. IInv => SizeCoversEntries
  <2>1. SUFFICES ASSUME IInv, NEW d \in Dirs PROVE Cardinality(Entries(db[d])) <= db[d].size
    BY Zenon DEF SizeCoversEntries
  <2>2. d \in DOMAIN db /\ IsDir(db[d])
    BY <2>1, VfsSets DEF Dirs, Inodes
  <2>3. QED
    BY Zenon, <2>1, <2>2 DEF IInv, DbOK, SizesOK
<1>3. QED
  BY <1>1, <1>2, PTL

(* The link count, by which unlink deletes a bucket, never falls short of   *)
(* the names of the inode, and a directory has one name at most.            *)
THEOREM LinksCover == PlainTypes /\ Spec => []LinksCoverNames
<1> SUFFICES ASSUME PlainTypes PROVE Spec => []LinksCoverNames
  OBVIOUS
<1>1. Spec => []IInv
  BY Zenon, Inductive
<1>2. IInv => LinksCoverNames
  <2>1. SUFFICES ASSUME IInv, NEW i \in Inodes
                 PROVE  Cardinality(Refs(db, i)) <= IF i \in Dirs THEN 1 ELSE db[i].hard_links
    BY Zenon DEF LinksCoverNames
  <2>2. i \in DOMAIN db /\ (i \in Dirs <=> IsDir(db[i]))
    BY <2>1, VfsSets DEF Inodes
  <2>3. QED
    BY Zenon, <2>1, <2>2 DEF IInv, DbOK, LinksOK
<1>3. QED
  BY <1>1, <1>2, PTL

(* No request and no restart, which reuses inode numbers, leaves a name     *)
(* that leads nowhere.                                                      *)
THEOREM NamesLeadSomewhere == PlainTypes /\ Spec => []NoDanglingEntry
<1> SUFFICES ASSUME PlainTypes PROVE Spec => []NoDanglingEntry
  OBVIOUS
<1>1. Spec => []IInv
  BY Zenon, Inductive
<1>2. IInv => NoDanglingEntry
  BY Zenon DEF IInv, DbOK, NamesOK, NoDanglingEntry, Dirs, Inodes, Lookup
<1>3. QED
  BY <1>1, <1>2, PTL

(* rmdir, and rename onto a directory, delete a bucket because the "size"   *)
(* key is at most two: then the directory really has no names in it.        *)
THEOREM DeletedDirsWereEmpty == PlainTypes /\ Spec => OnlyEmptyDirsDeleted
<1> SUFFICES ASSUME PlainTypes PROVE Spec => OnlyEmptyDirsDeleted
  OBVIOUS
<1>1. Spec => []IInv
  BY Zenon, Inductive
<1>2. IInv /\ [Next]_vars
      => [\A d \in Dirs \ Inodes' : \A n \in Names : Lookup(d, n) = NoIno]_vars
  <2>1. SUFFICES ASSUME IInv, [Next]_vars, NEW d \in Dirs \ Inodes', NEW n \in Names
                 PROVE  Lookup(d, n) = NoIno
    OBVIOUS
  <2>2. EmptyIfDeleted
    BY Zenon, <2>1, NextStep DEF Preserved
  <2>3. d \in DOMAIN db \ DOMAIN db' /\ IsDir(db[d])
    BY Zenon, <2>1, VfsSets DEF Dirs, Inodes
  <2>4. QED
    BY Zenon, <2>2, <2>3 DEF EmptyIfDeleted, Lookup
<1>3. QED
  BY <1>1, <1>2, PTL DEF Spec, OnlyEmptyDirsDeleted

-----------------------------------------------------------------------------
(* The sticky bit.                                                          *)

(* rename makes the old name lead elsewhere, and the new one too; it asks   *)
(* for the sticky bit of both directories, and looks up what is at the new  *)
(* name in a sticky directory.                                              *)
LEMMA RenamedSticky ==
  ASSUME NEW c \in Creds, NEW od \in DOMAIN db, NEW on \in Names, NEW nd \in DOMAIN db,
         NEW nn \in Names, Reply(c, "Ok"), ~RenameDenied(c, od, on, nd, nn),
         \A e \in DOMAIN db \cap DOMAIN db', m \in Names :
           (e = od /\ m = on) \/ (e = nd /\ m = nn) \/ db'[e].data[m] = db[e].data[m]
  PROVE  StickyStep
<1>1. ~StickyDenies(c, od, db[od].data[on])
  BY Zenon DEF RenameDenied, Lookup
<1>2. Has(db[nd].mode, S_ISVTX) /\ db[nd].data[nn] # NoIno
      => ~StickyDenies(c, nd, db[nd].data[nn])
  BY Zenon DEF RenameDenied, RenameTarget, Lookup
<1>3. reply'.by = c.uid
  BY Zenon DEF Reply
<1>4. QED
  BY <1>1, <1>2, <1>3 DEF StickyStep, StickyDenies

LEMMA ExchangeSticky ==
  ASSUME IInv, NEW c \in Creds, NEW od \in VfsDirs, NEW on \in Names,
         NEW nd \in VfsDirs, NEW nn \in Names, RenameExchange(c, od, on, nd, nn)
  PROVE  StickyStep
<1> DEFINE i == db[od].data[on]
           t == RenameTarget(nd, nn)
<1>1. CASE UNCHANGED db
  BY Zenon, <1>1, QuietStep
<1>2. CASE /\ ~RenameDenied(c, od, on, nd, nn) /\ t # NoIno /\ Reply(c, "Ok")
           /\ db' = Exchanged(od, on, nd, nn, t)
  <2>1. VfsRename(od, on, nd, nn, "EXCHANGE")
    BY Zenon DEF RenameExchange
  <2>apart. Apart(od, nd, i, db[nd].data[nn])
    BY Zenon, <2>1, RenameApart
  <2>2. t = db[nd].data[nn]
    BY Zenon, <1>2 DEF RenameTarget, Lookup
  <2> HIDE DEF t
  <2>3. /\ od \in DOMAIN db /\ nd \in DOMAIN db /\ i \in DOMAIN db /\ t \in DOMAIN db
        /\ i # t /\ DbOK(db)
    BY Zenon, <1>2, <2>2, <2>apart DEF Apart, IInv
  <2>4. ExchangeResult(db', od, on, nd, nn, i, t)
    BY Zenon, <1>2, <2>3, ExchangedFacts
  <2>5. \A e \in DOMAIN db \cap DOMAIN db', m \in Names :
          (e = od /\ m = on) \/ (e = nd /\ m = nn) \/ db'[e].data[m] = db[e].data[m]
    BY Zenon, <2>4 DEF ExchangeResult
  <2>6. QED
    BY Zenon, <1>2, <2>3, <2>5, RenamedSticky
<1>3. QED
  BY Zenon, <1>1, <1>2 DEF RenameExchange, Fail

LEMMA MoveSticky ==
  ASSUME IInv, NEW c \in Creds, NEW od \in VfsDirs, NEW on \in Names,
         NEW nd \in VfsDirs, NEW nn \in Names, RenameMove(c, od, on, nd, nn)
  PROVE  StickyStep
<1> DEFINE i == db[od].data[on]
           t == RenameTarget(nd, nn)
<1>1. CASE UNCHANGED db
  BY Zenon, <1>1, QuietStep
<1>2. CASE /\ ~RenameDenied(c, od, on, nd, nn) /\ Reply(c, "Ok")
           /\ db' = Moved(od, on, nd, nn, t)
  <2>1. VfsRename(od, on, nd, nn, "NONE")
    BY Zenon DEF RenameMove
  <2>apart. Apart(od, nd, i, db[nd].data[nn])
    BY Zenon, <2>1, RenameApart
  <2>2. t = db[nd].data[nn] \/ t = NoIno
    BY Zenon DEF RenameTarget, Lookup
  <2>3. db' = Moved(od, on, nd, nn, t)
    BY Zenon, <1>2
  <2> HIDE DEF t
  <2>4. /\ od \in DOMAIN db /\ IsDir(db[od]) /\ nd \in DOMAIN db /\ IsDir(db[nd])
        /\ i \in DOMAIN db /\ db[nd].data[nn] # i /\ DbOK(db)
    BY Zenon, <2>apart DEF Apart, IInv
  <2>5. NoIno # od /\ NoIno # nd /\ NoIno \notin DOMAIN db
    BY <2>4 DEF DbOK, DbType, Ino, NoIno
  <2>6. t \in (DOMAIN db \ {RootIno}) \cup {NoIno} /\ t # od /\ t # nd /\ t # i
    BY <2>2, <2>4, <2>5, <2>apart DEF Apart, RootIno, NoIno
  <2>7. MoveResult(db', od, on, nd, nn, i, t)
    BY Zenon, <2>2, <2>3, <2>4, <2>6, MovedFacts
  <2>8. \A e \in DOMAIN db \cap DOMAIN db', m \in Names :
          (e = od /\ m = on) \/ (e = nd /\ m = nn) \/ db'[e].data[m] = db[e].data[m]
    BY Zenon, <2>7 DEF MoveResult
  <2>9. QED
    BY <1>2, <2>4, <2>8, RenamedSticky
<1>3. QED
  BY Zenon, <1>1, <1>2 DEF RenameMove, Fail

LEMMA NextSticky ==
  ASSUME IInv, [Next]_vars
  PROVE  StickyStep
<1>1. CASE Restart \/ UNCHANGED vars
  BY Zenon, <1>1, QuietStep DEF Restart, vars
<1>2. ASSUME NEW c \in Creds, NEW d \in VfsDirs, NEW n \in Names,
             \/ \E m \in Modes : Mkdir(c, d, n, m)
             \/ \E m \in Modes, t \in Types \ {S_IFLNK} : Mknod(c, d, n, m, t)
             \/ S_IFLNK \in Types /\ Symlink(c, d, n)
             \/ \E i \in VfsFiles : Link(c, i, d, n)
             \/ Unlink(c, d, n)
             \/ Rmdir(c, d, n)
      PROVE  StickyStep
  BY <1>2, CreateSticky, LinkSticky, UnlinkSticky, RmdirSticky DEF Mkdir, Mknod, Symlink
<1>3. ASSUME NEW c \in Creds, NEW d \in VfsDirs, NEW n \in Names,
             NEW nd \in VfsDirs, NEW nn \in Names, Rename(c, d, n, nd, nn)
      PROVE  StickyStep
  BY <1>3, MoveSticky, ExchangeSticky DEF Rename
<1>4. ASSUME NEW c \in Creds, NEW i \in VfsDirs \cup VfsFiles,
             \/ \E m \in ChmodModes : dbfs_common_chmod(c, i, m)
             \/ \E uid, gid \in ChownIds \cup {None} : dbfs_common_chown(c, i, uid, gid)
      PROVE  StickyStep
  <2>1. i \in Inodes
    BY Zenon DEF VfsDirs, VfsFiles, Dirs
  <2>2. QED
    BY <1>4, <2>1, AttrSticky
<1>5. QED
  BY <1>1, <1>2, <1>3, <1>4 DEF Next

(* No request takes a name of a sticky directory away, or makes it lead     *)
(* elsewhere, unless root, the directory's owner or the owner of what the   *)
(* name leads to asks for it.                                               *)
THEOREM StickyHolds == PlainTypes /\ Spec => StickyProtects
<1> SUFFICES ASSUME PlainTypes PROVE Spec => StickyProtects
  OBVIOUS
<1>1. Spec => []IInv
  BY Zenon, Inductive
<1>2. IInv /\ [Next]_vars
      => [\A d \in Dirs, n \in Names :
            Has(db[d].mode, S_ISVTX) /\ Found(d, n)
            /\ (d \notin Inodes' \/ db'[d].data[n] # Lookup(d, n))
            => reply'.by \in {0, db[d].uid, db[Lookup(d, n)].uid}]_vars
  <2>1. SUFFICES ASSUME IInv, [Next]_vars, NEW d \in Dirs, NEW n \in Names,
                        Has(db[d].mode, S_ISVTX), db[d].data[n] \in DOMAIN db,
                        d \notin DOMAIN db' \/ db'[d].data[n] # db[d].data[n]
                 PROVE  reply'.by \in {0, db[d].uid, db[db[d].data[n]].uid}
    BY Zenon DEF Found, Lookup, Inodes
  <2>2. EmptyIfDeleted /\ StickyStep
    BY Zenon, <2>1, NextStep, NextSticky DEF Preserved
  <2>3. d \in DOMAIN db /\ IsDir(db[d])
    BY Zenon, <2>1, VfsSets DEF Dirs, Inodes
  <2>4. db[d].data[n] # NoIno
    BY <2>1 DEF IInv, DbOK, DbType, Ino, NoIno
  <2>5. d \in DOMAIN db'
    BY Zenon, <2>2, <2>3, <2>4 DEF EmptyIfDeleted
  <2>6. QED
    BY <2>1, <2>2, <2>3, <2>4, <2>5 DEF StickyStep
<1>3. QED
  BY <1>1, <1>2, PTL DEF Spec, StickyProtects

-----------------------------------------------------------------------------
(* "." and "..".  RENAME_EXCHANGE writes the parent of a directory to ".",  *)
(* so this holds without it.                                                *)
NoExchange == "EXCHANGE" \notin RenameFlags

(* What is under the names of bucket j when the name n of d is written. *)
NamesWritten(b, c, j, d, n, i) ==
  /\ c.data["."] = b.data["."] /\ c.data[".."] = b.data[".."]
  /\ \A m \in Names : c.data[m] = IF j = d /\ m = n THEN i ELSE b.data[m]

LEMMA EntrySetWritten ==
  ASSUME NEW f, NEW g, NEW d, NEW n \in Names, NEW i, EntrySet(f, g, d, n, i), NEW j \in DOMAIN f
  PROVE  NamesWritten(f[j], g[j], j, d, n, i)
<1>1. "." \in AllNames /\ ".." \in AllNames /\ "." # n /\ ".." # n
  BY Zenon, ConstantsAssumption DEF AllNames
<1>2. \A m \in AllNames : g[j].data[m] = IF j = d /\ m = n THEN i ELSE f[j].data[m]
  BY Zenon DEF EntrySet
<1>3. \A m \in Names : m \in AllNames
  BY Zenon DEF AllNames
<1>4. g[j].data["."] = f[j].data["."] /\ g[j].data[".."] = f[j].data[".."]
  BY Zenon, <1>1, <1>2
<1>5. QED
  BY Zenon, <1>2, <1>3, <1>4 DEF NamesWritten

LEMMA CreateDots ==
  ASSUME IInv, DotsInv(db), NEW c \in Creds, NEW d \in VfsDirs, NEW n \in Names, NEW perm,
         CreatePerm(perm), Create(c, d, n, perm)
  PROVE  DotsInv(db')
<1> DEFINE a == AddEntry(db, d, n, num)
           b == NewInode(c, d, num, perm)
<1>1. CASE UNCHANGED db
  BY Zenon, <1>1
<1>2. CASE num \notin Inodes /\ db' = PutBucket(a, num, b)
  <2>1. /\ d \in DOMAIN db /\ db[d].data[n] = NoIno /\ n \in AllNames /\ num \in Ino
        /\ DbType(db) /\ NamesOK(db) /\ num \notin DOMAIN db
    BY Zenon, <1>2, VfsSets DEF Create, Absent, Lookup, AllNames, IInv, DbOK, Inodes
  <2>2. /\ DOMAIN a = DOMAIN db /\ EntrySet(db, a, d, n, num) /\ DbType(a)
        /\ \A j \in DOMAIN db : SameAttrs(a[j], db[j])
    <3>1. num \in Ino \cup {NoIno}
      BY Zenon, <2>1
    <3>2. EntryAdded(db, a, d, n, num)
      BY Zenon, <2>1, <3>1, AddEntryFacts
    <3>3. QED
      BY Zenon, <3>2 DEF EntryAdded
  <2>3. /\ b \in Bucket /\ \A m \in Names : b.data[m] = NoIno
        /\ IsDir(b) => b.data["."] = num /\ b.data[".."] = d
    <3>1. NewBucket(b, d, num, perm)
      BY Zenon, <2>1, NewInodeFacts
    <3>2. QED
      BY Zenon, <3>1 DEF NewBucket
  <2> HIDE DEF a, b
  <2>4. /\ DOMAIN db' = DOMAIN db \cup {num} /\ db'[num] = b
        /\ \A j \in DOMAIN db : db'[j] = a[j]
    <3>1. BucketPut(a, db', num, b)
      BY Zenon, <1>2, <2>1, <2>2, <2>3, PutBucketFacts
    <3>2. QED
      BY Zenon, <2>1, <2>2, <3>1 DEF BucketPut
  <2>5. ASSUME NEW j \in DOMAIN db
        PROVE  /\ IsDir(db'[j]) <=> IsDir(db[j])
               /\ db'[j].data["."] = db[j].data["."] /\ db'[j].data[".."] = db[j].data[".."]
               /\ \A m \in Names : db'[j].data[m] = IF j = d /\ m = n THEN num ELSE db[j].data[m]
    <3>1. IsDir(db'[j]) <=> IsDir(db[j])
      BY Zenon, <2>2, <2>4 DEF SameAttrs, IsDir
    <3>2. NamesWritten(db[j], a[j], j, d, n, num)
      BY Zenon, <2>2, EntrySetWritten
    <3>3. QED
      BY Zenon, <2>4, <3>1, <3>2 DEF NamesWritten
  <2>6. \A i \in DOMAIN db' : IsDir(db'[i]) => db'[i].data["."] = i
    BY <2>3, <2>4, <2>5 DEF DotsInv
  <2>7. ASSUME NEW e \in DOMAIN db', NEW m \in Names, db'[e].data[m] # NoIno,
               IsDir(db'[db'[e].data[m]])
        PROVE  db'[db'[e].data[m]].data[".."] = e
    <3>1. e \in DOMAIN db
      BY Zenon, <2>3, <2>4, <2>7
    <3>2. CASE e = d /\ m = n
      <4>1. db'[e].data[m] = num
        BY Zenon, <2>5, <3>1, <3>2
      <4>2. QED
        BY Zenon, <2>3, <2>4, <2>7, <3>2, <4>1
    <3>3. CASE ~(e = d /\ m = n)
      <4>1. db'[e].data[m] = db[e].data[m] /\ db[e].data[m] \in DOMAIN db
        <5>1. db'[e].data[m] = db[e].data[m]
          BY Zenon, <2>5, <3>1, <3>3
        <5>2. QED
          BY Zenon, <2>1, <2>7, <3>1, <5>1 DEF NamesOK
      <4>2. db[db[e].data[m]].data[".."] = e
        BY Zenon, <2>5, <2>7, <3>1, <4>1 DEF DotsInv
      <4>3. QED
        BY Zenon, <2>5, <4>1, <4>2
    <3>4. QED
      BY Zenon, <3>2, <3>3
  <2>8. QED
    BY Zenon, <2>6, <2>7 DEF DotsInv
<1>3. QED
  BY Zenon, <1>1, <1>2 DEF Create, Fail

LEMMA LinkDots ==
  ASSUME IInv, DotsInv(db), NEW c \in Creds, NEW i \in VfsFiles, NEW d \in VfsDirs,
         NEW n \in Names, Link(c, i, d, n)
  PROVE  DotsInv(db')
<1> DEFINE a == AddEntry(db, d, n, i)
           k == a[i].hard_links + 1
<1>1. CASE UNCHANGED db
  BY Zenon, <1>1
<1>2. CASE db' = AddLink(a, i)
  <2>1. /\ d \in DOMAIN db /\ n \in AllNames /\ i \in DOMAIN db /\ i \in Ino /\ ~IsDir(db[i])
        /\ DbType(db) /\ NamesOK(db)
    BY Zenon, VfsSets DEF AllNames, IInv, DbOK, DbType
  <2>2. /\ DOMAIN a = DOMAIN db /\ EntrySet(db, a, d, n, i) /\ DbType(a)
        /\ \A j \in DOMAIN db : SameAttrs(a[j], db[j])
    <3>1. i \in Ino \cup {NoIno}
      BY Zenon, <2>1
    <3>2. EntryAdded(db, a, d, n, i)
      BY Zenon, <2>1, <3>1, AddEntryFacts
    <3>3. QED
      BY Zenon, <3>2 DEF EntryAdded
  <2> HIDE DEF a
  <2>3. k \in Nat /\ db' = WithLinks(a, i, k)
    BY <1>2, <2>1, <2>2 DEF DbType, Bucket, AddLink, WithLinks
  <2> HIDE DEF k
  <2>4. DOMAIN db' = DOMAIN db /\ \A j \in DOMAIN db : db'[j].data = a[j].data /\ db'[j].mode = a[j].mode
    <3>1. LinksSet(a, db', i, k)
      BY Zenon, <2>1, <2>2, <2>3, LinksFacts
    <3>2. QED
      BY Zenon, <2>2, <3>1 DEF LinksSet
  <2>5. ASSUME NEW j \in DOMAIN db
        PROVE  /\ IsDir(db'[j]) <=> IsDir(db[j])
               /\ db'[j].data["."] = db[j].data["."] /\ db'[j].data[".."] = db[j].data[".."]
               /\ \A m \in Names : db'[j].data[m] = IF j = d /\ m = n THEN i ELSE db[j].data[m]
    <3>1. IsDir(db'[j]) <=> IsDir(db[j])
      BY Zenon, <2>2, <2>4 DEF SameAttrs, IsDir
    <3>2. NamesWritten(db[j], a[j], j, d, n, i)
      BY Zenon, <2>2, EntrySetWritten
    <3>3. QED
      BY Zenon, <2>4, <3>1, <3>2 DEF NamesWritten
  <2>6. \A j \in DOMAIN db' : IsDir(db'[j]) => db'[j].data["."] = j
    BY Zenon, <2>4, <2>5 DEF DotsInv
  <2>7. ASSUME NEW e \in DOMAIN db', NEW m \in Names, db'[e].data[m] # NoIno,
               IsDir(db'[db'[e].data[m]])
        PROVE  db'[db'[e].data[m]].data[".."] = e
    <3>1. e \in DOMAIN db
      BY Zenon, <2>4
    <3>2. ~(e = d /\ m = n)
      BY Zenon, <2>1, <2>5, <2>7, <3>1
    <3>3. db'[e].data[m] = db[e].data[m]
      BY Zenon, <2>5, <3>1, <3>2
    <3>4. db[e].data[m] \in DOMAIN db
      BY Zenon, <2>1, <2>7, <3>1, <3>3 DEF NamesOK
    <3>5. db[db[e].data[m]].data[".."] = e
      BY Zenon, <2>5, <2>7, <3>1, <3>3, <3>4 DEF DotsInv
    <3>6. QED
      BY Zenon, <2>5, <3>3, <3>4, <3>5
  <2>8. QED
    BY Zenon, <2>6, <2>7 DEF DotsInv
<1>3. QED
  BY Zenon, <1>1, <1>2 DEF Link, Fail

(* What unlink and rmdir leave. *)
LEMMA RemovedDots ==
  ASSUME IInv, IInv', DotsInv(db), NEW d \in VfsDirs, NEW n \in Names, Found(d, n),
         DOMAIN db' \subseteq DOMAIN db,
         \A j \in DOMAIN db' : /\ db'[j].data = RemoveEntry(db, d, n)[j].data
                               /\ db'[j].mode = RemoveEntry(db, d, n)[j].mode
  PROVE  DotsInv(db')
<1> DEFINE r == RemoveEntry(db, d, n)
<1>1. d \in DOMAIN db /\ IsDir(db[d]) /\ DbOK(db) /\ db[d].data[n] # NoIno
  BY Zenon, VfsSets, NoInoFree DEF Found, Lookup, Inodes, IInv
<1>2. EntrySet(db, r, d, n, NoIno) /\ \A j \in DOMAIN db : SameAttrs(r[j], db[j])
  BY Zenon, <1>1, RemovedFacts
<1>3. NamesOK(db')
  BY Zenon DEF IInv, DbOK
<1> HIDE DEF r
<1>4. \A j \in DOMAIN db' : db'[j].data = r[j].data /\ db'[j].mode = r[j].mode
  BY Zenon DEF r
<1>5. ASSUME NEW j \in DOMAIN db'
      PROVE  /\ IsDir(db'[j]) <=> IsDir(db[j])
             /\ db'[j].data["."] = db[j].data["."] /\ db'[j].data[".."] = db[j].data[".."]
             /\ \A m \in Names : db'[j].data[m] \in {NoIno, db[j].data[m]}
  <2>1. j \in DOMAIN db
    BY Zenon
  <2>2. IsDir(db'[j]) <=> IsDir(db[j])
    BY Zenon, <1>2, <1>4, <2>1 DEF SameAttrs, IsDir
  <2>3. /\ r[j].data["."] = db[j].data["."] /\ r[j].data[".."] = db[j].data[".."]
        /\ \A m \in Names : r[j].data[m] = IF j = d /\ m = n THEN NoIno ELSE db[j].data[m]
    <3>1. NamesWritten(db[j], r[j], j, d, n, NoIno)
      BY Zenon, <1>2, <2>1, EntrySetWritten
    <3>2. QED
      BY Zenon, <3>1 DEF NamesWritten
  <2>4. QED
    BY Zenon, <1>4, <2>2, <2>3
<1>6. QED
  BY Zenon, <1>3, <1>5, KeptDots

LEMMA UnlinkDots ==
  ASSUME IInv, IInv', DotsInv(db), NEW c \in Creds, NEW d \in VfsDirs, NEW n \in Names,
         Unlink(c, d, n)
  PROVE  DotsInv(db')
<1> DEFINE i == db[d].data[n]
           r == RemoveEntry(db, d, n)
           k == r[i].hard_links - 1
<1>1. CASE UNCHANGED db
  BY Zenon, <1>1
<1>2. CASE db' = DropLink(r, i)
  <2>1. /\ d \in DOMAIN db /\ IsDir(db[d]) /\ i \in DOMAIN db /\ ~IsDir(db[i])
        /\ DbOK(db) /\ i # NoIno /\ Found(d, n)
    <3>1. d \in DOMAIN db /\ IsDir(db[d]) /\ DbOK(db) /\ NoIno \notin DOMAIN db
      BY Zenon, VfsSets, NoInoFree DEF IInv
    <3>2. Found(d, n) /\ i \in DOMAIN db /\ i \notin Dirs
      BY Zenon DEF Unlink, Found, Lookup, Inodes
    <3>3. QED
      BY Zenon, <3>1, <3>2, VfsSets
  <2>2. DOMAIN r = DOMAIN db /\ DbType(r) /\ SameAttrs(r[i], db[i])
    BY Zenon, <2>1, RemovedFacts
  <2>3. <<d, n>> \in Refs(db, i) /\ LinkBound(db[i]) = db[i].hard_links
    BY Zenon, <2>1 DEF Refs, LinkBound
  <2>4. k \in Nat
    <3>1. LinkBound(db[i]) \in Nat /\ LinkBound(db[i]) > 0
      BY Zenon, <2>1, <2>3, RefsBounds
    <3> DEFINE h == r[i].hard_links
    <3>2. h = LinkBound(db[i])
      BY Zenon, <2>2, <2>3 DEF SameAttrs
    <3>3. h \in Nat /\ h > 0
      BY Zenon, <3>1, <3>2
    <3> HIDE DEF h
    <3>4. h - 1 \in Nat
      BY <3>3
    <3>5. QED
      BY Zenon, <3>4 DEF h
  <2> HIDE DEF r
  <2>5. DropLink(r, i) \in {DeleteBucket(r, i), WithLinks(r, i, k)}
    BY Zenon DEF DropLink, WithLinks
  <2> HIDE DEF k
  <2>6. /\ DOMAIN db' \subseteq DOMAIN db
        /\ \A j \in DOMAIN db' : db'[j].data = r[j].data /\ db'[j].mode = r[j].mode
    <3>1. LinksSet(r, WithLinks(r, i, k), i, k)
      BY Zenon, <2>1, <2>2, <2>4, LinksFacts
    <3>2. CASE db' = WithLinks(r, i, k)
      BY Zenon, <2>2, <3>1, <3>2 DEF LinksSet
    <3>3. CASE db' = DeleteBucket(r, i)
      BY Zenon, <2>2, <3>3 DEF DeleteBucket
    <3>4. QED
      BY Zenon, <1>2, <2>5, <3>2, <3>3
  <2>7. QED
    BY Zenon, <2>1, <2>6, RemovedDots DEF r
<1>3. QED
  BY Zenon, <1>1, <1>2 DEF Unlink, Fail, Lookup

LEMMA RmdirDots ==
  ASSUME IInv, IInv', DotsInv(db), NEW c \in Creds, NEW d \in VfsDirs, NEW n \in Names,
         Rmdir(c, d, n)
  PROVE  DotsInv(db')
<1> DEFINE i == db[d].data[n]
           r == RemoveEntry(db, d, n)
<1>1. CASE UNCHANGED db
  BY Zenon, <1>1
<1>2. CASE db' = DeleteBucket(r, i)
  <2>1. d \in DOMAIN db /\ IsDir(db[d]) /\ DbOK(db) /\ i # NoIno /\ Found(d, n)
    <3>1. d \in DOMAIN db /\ IsDir(db[d]) /\ DbOK(db) /\ NoIno \notin DOMAIN db
      BY Zenon, VfsSets, NoInoFree DEF IInv
    <3>2. QED
      BY Zenon, <3>1 DEF Rmdir, Found, Lookup, Inodes
  <2>2. DOMAIN r = DOMAIN db
    BY Zenon, <2>1, RemovedFacts
  <2> HIDE DEF r
  <2>3. DOMAIN db' \subseteq DOMAIN db /\ \A j \in DOMAIN db' : db'[j] = r[j]
    BY Zenon, <1>2, <2>2 DEF DeleteBucket
  <2>4. QED
    BY Zenon, <2>1, <2>3, RemovedDots DEF r
<1>3. QED
  BY Zenon, <1>1, <1>2 DEF Rmdir, Fail, Lookup

LEMMA MoveDots ==
  ASSUME IInv, IInv', DotsInv(db), NEW c \in Creds, NEW od \in VfsDirs, NEW on \in Names,
         NEW nd \in VfsDirs, NEW nn \in Names, RenameMove(c, od, on, nd, nn)
  PROVE  DotsInv(db')
<1> DEFINE i == db[od].data[on]
           t == RenameTarget(nd, nn)
<1>1. CASE UNCHANGED db
  BY Zenon, <1>1
<1>2. CASE db' = Moved(od, on, nd, nn, t)
  <2>1. VfsRename(od, on, nd, nn, "NONE")
    BY Zenon DEF RenameMove
  <2>apart. Apart(od, nd, i, db[nd].data[nn])
    BY Zenon, <2>1, RenameApart
  <2>2. t = db[nd].data[nn] \/ t = NoIno
    BY Zenon DEF RenameTarget, Lookup
  <2>3. db' = Moved(od, on, nd, nn, t)
    BY Zenon, <1>2
  <2> HIDE DEF t
  <2>4. /\ od \in DOMAIN db /\ IsDir(db[od]) /\ nd \in DOMAIN db /\ IsDir(db[nd])
        /\ i \in DOMAIN db /\ db[nd].data[nn] # i /\ DbOK(db)
    BY Zenon, <2>apart DEF Apart, IInv
  <2>5. NoIno # od /\ NoIno # nd /\ NoIno \notin DOMAIN db
    BY <2>4 DEF DbOK, DbType, Ino, NoIno
  <2>6. t \in (DOMAIN db \ {RootIno}) \cup {NoIno} /\ t # od /\ t # nd /\ t # i
    BY <2>2, <2>4, <2>5, <2>apart DEF Apart, RootIno, NoIno
  <2>7. MoveResult(db', od, on, nd, nn, i, t)
    BY <2>2, <2>3, <2>4, <2>6, MovedFacts
  <2>8. DOMAIN db' \subseteq DOMAIN db /\ \A j \in DOMAIN db' : IsDir(db'[j]) <=> IsDir(db[j])
    BY Zenon, <2>7 DEF MoveResult, SameAttrs, IsDir
  <2>9. \A j \in DOMAIN db' :
          /\ db'[j].data["."] = db[j].data["."]
          /\ db'[j].data[".."] = IF IsDir(db[i]) /\ j = i THEN nd ELSE db[j].data[".."]
    BY Zenon, <2>7 DEF MoveResult
  <2>10. ASSUME NEW e \in DOMAIN db', NEW m \in Names, db'[e].data[m] # NoIno,
                IsDir(db'[db'[e].data[m]])
         PROVE  db'[db'[e].data[m]].data[".."] = e
    <3> DEFINE x == db'[e].data[m]
    <3>1. x \in DOMAIN db'
      BY Zenon, <2>10 DEF IInv, DbOK, NamesOK
    <3>2. x = IF e = nd /\ m = nn THEN i ELSE IF e = od /\ m = on THEN NoIno ELSE db[e].data[m]
      BY Zenon, <2>7 DEF MoveResult
    <3>3. CASE e = nd /\ m = nn
      <4>1. x = i
        BY Zenon, <3>2, <3>3
      <4>2. IsDir(db[i])
        BY Zenon, <2>8, <2>10, <3>1, <4>1
      <4>3. db'[i].data[".."] = nd
        BY Zenon, <2>9, <3>1, <4>1, <4>2
      <4>4. QED
        BY Zenon, <3>3, <4>1, <4>3
    <3>4. CASE ~(e = nd /\ m = nn)
      <4>1. x = db[e].data[m] /\ ~(e = od /\ m = on) /\ x \in DOMAIN db /\ IsDir(db[x])
        BY <2>8, <2>10, <3>1, <3>2, <3>4
      <4>2. LinkBound(db[x]) <= 1
        BY <4>1 DEF LinkBound
      <4>3. x # i
        <5>1. DbOK(db) /\ od \in DOMAIN db /\ e \in DOMAIN db /\ db[od].data[on] = i
          BY Zenon, <2>4, <2>8 DEF IInv
        <5>2. ASSUME x = i PROVE FALSE
          <6>1. i \in DOMAIN db /\ LinkBound(db[i]) <= 1 /\ db[e].data[m] = i
            BY Zenon, <4>1, <4>2, <5>2
          <6>2. e = od /\ m = on
            BY <5>1, <6>1, OnlyName
          <6>3. QED
            BY Zenon, <4>1, <6>2
        <5>3. QED
          BY Zenon, <5>2
      <4>4. QED
        <5>1. db'[x].data[".."] = db[x].data[".."]
          BY Zenon, <2>9, <3>1, <4>3
        <5>2. e \in DOMAIN db /\ db[e].data[m] # NoIno /\ IsDir(db[db[e].data[m]])
          BY Zenon, <2>8, <2>10, <4>1
        <5>3. db[x].data[".."] = e
          BY Zenon, <4>1, <5>2 DEF DotsInv
        <5>4. QED
          BY Zenon, <5>1, <5>3
    <3>5. QED
      BY Zenon, <3>3, <3>4
  <2>11. \A j \in DOMAIN db' : IsDir(db'[j]) => db'[j].data["."] = j
    BY Zenon, <2>8, <2>9 DEF DotsInv
  <2>12. QED
    BY Zenon, <2>10, <2>11 DEF DotsInv
<1>3. QED
  BY Zenon, <1>1, <1>2 DEF RenameMove, Fail

LEMMA NextDots ==
  ASSUME PlainTypes, NoExchange, IInv, DotsInv(db), [Next]_vars
  PROVE  DotsInv(db')
<1>0. IInv'
  BY Zenon, NextStep DEF Preserved
<1>1. CASE Restart \/ UNCHANGED vars
  BY Zenon, <1>1 DEF Restart, vars
<1>2. ASSUME NEW c \in Creds, NEW d \in VfsDirs, NEW n \in Names,
             \/ \E m \in Modes : Mkdir(c, d, n, m)
             \/ \E m \in Modes, t \in Types \ {S_IFLNK} : Mknod(c, d, n, m, t)
             \/ S_IFLNK \in Types /\ Symlink(c, d, n)
      PROVE  DotsInv(db')
  BY <1>2, RequestedPerms, CreateDots DEF Mkdir, Mknod, Symlink
<1>3. ASSUME NEW c \in Creds, NEW d \in VfsDirs, NEW n \in Names,
             \/ \E i \in VfsFiles : Link(c, i, d, n)
             \/ Unlink(c, d, n)
             \/ Rmdir(c, d, n)
      PROVE  DotsInv(db')
  BY <1>0, <1>3, LinkDots, UnlinkDots, RmdirDots
<1>4. ASSUME NEW c \in Creds, NEW d \in VfsDirs, NEW n \in Names,
             NEW nd \in VfsDirs, NEW nn \in Names, Rename(c, d, n, nd, nn)
      PROVE  DotsInv(db')
  BY <1>0, <1>4, MoveDots DEF Rename, NoExchange
<1>5. ASSUME NEW c \in Creds, NEW i \in VfsDirs \cup VfsFiles,
             \/ \E m \in ChmodModes : dbfs_common_chmod(c, i, m)
             \/ \E uid, gid \in ChownIds \cup {None} : dbfs_common_chown(c, i, uid, gid)
      PROVE  DotsInv(db')
  <2>1. i \in Inodes
    BY Zenon DEF VfsDirs, VfsFiles, Dirs
  <2>2. QED
    BY <1>0, <1>5, <2>1, AttrDots
<1>6. QED
  BY <1>1, <1>2, <1>3, <1>4, <1>5 DEF Next

(* Without RENAME_EXCHANGE, "." and ".." of every directory that has a name *)
(* lead to itself and to the directory that holds the name, however often   *)
(* it was moved.                                                            *)
THEOREM DotsStayRight == PlainTypes /\ NoExchange /\ Spec => []DotsAreRight
<1> SUFFICES ASSUME PlainTypes, NoExchange PROVE Spec => []DotsAreRight
  OBVIOUS
<1>1. Spec => []IInv
  BY Zenon, Inductive
<1>2. Init => DotsInv(db)
  <2>1. SUFFICES ASSUME Init PROVE DotsInv(db)
    OBVIOUS
  <2>2. DOMAIN db = {RootIno} /\ db[RootIno] = RootInode
    BY Zenon, <2>1 DEF Init
  <2>3. /\ RootInode.data["."] = RootIno
        /\ \A n \in Names : RootInode.data[n] = NoIno
    BY Zenon, ConstantsAssumption DEF RootInode, NoData, AllNames
  <2>4. QED
    BY Zenon, <2>2, <2>3 DEF DotsInv
<1>3. IInv /\ DotsInv(db) /\ [Next]_vars => DotsInv(db)'
  BY Zenon, NextDots
<1>4. IInv /\ DotsInv(db) => DotsAreRight
  <2>1. SUFFICES ASSUME IInv, DotsInv(db), NEW d \in Dirs, NEW n \in Names, Lookup(d, n) \in Dirs
                 PROVE  /\ db[Lookup(d, n)].data["."] = Lookup(d, n)
                        /\ db[Lookup(d, n)].data[".."] = d
    BY Zenon DEF DotsAreRight
  <2>2. /\ d \in DOMAIN db /\ Lookup(d, n) = db[d].data[n]
        /\ db[d].data[n] \in DOMAIN db /\ IsDir(db[db[d].data[n]])
    BY Zenon, <2>1, VfsSets DEF Dirs, Inodes, Lookup
  <2>3. db[d].data[n] # NoIno
    BY <2>1, <2>2 DEF IInv, DbOK, DbType, Ino, NoIno
  <2>4. QED
    BY <2>1, <2>2, <2>3 DEF DotsInv
<1>5. QED
  BY <1>1, <1>2, <1>3, <1>4, PTL DEF Spec
=============================================================================
