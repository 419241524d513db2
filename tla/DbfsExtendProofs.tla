--------------------------- MODULE DbfsExtendProofs ---------------------------
(***************************************************************************)
(* Theorems about DbfsExtend, for any keys, values and operation lists.    *)
(***************************************************************************)
EXTENDS DbfsExtend, SequenceTheorems, WellFoundedInduction, TLAPS

-----------------------------------------------------------------------------
(* The inductive invariant.                                                 *)

Name == Globals \cup Keys
Path == Seq(Name) \ {<<>>}

Forest(s) ==
  /\ s = [q \in DOMAIN s |-> s[q]]
  /\ DOMAIN s \subseteq Path
  /\ Paths(s)

(* Every pending call has a bucket of its own, one inside the other. *)
CallSet == [bucket : Path, operate : Seq(Operations), i : Nat \ {0}]

Pending(t, cs) ==
  \A j \in 1..Len(cs) :
    /\ IsBucket(t, cs[j].bucket)
    /\ cs[j].i <= Len(cs[j].operate) + 1
    /\ \A m \in 1..Len(cs) : j < m => Len(cs[j].bucket) < Len(cs[m].bucket)

CallsOK(t, cs) == cs \in Seq(CallSet) /\ Pending(t, cs)

(* The rename mv is the operation that the innermost call is at. *)
RenameOf(c, mv) ==
  /\ c.i > 1 /\ c.operate[c.i - 1].op = "RenameKey"
  /\ \E k, m \in Keys : k # m /\ mv.old = Append(c.bucket, k) /\ mv.new = Append(c.bucket, m)

(* Where the rename takes the path q, which is below mv.old. *)
Image(mv, q) == mv.new \o SubSeq(q, Len(mv.old) + 1, Len(q))

CopySet == [from : Path, to : Path, left : SUBSET Keys]

(* A call of copy_bucket_data_recursive that is at depth j of the copy has  *)
(* not yet copied the keys that are left.                                   *)
CopyOf(t, mv, c, j) ==
  /\ c.from \in Below(mv.was, mv.old) /\ mv.was[c.from] = Bucket
  /\ c.to = Image(mv, c.from) /\ IsBucket(t, c.to)
  /\ Len(c.from) = Len(mv.old) + j - 1
  /\ \A k \in c.left : Has(mv.was, Append(c.from, k)) /\ ~Has(t, Append(c.to, k))

ToCopy(cs, r) == \E j \in 1..Len(cs) : \E k \in cs[j].left : IsPrefix(Append(cs[j].from, k), r)

(* The transaction t is what there was before the rename, and images of     *)
(* paths below the old bucket; an image that is missing is still to come.   *)
Copying(t, mv, cs) ==
  /\ Forest(mv.was) /\ IsBucket(mv.was, mv.old) /\ ~Has(mv.was, mv.new)
  /\ \A q \in DOMAIN mv.was : Has(t, q) /\ t[q] = mv.was[q]
  /\ \A q \in DOMAIN t \ DOMAIN mv.was :
       \E r \in Below(mv.was, mv.old) : q = Image(mv, r) /\ t[q] = mv.was[r]
  /\ \A r \in Below(mv.was, mv.old) : Has(t, Image(mv, r)) \/ ToCopy(cs, r)
  /\ \A j \in 1..Len(cs) : CopyOf(t, mv, cs[j], j)

Inv ==
  /\ Forest(store) /\ Forest(tx)
  /\ CallsOK(tx, calls)
  /\ copies \in Seq(CopySet)
  /\ Idle => tx = store /\ moving = NoMove /\ ~again
  /\ moving = NoMove => copies = <<>>
  /\ moving # NoMove => ~Idle /\ RenameOf(Last(calls), moving) /\ Copying(tx, moving, copies)
  /\ again \in BOOLEAN

-----------------------------------------------------------------------------
(* What the first n operations of a list that only adds leave in t. *)
AddsKey(i, k) == i.op = "AddKey" /\ i.key = k

Added(t, p, ops, n) ==
  \A j \in 1..n :
    /\ ops[j].op = "AddBucket" => IsBucket(t, Append(p, ops[j].key))
    /\ ops[j].op = "AddKey" =>
         /\ IsValue(t, Append(p, ops[j].key))
         /\ \/ t[Append(p, ops[j].key)] = ops[j].value
            \/ \E m \in (j + 1)..n : AddsKey(ops[m], ops[j].key)

Adding(c) == OnlyAdds(c.operate) => Added(tx, c.bucket, c.operate, c.i - 1)

(* The second time, the transaction differs from the database only in the   *)
(* keys that the rest of the list writes.                                   *)
Agrees(t, s, c, q) ==
  \/ t[q] = s[q]
  \/ /\ t[q] # Bucket /\ s[q] # Bucket
     /\ \E j \in c.i..Len(c.operate) :
          c.operate[j].op = "AddKey" /\ q = Append(c.bucket, c.operate[j].key)

Retrying(c) ==
  /\ Len(calls) = 1 /\ moving = NoMove
  /\ Added(store, c.bucket, c.operate, Len(c.operate))
  /\ DOMAIN tx = DOMAIN store
  /\ \A q \in DOMAIN tx : Agrees(tx, store, c, q)

RetryInv ==
  /\ ~Idle => Adding(calls[1])
  /\ again /\ OnlyAdds(calls[1].operate) => Retrying(calls[1])

-----------------------------------------------------------------------------
(* Paths.                                                                   *)

LEMMA Extensionality ==
  ASSUME NEW S, NEW q \in Seq(S), NEW r \in Seq(S), Len(q) = Len(r), \A i \in 1..Len(q) : q[i] = r[i]
  PROVE  q = r
OBVIOUS

LEMMA PrefixMeans ==
  ASSUME NEW S, NEW q \in Seq(S), NEW r \in Seq(S)
  PROVE  IsPrefix(q, r) <=> Len(q) <= Len(r) /\ \A i \in 1..Len(q) : q[i] = r[i]
<1>1. ASSUME IsPrefix(q, r) PROVE Len(q) <= Len(r) /\ \A i \in 1..Len(q) : q[i] = r[i]
  BY <1>1 DEF IsPrefix
<1>2. ASSUME Len(q) <= Len(r), \A i \in 1..Len(q) : q[i] = r[i] PROVE IsPrefix(q, r)
  <2>1. SubSeq(q, 1, Len(q)) = SubSeq(r, 1, Len(q))
    BY <1>2
  <2>2. QED
    BY <1>2, <2>1 DEF IsPrefix
<1>3. QED
  BY <1>1, <1>2

LEMMA PrefixRest ==
  ASSUME NEW S, NEW q \in Seq(S), NEW r \in Seq(S), IsPrefix(q, r)
  PROVE  r = q \o SubSeq(r, Len(q) + 1, Len(r))
BY DEF IsPrefix

LEMMA ConcatRest ==
  ASSUME NEW S, NEW q \in Seq(S), NEW x \in Seq(S)
  PROVE  SubSeq(q \o x, Len(q) + 1, Len(q \o x)) = x
OBVIOUS

LEMMA AppendFacts ==
  ASSUME NEW S, NEW q \in Seq(S), NEW k \in S
  PROVE  /\ Append(q, k) \in Seq(S) /\ Append(q, k) # <<>> /\ Append(q, k) # q
         /\ Len(Append(q, k)) = Len(q) + 1
         /\ Front(Append(q, k)) = q
         /\ Append(q, k)[Len(q) + 1] = k
         /\ \A i \in 1..Len(q) : Append(q, k)[i] = q[i]
BY DEF Front

LEMMA FrontFacts ==
  ASSUME NEW S, NEW q \in Seq(S), q # <<>>
  PROVE  /\ Front(q) \in Seq(S) /\ Len(Front(q)) = Len(q) - 1 /\ Len(q) \in Nat \ {0}
         /\ \A i \in 1..(Len(q) - 1) : Front(q)[i] = q[i]
         /\ Last(q) = q[Len(q)] /\ Last(q) \in S
<1>1. Len(q) \in Nat \ {0}
  OBVIOUS
<1>2. /\ Front(q) \in Seq(S) /\ Len(Front(q)) = Len(q) - 1
      /\ \A i \in 1..(Len(q) - 1) : Front(q)[i] = q[i]
  <2>1. Front(q) = SubSeq(q, 1, Len(q) - 1) /\ Len(q) - 1 \in Nat
    BY <1>1 DEF Front
  <2>2. SubSeq(q, 1, Len(q) - 1) \in Seq(S)
    BY <1>1
  <2>3. Len(SubSeq(q, 1, Len(q) - 1)) = Len(q) - 1
    <3>1. CASE Len(q) = 1
      BY <1>1, <3>1, SubSeqEmpty
    <3>2. CASE Len(q) > 1
      BY <1>1, <3>2
    <3>3. \A n \in Nat \ {0} : n = 1 \/ n > 1
      OBVIOUS
    <3>4. QED
      BY Zenon, <1>1, <3>1, <3>2, <3>3
  <2>4. \A i \in 1..(Len(q) - 1) : SubSeq(q, 1, Len(q) - 1)[i] = q[i]
    BY <1>1
  <2>5. QED
    BY Zenon, <2>1, <2>2, <2>3, <2>4
<1>3. Last(q) = q[Len(q)] /\ Last(q) \in S
  BY <1>1 DEF Last
<1>4. QED
  BY <1>1, <1>2, <1>3

LEMMA LenPositive ==
  ASSUME NEW S, NEW q \in Seq(S), q # <<>>
  PROVE  Len(q) \in Nat \ {0}
OBVIOUS

SameEnd(q, r, k, m) == q = r /\ k = m

LEMMA SameAppend ==
  ASSUME NEW S, NEW q \in Seq(S), NEW r \in Seq(S), NEW k \in S, NEW m \in S, Append(q, k) = Append(r, m)
  PROVE  SameEnd(q, r, k, m)
<1>1. Front(Append(q, k)) = q /\ Front(Append(r, m)) = r
  BY AppendFacts
<1>2. q = r
  BY Zenon, <1>1
<1>3. Append(q, k)[Len(q) + 1] = k /\ Append(r, m)[Len(r) + 1] = m
  BY AppendFacts
<1>4. QED
  BY Zenon, <1>2, <1>3 DEF SameEnd

(* A path in a forest leads through buckets only. *)
LEMMA PrefixClosed ==
  ASSUME NEW s, Forest(s), NEW q \in Path, NEW r \in DOMAIN s, IsPrefix(q, r)
  PROVE  Has(s, q)
<1> DEFINE U == {n \in Nat : \E x \in DOMAIN s : IsPrefix(q, x) /\ Len(x) = n}
<1>1. \A x \in DOMAIN s : x \in Seq(Name) /\ x # <<>>
  BY Zenon DEF Forest, Path
<1>2. Len(r) \in U
  BY <1>1
<1>3. PICK n \in U : \A y \in U : ~(<<y, n>> \in OpToRel(<, Nat))
  <2>1. U \subseteq Nat /\ U # {}
    BY Zenon, <1>2
  <2> HIDE DEF U
  <2>2. QED
    BY Zenon, <2>1, NatLessThanWellFounded, WFMin
<1>4. PICK x \in DOMAIN s : IsPrefix(q, x) /\ Len(x) = n
  BY Zenon, <1>3
<1>5. x \in Seq(Name) /\ x # <<>> /\ q \in Seq(Name) /\ q # <<>>
  BY Zenon, <1>1 DEF Path
<1>6. CASE x = q
  BY Zenon, <1>6 DEF Has
<1>7. CASE x # q
  <2>1. Len(q) < Len(x) /\ Len(q) > 0
    BY <1>4, <1>5, <1>7, PrefixMeans, Extensionality
  <2>2. Has(s, Front(x))
    BY <1>5, <2>1 DEF Forest, Paths, IsBucket
  <2>3. Front(x) \in Seq(Name) /\ Len(Front(x)) = Len(x) - 1 /\ \A i \in 1..(Len(x) - 1) : Front(x)[i] = x[i]
    BY Zenon, <1>5, FrontFacts
  <2>4. IsPrefix(q, Front(x))
    BY <1>4, <1>5, <2>1, <2>3, PrefixMeans
  <2>5. Len(x) \in Nat /\ Len(x) - 1 \in Nat
    BY <1>5, <2>1
  <2>6. Len(x) - 1 \in U
    BY Zenon, <2>2, <2>3, <2>4, <2>5 DEF Has
  <2>7. <<Len(x) - 1, n>> \in OpToRel(<, Nat)
    BY <2>5, <1>4 DEF OpToRel
  <2>8. QED
    BY Zenon, <1>3, <2>6, <2>7
<1>8. QED
  BY Zenon, <1>6, <1>7

(* What is strictly inside a bucket is reached through one of its keys. *)
LEMMA FirstKey ==
  ASSUME NEW s, Forest(s), NEW q \in Path, NEW r \in DOMAIN s, IsPrefix(q, r), r # q
  PROVE  /\ IsBucket(s, q)
         /\ \E k \in KeysIn(s, q) : IsPrefix(Append(q, k), r)
<1> DEFINE k == r[Len(q) + 1]
<1>1. r \in Seq(Name) /\ q \in Seq(Name) /\ q # <<>>
  BY Zenon DEF Forest, Path
<1>2. Len(q) < Len(r) /\ Len(q) > 0 /\ Len(q) \in Nat
  BY <1>1, PrefixMeans, Extensionality
<1>3. k \in Keys
  BY <1>1, <1>2 DEF Forest, Paths
<1>4. k \in Name
  BY Zenon, <1>3 DEF Name
<1> HIDE DEF k
<1>5. Append(q, k) \in Seq(Name) /\ Append(q, k) \in Path
  BY <1>1, <1>4, AppendFacts DEF Path
<1>6. IsPrefix(Append(q, k), r)
  <2>1. Len(Append(q, k)) <= Len(r) /\ \A i \in 1..Len(Append(q, k)) : Append(q, k)[i] = r[i]
    BY <1>1, <1>2, <1>4, AppendFacts, PrefixMeans DEF k
  <2>2. QED
    BY Zenon, <2>1, <1>1, <1>5, PrefixMeans
<1>7. Has(s, Append(q, k))
  BY Zenon, <1>5, <1>6, PrefixClosed
<1>8. IsBucket(s, q)
  <2>1. Front(Append(q, k)) = q /\ Len(Append(q, k)) > 1
    BY <1>1, <1>2, <1>4, AppendFacts
  <2>2. QED
    BY Zenon, <2>1, <1>7 DEF Forest, Paths, Has
<1>9. QED
  BY Zenon, <1>3, <1>6, <1>7, <1>8 DEF KeysIn

-----------------------------------------------------------------------------
(* What the operations on a bucket do to a forest.                          *)

Puts(s, q, v, t) ==
  /\ \A r : Has(t, r) <=> Has(s, r) \/ r = q
  /\ t[q] = v
  /\ \A r \in DOMAIN s : r # q => t[r] = s[r]
  /\ t = [r \in DOMAIN t |-> t[r]]

LEMMA WithFacts ==
  ASSUME NEW s, NEW q, NEW v
  PROVE  Puts(s, q, v, With(s, q, v))
BY DEF With, Has, Puts

LEMMA WithoutFacts ==
  ASSUME NEW s, NEW S
  PROVE  /\ \A r : Has(Without(s, S), r) <=> Has(s, r) /\ r \notin S
         /\ \A r \in DOMAIN s \ S : Without(s, S)[r] = s[r]
         /\ Without(s, S) = [r \in DOMAIN Without(s, S) |-> Without(s, S)[r]]
BY DEF Without, Has

(* Whatever is no bucket at q leaves room for a value or a bucket there. *)
LEMMA ForestWith ==
  ASSUME NEW s, Forest(s), NEW q \in Path, NEW v \in Values \cup {Bucket},
         q[1] \in Globals, \A j \in 2..Len(q) : q[j] \in Keys,
         Len(q) > 1 => IsBucket(s, Front(q)), ~IsBucket(s, q)
  PROVE  Forest(With(s, q, v)) /\ \A r : IsBucket(s, r) => IsBucket(With(s, q, v), r)
<1> DEFINE t == With(s, q, v)
<1>0. Puts(s, q, v, t)
  BY Zenon, WithFacts
<1>1. /\ \A r : Has(t, r) <=> Has(s, r) \/ r = q
      /\ t[q] = v
      /\ \A r \in DOMAIN s : r # q => t[r] = s[r]
      /\ t = [r \in DOMAIN t |-> t[r]]
  BY Zenon, <1>0 DEF Puts
<1> HIDE DEF t
<1>2. \A r : IsBucket(s, r) => IsBucket(t, r)
  BY Zenon, <1>1 DEF IsBucket, Has
<1>3. DOMAIN t \subseteq Path
  BY Zenon, <1>1 DEF Forest, Has
<1>4. ASSUME NEW r \in DOMAIN t
      PROVE  /\ r[1] \in Globals /\ \A j \in 2..Len(r) : r[j] \in Keys
             /\ t[r] \in Values \cup {Bucket}
             /\ Len(r) > 1 => IsBucket(t, Front(r))
  <2>1. CASE r = q
    BY Zenon, <2>1, <1>1, <1>2
  <2>2. CASE r # q
    <3>1. r \in DOMAIN s /\ t[r] = s[r]
      BY Zenon, <2>2, <1>1, <1>4 DEF Has
    <3>2. QED
      BY Zenon, <3>1, <1>2 DEF Forest, Paths
  <2>3. QED
    BY Zenon, <2>1, <2>2
<1>5. QED
  BY Zenon, <1>1, <1>2, <1>3, <1>4 DEF Forest, Paths, t

(* The path of a key in a bucket. *)
LEMMA KeyPath ==
  ASSUME NEW s, Forest(s), NEW p, IsBucket(s, p), NEW k \in Keys
  PROVE  /\ p \in Path /\ Append(p, k) \in Path
         /\ Append(p, k)[1] \in Globals /\ \A j \in 2..Len(Append(p, k)) : Append(p, k)[j] \in Keys
         /\ Front(Append(p, k)) = p /\ Len(Append(p, k)) = Len(p) + 1 /\ Len(p) \in Nat \ {0}
<1>1. p \in Seq(Name) /\ p # <<>> /\ k \in Name
  BY Zenon DEF Forest, IsBucket, Has, Path, Name
<1>2. p[1] \in Globals /\ \A j \in 2..Len(p) : p[j] \in Keys
  BY Zenon DEF Forest, IsBucket, Has, Paths
<1>3. Len(p) \in Nat \ {0}
  BY <1>1
<1>4. QED
  BY <1>1, <1>2, <1>3, AppendFacts DEF Path

LEMMA ForestPut ==
  ASSUME NEW s, Forest(s), NEW p, IsBucket(s, p), NEW k \in Keys, NEW v \in Values \cup {Bucket},
         ~IsBucket(s, Append(p, k))
  PROVE  Forest(With(s, Append(p, k), v)) /\ \A r : IsBucket(s, r) => IsBucket(With(s, Append(p, k), v), r)
<1>1. /\ Append(p, k) \in Path
      /\ Append(p, k)[1] \in Globals /\ \A j \in 2..Len(Append(p, k)) : Append(p, k)[j] \in Keys
      /\ IsBucket(s, Front(Append(p, k)))
  BY KeyPath
<1>2. QED
  BY <1>1, ForestWith

LEMMA ForestWithout ==
  ASSUME NEW s, Forest(s), NEW S, \A r \in DOMAIN s \ S : Len(r) > 1 => Front(r) \notin S
  PROVE  Forest(Without(s, S))
<1> DEFINE t == Without(s, S)
<1>1. /\ \A r : Has(t, r) <=> Has(s, r) /\ r \notin S
      /\ \A r \in DOMAIN s \ S : t[r] = s[r]
      /\ t = [r \in DOMAIN t |-> t[r]]
  BY WithoutFacts
<1> HIDE DEF t
<1>2. DOMAIN t \subseteq Path
  BY Zenon, <1>1 DEF Forest, Has
<1>3. ASSUME NEW r \in DOMAIN t
      PROVE  /\ r[1] \in Globals /\ \A j \in 2..Len(r) : r[j] \in Keys
             /\ t[r] \in Values \cup {Bucket}
             /\ Len(r) > 1 => IsBucket(t, Front(r))
  <2>1. r \in DOMAIN s \ S /\ t[r] = s[r]
    BY Zenon, <1>1, <1>3 DEF Has
  <2>2. Len(r) > 1 => IsBucket(s, Front(r)) /\ Front(r) \notin S
    BY Zenon, <2>1 DEF Forest, Paths
  <2>3. Len(r) > 1 => IsBucket(t, Front(r))
    BY Zenon, <2>2, <1>1 DEF IsBucket, Has
  <2>4. QED
    BY Zenon, <2>1, <2>3 DEF Forest, Paths
<1>4. QED
  BY Zenon, <1>1, <1>2, <1>3 DEF Forest, Paths, t

LEMMA ForestDelete ==
  ASSUME NEW s, Forest(s), NEW q, IsValue(s, q)
  PROVE  Forest(Without(s, {q})) /\ \A r : IsBucket(s, r) => IsBucket(Without(s, {q}), r)
<1>1. \A r \in DOMAIN s \ {q} : Len(r) > 1 => Front(r) \notin {q}
  BY Zenon DEF Forest, Paths, IsBucket, IsValue
<1>2. Forest(Without(s, {q}))
  BY Zenon, <1>1, ForestWithout
<1>3. \A r : IsBucket(s, r) => IsBucket(Without(s, {q}), r)
  BY WithoutFacts DEF IsBucket, IsValue, Has
<1>4. QED
  BY Zenon, <1>2, <1>3

LEMMA ForestDeleteBucket ==
  ASSUME NEW s, Forest(s), NEW q \in Path
  PROVE  /\ Forest(delete_bucket(s, q))
         /\ \A r : IsBucket(s, r) /\ Len(r) < Len(q) => IsBucket(delete_bucket(s, q), r)
<1>1. ASSUME NEW r \in DOMAIN s \ Below(s, q), Len(r) > 1 PROVE Front(r) \notin Below(s, q)
  <2>1. r \in Seq(Name) /\ r # <<>> /\ q \in Seq(Name)
    BY Zenon, <1>1 DEF Forest, Path
  <2>2. SUFFICES ASSUME IsPrefix(q, Front(r)) PROVE IsPrefix(q, r)
    BY Zenon, <1>1 DEF Below
  <2>3. Front(r) \in Seq(Name) /\ Len(Front(r)) = Len(r) - 1 /\ \A i \in 1..(Len(r) - 1) : Front(r)[i] = r[i]
    BY <2>1, FrontFacts
  <2>4. Len(q) <= Len(Front(r)) /\ \A i \in 1..Len(q) : q[i] = Front(r)[i]
    BY <2>1, <2>2, <2>3, PrefixMeans
  <2>5. Len(q) <= Len(r) /\ \A i \in 1..Len(q) : q[i] = r[i]
    BY <2>1, <2>3, <2>4
  <2>6. QED
    BY Zenon, <2>1, <2>5, PrefixMeans
<1>2. Forest(delete_bucket(s, q))
  BY Zenon, <1>1, ForestWithout DEF delete_bucket
<1>3. ASSUME NEW r, IsBucket(s, r), Len(r) < Len(q) PROVE IsBucket(delete_bucket(s, q), r)
  <2>1. r \in Seq(Name) /\ q \in Seq(Name) /\ r \in DOMAIN s
    BY Zenon, <1>3 DEF Forest, Path, IsBucket, Has
  <2>2. r \notin Below(s, q)
    BY <1>3, <2>1 DEF Below, IsPrefix
  <2>3. QED
    BY <1>3, <2>1, <2>2, WithoutFacts DEF delete_bucket, IsBucket, Has
<1>4. QED
  BY Zenon, <1>2, <1>3

-----------------------------------------------------------------------------
(* Images of paths under a rename.                                          *)

Renames(mv) == mv.old \in Path /\ mv.new \in Path /\ Len(mv.old) = Len(mv.new) /\ mv.old # mv.new

IsImage(mv, q, x) ==
  /\ x \in Seq(Name) /\ Len(x) = Len(q)
  /\ \A i \in 1..Len(mv.old) : x[i] = mv.new[i]
  /\ \A i \in (Len(mv.old) + 1)..Len(q) : x[i] = q[i]

LEMMA ImageFacts ==
  ASSUME NEW mv, Renames(mv), NEW q \in Seq(Name), IsPrefix(mv.old, q)
  PROVE  IsImage(mv, q, Image(mv, q))
<1> DEFINE n == Len(mv.old)
           rest == SubSeq(q, n + 1, Len(q))
<1>1. mv.old \in Seq(Name) /\ mv.new \in Seq(Name) /\ n \in Nat /\ Len(mv.new) = n /\ Len(q) \in Nat
  BY DEF Renames, Path
<1>2. n <= Len(q)
  BY <1>1 DEF IsPrefix
<1>3. rest \in Seq(Name) /\ Len(rest) = Len(q) - n /\ \A i \in 1..(Len(q) - n) : rest[i] = q[n + i]
  <2>1. \A i \in (n + 1)..Len(q) : q[i] \in Name
    BY <1>1, <1>2
  <2>2. /\ rest \in Seq(Name)
        /\ Len(rest) = IF n + 1 <= Len(q) THEN Len(q) - (n + 1) + 1 ELSE 0
        /\ \A i \in 1..(Len(q) - (n + 1) + 1) : rest[i] = q[(n + 1) + i - 1]
    <3>1. n + 1 \in Int /\ Len(q) \in Int
      BY <1>1
    <3> HIDE DEF n
    <3>2. QED
      BY <2>1, <3>1, SubSeqProperties
  <2> HIDE DEF rest, n
  <2>3. Len(rest) = Len(q) - n
    BY <1>1, <1>2, <2>2
  <2>4. ASSUME NEW i \in 1..(Len(q) - n) PROVE rest[i] = q[n + i]
    <3>1. Len(q) - (n + 1) + 1 = Len(q) - n /\ (n + 1) + i - 1 = n + i
      BY <1>1, <2>4
    <3>2. QED
      BY Zenon, <2>2, <2>4, <3>1
  <2>5. QED
    BY Zenon, <2>2, <2>3, <2>4
<1> HIDE DEF rest, n
<1>4. Image(mv, q) = mv.new \o rest
  BY Zenon DEF Image, rest, n
<1>5. /\ mv.new \o rest \in Seq(Name) /\ Len(mv.new \o rest) = n + Len(rest)
      /\ \A i \in 1..n : (mv.new \o rest)[i] = mv.new[i]
      /\ \A i \in (n + 1)..(n + Len(rest)) : (mv.new \o rest)[i] = rest[i - n]
  <2>1. mv.new \in Seq(Name) /\ rest \in Seq(Name) /\ Len(rest) \in Nat /\ n \in Nat /\ Len(mv.new) = n
    BY <1>1, <1>3
  <2>2. mv.new \o rest \in Seq(Name) /\ Len(mv.new \o rest) = Len(mv.new) + Len(rest)
    BY <2>1
  <2>3. \A i \in 1..(n + Len(rest)) : (mv.new \o rest)[i] = IF i <= n THEN mv.new[i] ELSE rest[i - n]
    BY <2>1, ConcatProperties
  <2>4. ASSUME NEW i \in 1..n PROVE (mv.new \o rest)[i] = mv.new[i]
    BY <2>1, <2>3, <2>4
  <2>5. ASSUME NEW i \in (n + 1)..(n + Len(rest)) PROVE (mv.new \o rest)[i] = rest[i - n]
    BY <2>1, <2>3, <2>5
  <2>6. QED
    BY Zenon, <2>1, <2>2, <2>4, <2>5
<1>6. n + Len(rest) = Len(q)
  BY <1>1, <1>2, <1>3
<1>7. ASSUME NEW i \in (n + 1)..Len(q) PROVE (mv.new \o rest)[i] = q[i]
  <2>1. i - n \in 1..(Len(q) - n) /\ n + (i - n) = i
    BY <1>1, <1>7
  <2>2. QED
    BY Zenon, <1>3, <1>5, <1>6, <1>7, <2>1
<1>8. QED
  BY Zenon, <1>4, <1>5, <1>6, <1>7 DEF IsImage, n

LEMMA ImageUnique ==
  ASSUME NEW mv, Renames(mv), NEW q \in Seq(Name), IsPrefix(mv.old, q), NEW r \in Seq(Name), IsPrefix(mv.old, r),
         Image(mv, q) = Image(mv, r)
  PROVE  q = r
<1>1. IsImage(mv, q, Image(mv, q)) /\ IsImage(mv, r, Image(mv, q))
  BY Zenon, ImageFacts
<1>2. mv.old \in Seq(Name) /\ Len(mv.old) \in Nat
  BY DEF Renames, Path
<1>3. \A i \in 1..Len(mv.old) : q[i] = mv.old[i] /\ r[i] = mv.old[i]
  BY <1>2, PrefixMeans
<1>4. Len(q) = Len(r) /\ \A i \in (Len(mv.old) + 1)..Len(q) : q[i] = r[i]
  BY Zenon, <1>1 DEF IsImage
<1>5. \A i \in 1..Len(q) : q[i] = r[i]
  BY <1>2, <1>3, <1>4
<1>6. QED
  BY <1>4, <1>5, Extensionality

(* The path that has the image. *)
LEMMA ImageBack ==
  ASSUME NEW mv, Renames(mv), NEW q \in Seq(Name), IsPrefix(mv.old, q)
  PROVE  mv.old \o SubSeq(Image(mv, q), Len(mv.new) + 1, Len(Image(mv, q))) = q
<1> DEFINE n == Len(mv.old)
           rest == SubSeq(q, n + 1, Len(q))
<1>1. mv.old \in Seq(Name) /\ mv.new \in Seq(Name) /\ n \in Nat /\ Len(mv.new) = n /\ Len(q) \in Nat /\ n <= Len(q)
  BY DEF Renames, Path, IsPrefix
<1>2. mv.old \o rest = q
  BY Zenon, <1>1, PrefixRest
<1>3. rest \in Seq(Name)
  BY <1>1
<1>4. Image(mv, q) = mv.new \o rest
  BY Zenon DEF Image
<1> HIDE DEF rest
<1>5. SubSeq(mv.new \o rest, Len(mv.new) + 1, Len(mv.new \o rest)) = rest
  BY Zenon, <1>1, <1>3, ConcatRest
<1>6. QED
  BY Zenon, <1>2, <1>4, <1>5

LEMMA ImageOld ==
  ASSUME NEW mv, Renames(mv)
  PROVE  IsPrefix(mv.old, mv.old) /\ Image(mv, mv.old) = mv.new
<1>1. mv.old \in Seq(Name) /\ mv.new \in Seq(Name) /\ Len(mv.old) = Len(mv.new) /\ Len(mv.old) \in Nat
  BY DEF Renames, Path
<1>2. IsPrefix(mv.old, mv.old)
  BY <1>1, PrefixMeans
<1>3. IsImage(mv, mv.old, Image(mv, mv.old))
  BY Zenon, <1>1, <1>2, ImageFacts
<1>4. Image(mv, mv.old) = mv.new
  BY <1>1, <1>3, Extensionality DEF IsImage
<1>5. QED
  BY Zenon, <1>2, <1>4

LEMMA ImageAppend ==
  ASSUME NEW mv, Renames(mv), NEW q \in Seq(Name), IsPrefix(mv.old, q), NEW k \in Name
  PROVE  IsPrefix(mv.old, Append(q, k)) /\ Image(mv, Append(q, k)) = Append(Image(mv, q), k)
<1>1. mv.old \in Seq(Name) /\ Len(mv.old) \in Nat /\ Len(mv.old) <= Len(q)
  BY DEF Renames, Path, IsPrefix
<1>2. /\ Append(q, k) \in Seq(Name) /\ Len(Append(q, k)) = Len(q) + 1
      /\ Append(q, k)[Len(q) + 1] = k /\ \A i \in 1..Len(q) : Append(q, k)[i] = q[i]
  BY AppendFacts
<1>3. IsPrefix(mv.old, Append(q, k))
  <2>1. \A i \in 1..Len(mv.old) : mv.old[i] = q[i]
    BY <1>1, PrefixMeans
  <2>2. Len(mv.old) <= Len(Append(q, k)) /\ \A i \in 1..Len(mv.old) : mv.old[i] = Append(q, k)[i]
    BY <1>1, <1>2, <2>1
  <2>3. QED
    BY Zenon, <1>1, <1>2, <2>2, PrefixMeans
<1>4. IsImage(mv, Append(q, k), Image(mv, Append(q, k))) /\ IsImage(mv, q, Image(mv, q))
  BY Zenon, <1>2, <1>3, ImageFacts
<1>5. /\ Append(Image(mv, q), k) \in Seq(Name) /\ Len(Append(Image(mv, q), k)) = Len(q) + 1
      /\ Append(Image(mv, q), k)[Len(q) + 1] = k
      /\ \A i \in 1..Len(q) : Append(Image(mv, q), k)[i] = Image(mv, q)[i]
  <2>1. Image(mv, q) \in Seq(Name) /\ Len(Image(mv, q)) = Len(q)
    BY Zenon, <1>4 DEF IsImage
  <2>2. QED
    BY <2>1, AppendFacts
<1>6. ASSUME NEW i \in 1..(Len(q) + 1) PROVE Image(mv, Append(q, k))[i] = Append(Image(mv, q), k)[i]
  <2>1. CASE i = Len(q) + 1
    <3>1. i \in (Len(mv.old) + 1)..Len(Append(q, k))
      BY <1>1, <1>2, <2>1
    <3>2. QED
      BY Zenon, <1>2, <1>4, <1>5, <2>1, <3>1 DEF IsImage
  <2>2. CASE i \in 1..Len(mv.old)
    <3>1. i \in 1..Len(q)
      BY <1>1, <2>2
    <3>2. QED
      BY Zenon, <1>4, <1>5, <2>2, <3>1 DEF IsImage
  <2>3. CASE i \in (Len(mv.old) + 1)..Len(q)
    <3>1. i \in 1..Len(q) /\ i \in (Len(mv.old) + 1)..Len(Append(q, k))
      BY <1>1, <1>2, <2>3
    <3>2. QED
      BY Zenon, <1>2, <1>4, <1>5, <2>3, <3>1 DEF IsImage
  <2>4. i = Len(q) + 1 \/ i \in 1..Len(mv.old) \/ i \in (Len(mv.old) + 1)..Len(q)
    BY <1>1, <1>6
  <2>5. QED
    BY Zenon, <2>1, <2>2, <2>3, <2>4
<1>7. Image(mv, Append(q, k)) \in Seq(Name) /\ Len(Image(mv, Append(q, k))) = Len(q) + 1
  BY Zenon, <1>2, <1>4 DEF IsImage
<1>8. QED
  BY <1>3, <1>5, <1>6, <1>7, Extensionality

(* Images are below the new bucket, and not below the old one. *)
LEMMA ImageApart ==
  ASSUME NEW mv, Renames(mv), NEW q \in Seq(Name), IsPrefix(mv.old, q)
  PROVE  IsPrefix(mv.new, Image(mv, q)) /\ ~IsPrefix(mv.old, Image(mv, q))
<1>1. mv.old \in Seq(Name) /\ mv.new \in Seq(Name) /\ Len(mv.old) = Len(mv.new) /\ Len(mv.old) <= Len(q)
  BY DEF Renames, Path, IsPrefix
<1>2. IsImage(mv, q, Image(mv, q))
  BY Zenon, ImageFacts
<1>3. Image(mv, q) \in Seq(Name) /\ Len(Image(mv, q)) = Len(q) /\ \A i \in 1..Len(mv.old) : Image(mv, q)[i] = mv.new[i]
  BY Zenon, <1>2 DEF IsImage
<1>4. IsPrefix(mv.new, Image(mv, q))
  BY <1>1, <1>3, PrefixMeans
<1>5. ASSUME IsPrefix(mv.old, Image(mv, q)) PROVE FALSE
  <2>1. \A i \in 1..Len(mv.old) : Image(mv, q)[i] = mv.old[i]
    BY <1>1, <1>3, <1>5, PrefixMeans
  <2>2. mv.old = mv.new
    BY <1>1, <1>3, <2>1, Extensionality
  <2>3. QED
    BY Zenon, <2>2 DEF Renames
<1>6. QED
  BY Zenon, <1>4, <1>5

-----------------------------------------------------------------------------
(* The copy of a bucket.                                                    *)

(* A bucket that is not there has nothing inside. *)
LEMMA NothingInside ==
  ASSUME NEW s, Forest(s), NEW q \in Path, ~Has(s, q), NEW k \in Keys
  PROVE  ~Has(s, Append(q, k)) /\ Append(q, k) # q
<1>1. q \in Seq(Name) /\ k \in Name /\ q # <<>>
  BY Zenon DEF Path, Name
<1>2. Front(Append(q, k)) = q /\ Len(Append(q, k)) > 1 /\ Append(q, k) # q
  BY <1>1, AppendFacts
<1>3. QED
  BY Zenon, <1>2 DEF Forest, Paths, Has, IsBucket

LEMMA CopyStarts ==
  ASSUME NEW s, Forest(s), NEW mv, Renames(mv), mv.was = s, IsBucket(s, mv.old), ~Has(s, mv.new),
         NEW c, c = [from |-> mv.old, to |-> mv.new, left |-> KeysIn(s, mv.old)]
  PROVE  Copying(With(s, mv.new, Bucket), mv, <<c>>)
<1> DEFINE t == With(s, mv.new, Bucket)
           cs == <<c>>
<1>1. Len(cs) = 1 /\ cs[1] = c /\ 1..Len(cs) = {1}
  OBVIOUS
<1>0. Puts(s, mv.new, Bucket, t)
  BY Zenon, WithFacts
<1>2. /\ \A r : Has(t, r) <=> Has(s, r) \/ r = mv.new
      /\ t[mv.new] = Bucket
      /\ \A r \in DOMAIN s : r # mv.new => t[r] = s[r]
  BY Zenon, <1>0 DEF Puts
<1> HIDE DEF t, cs
<1>3. mv.old \in Path /\ mv.new \in Path /\ mv.old \in Seq(Name)
  BY Zenon DEF Renames, Path
<1>4. mv.old \in Below(mv.was, mv.old) /\ Image(mv, mv.old) = mv.new
  BY ImageOld DEF Below, IsBucket, Has
<1>5. \A q \in DOMAIN mv.was : Has(t, q) /\ t[q] = mv.was[q]
  BY Zenon, <1>2 DEF Has
<1>6. \A q \in DOMAIN t \ DOMAIN mv.was :
        \E r \in Below(mv.was, mv.old) : q = Image(mv, r) /\ t[q] = mv.was[r]
  BY Zenon, <1>2, <1>4 DEF Has, IsBucket
<1>7. ASSUME NEW r \in Below(mv.was, mv.old) PROVE Has(t, Image(mv, r)) \/ ToCopy(cs, r)
  <2>1. CASE r = mv.old
    BY Zenon, <2>1, <1>2, <1>4
  <2>2. CASE r # mv.old
    <3>1. r \in DOMAIN s /\ IsPrefix(mv.old, r)
      BY Zenon, <1>7 DEF Below
    <3>2. \E k \in KeysIn(s, mv.old) : IsPrefix(Append(mv.old, k), r)
      BY <1>3, <2>2, <3>1, FirstKey
    <3>3. c.from = mv.old /\ c.left = KeysIn(s, mv.old)
      OBVIOUS
    <3>4. ToCopy(cs, r)
      BY Zenon, <1>1, <3>2, <3>3 DEF ToCopy
    <3>5. QED
      BY Zenon, <3>4
  <2>3. QED
    BY Zenon, <2>1, <2>2
<1>8. CopyOf(t, mv, c, 1)
  <2>1. c.from = mv.old /\ c.to = mv.new /\ c.left = KeysIn(s, mv.old)
    OBVIOUS
  <2>2. Len(mv.old) = Len(mv.old) + 1 - 1
    BY <1>3
  <2>3. IsBucket(t, mv.new) /\ mv.was[mv.old] = Bucket
    BY Zenon, <1>2 DEF IsBucket
  <2>4. ASSUME NEW k \in KeysIn(s, mv.old)
        PROVE  Has(mv.was, Append(mv.old, k)) /\ ~Has(t, Append(mv.new, k))
    <3>1. k \in Keys /\ Has(s, Append(mv.old, k))
      BY Zenon, <2>4 DEF KeysIn
    <3>2. ~Has(s, Append(mv.new, k)) /\ Append(mv.new, k) # mv.new
      BY <1>3, <3>1, NothingInside
    <3>3. QED
      BY Zenon, <1>2, <3>1, <3>2
  <2>5. QED
    BY Zenon, <1>4, <2>1, <2>2, <2>3, <2>4 DEF CopyOf
<1>9. QED
  BY Zenon, <1>1, <1>5, <1>6, <1>7, <1>8 DEF Copying, t, cs

LEMMA CopyReturns ==
  ASSUME NEW t, NEW mv, NEW cs \in Seq(CopySet), cs # <<>>, Last(cs).left = {}, Copying(t, mv, cs)
  PROVE  Copying(t, mv, Front(cs))
<1>1. /\ Front(cs) \in Seq(CopySet) /\ Len(Front(cs)) = Len(cs) - 1 /\ Len(cs) \in Nat \ {0}
      /\ \A i \in 1..(Len(cs) - 1) : Front(cs)[i] = cs[i]
      /\ Last(cs) = cs[Len(cs)]
  BY FrontFacts
<1>2. 1..Len(cs) = (1..Len(Front(cs))) \cup {Len(cs)}
  BY <1>1
<1>3. \A i \in 1..Len(Front(cs)) : Front(cs)[i] = cs[i]
  BY Zenon, <1>1
<1>4. \A r : ToCopy(cs, r) => ToCopy(Front(cs), r)
  BY Zenon, <1>1, <1>2, <1>3 DEF ToCopy
<1>5. \A j \in 1..Len(Front(cs)) : CopyOf(t, mv, Front(cs)[j], j)
  BY Zenon, <1>2, <1>3 DEF Copying
<1>6. QED
  BY Zenon, <1>4, <1>5 DEF Copying

(* tk is cs without the key k in the innermost call. *)
Ticks(cs, tk, k) ==
  /\ tk \in Seq(CopySet) /\ Len(tk) = Len(cs)
  /\ \A j \in 1..Len(cs) :
       /\ tk[j].from = cs[j].from /\ tk[j].to = cs[j].to
       /\ \A m : m \in tk[j].left <=> m \in cs[j].left /\ ~(j = Len(cs) /\ m = k)

LEMMA TickFacts ==
  ASSUME NEW cs \in Seq(CopySet), cs # <<>>, NEW k
  PROVE  Ticks(cs, [cs EXCEPT ![Len(cs)].left = @ \ {k}], k)
<1> DEFINE n == Len(cs)
           e == [cs[n] EXCEPT !.left = @ \ {k}]
           tk == [cs EXCEPT ![n] = e]
<1>1. n \in Nat \ {0} /\ n \in 1..Len(cs)
  OBVIOUS
<1>2. cs[n] \in CopySet
  BY <1>1
<1>3. e \in CopySet /\ e.from = cs[n].from /\ e.to = cs[n].to /\ e.left = cs[n].left \ {k}
  BY <1>2 DEF CopySet
<1>4. [cs EXCEPT ![n].left = @ \ {k}] = tk
  OBVIOUS
<1> HIDE DEF e, n
<1>5. tk \in Seq(CopySet) /\ Len(tk) = Len(cs) /\ \A j \in 1..Len(cs) : tk[j] = IF j = n THEN e ELSE cs[j]
  BY <1>1, <1>3, ExceptSeq
<1> HIDE DEF tk
<1>6. QED
  BY <1>3, <1>4, <1>5 DEF Ticks, n

(* What is known of the next key to copy. *)
NextKey(t, mv, cs, q, r) ==
  /\ q \in Below(mv.was, mv.old) /\ q \in Path /\ t[q] = mv.was[q] /\ Has(t, q)
  /\ r = Image(mv, q) /\ r \in Path /\ ~Has(t, r)
  /\ Len(q) = Len(mv.old) + Len(cs)

LEMMA NextKeyFacts ==
  ASSUME NEW t, NEW mv, Renames(mv), NEW cs \in Seq(CopySet), cs # <<>>, Copying(t, mv, cs),
         NEW k \in Last(cs).left
  PROVE  NextKey(t, mv, cs, Append(Last(cs).from, k), Append(Last(cs).to, k))
<1> DEFINE c == Last(cs)
           q == Append(c.from, k)
           r == Append(c.to, k)
<1>1. c = cs[Len(cs)] /\ c \in CopySet /\ Len(cs) \in Nat \ {0}
  BY FrontFacts
<1>2. CopyOf(t, mv, c, Len(cs))
  <2>1. Len(cs) \in 1..Len(cs)
    BY <1>1
  <2>2. QED
    BY Zenon, <1>1, <2>1 DEF Copying
<1>3. k \in Keys /\ k \in Name /\ c.from \in Path /\ c.to \in Path /\ c.from \in Seq(Name) /\ c.to \in Seq(Name)
  BY <1>1 DEF CopySet, Name, Path
<1> HIDE DEF c
<1>4. IsPrefix(mv.old, c.from) /\ c.to = Image(mv, c.from) /\ Has(mv.was, q) /\ ~Has(t, r)
  BY Zenon, <1>2 DEF CopyOf, Below, c
<1>5. IsPrefix(mv.old, q) /\ r = Image(mv, q)
  BY <1>3, <1>4, ImageAppend
<1>6. q \in Path /\ r \in Path /\ Len(q) = Len(c.from) + 1
  BY <1>3, AppendFacts DEF Path
<1>7. Len(q) = Len(mv.old) + Len(cs)
  <2>1. Len(c.from) = Len(mv.old) + Len(cs) - 1 /\ Len(mv.old) \in Nat
    BY <1>2 DEF CopyOf, Renames, Path
  <2>2. QED
    BY <1>1, <1>6, <2>1
<1>8. t[q] = mv.was[q] /\ Has(t, q) /\ q \in Below(mv.was, mv.old)
  BY Zenon, <1>4, <1>5 DEF Copying, Has, Below
<1>9. QED
  BY Zenon, <1>4, <1>5, <1>6, <1>7, <1>8 DEF NextKey, c

(* The calls that are left after a step of the copy: nx, if the key is a    *)
(* bucket, and the others.                                                  *)
LEMMA CopyStep ==
  ASSUME NEW t, Forest(t), NEW mv, Renames(mv), NEW cs \in Seq(CopySet), cs # <<>>, Copying(t, mv, cs),
         NEW k \in Last(cs).left, NEW q, q = Append(Last(cs).from, k), NEW r, r = Append(Last(cs).to, k),
         NEW tk, Ticks(cs, tk, k), NEW cs2 \in Seq(CopySet),
         \A j \in 1..Len(cs) : cs2[j] = tk[j],
         IF IsBucket(t, q)
         THEN Len(cs2) = Len(cs) + 1 /\ cs2[Len(cs) + 1] = [from |-> q, to |-> r, left |-> KeysIn(t, q)]
         ELSE Len(cs2) = Len(cs)
  PROVE  Copying(With(t, r, t[q]), mv, cs2)
<1> DEFINE u == With(t, r, t[q])
           w == mv.was
           n == Len(cs)
           nx == [from |-> q, to |-> r, left |-> KeysIn(t, q)]
<1>1. NextKey(t, mv, cs, q, r)
  BY Zenon, NextKeyFacts
<1>0. Puts(t, r, t[q], u)
  BY Zenon, WithFacts
<1>2. /\ \A x : Has(u, x) <=> Has(t, x) \/ x = r
      /\ u[r] = t[q]
      /\ \A x \in DOMAIN t : x # r => u[x] = t[x]
  BY Zenon, <1>0 DEF Puts
<1> HIDE DEF u
<1>3. n \in Nat \ {0} /\ Last(cs) = cs[n] /\ n \in 1..n
  <2>1. n \in Nat \ {0}
    BY Zenon, LenPositive
  <2>2. \A i \in Nat \ {0} : i \in 1..i
    OBVIOUS
  <2>3. QED
    BY Zenon, <2>1, <2>2 DEF Last
<1>4. nx.from = q /\ nx.to = r /\ nx.left = KeysIn(t, q)
  OBVIOUS
<1> HIDE DEF n, nx
<1>5. \A x \in DOMAIN w : Has(u, x) /\ u[x] = w[x]
  BY Zenon, <1>1, <1>2 DEF Copying, NextKey, Has
<1>6. \A x \in DOMAIN u \ DOMAIN w : \E y \in Below(w, mv.old) : x = Image(mv, y) /\ u[x] = w[y]
  <2>1. ASSUME NEW x \in DOMAIN u \ DOMAIN w
        PROVE  \E y \in Below(w, mv.old) : x = Image(mv, y) /\ u[x] = w[y]
    <3>1. CASE x = r
      BY Zenon, <3>1, <1>1, <1>2 DEF NextKey
    <3>2. CASE x # r
      BY Zenon, <3>2, <2>1, <1>2 DEF Copying, Has
    <3>3. QED
      BY Zenon, <3>1, <3>2
  <2>2. QED
    BY Zenon, <2>1
<1>7. 1..n \subseteq 1..Len(cs2) /\ (IsBucket(t, q) => n + 1 \in 1..Len(cs2) /\ cs2[n + 1] = nx)
  BY <1>3 DEF n, nx
<1>8. ASSUME NEW y \in Below(w, mv.old), ToCopy(cs, y) PROVE Has(u, Image(mv, y)) \/ ToCopy(cs2, y)
  <2>1. PICK j \in 1..n : \E m \in cs[j].left : IsPrefix(Append(cs[j].from, m), y)
    BY Zenon, <1>8 DEF ToCopy, n
  <2>2. PICK m \in cs[j].left : IsPrefix(Append(cs[j].from, m), y)
    BY Zenon, <2>1
  <2>3. cs2[j] = tk[j] /\ tk[j].from = cs[j].from /\ (m \in tk[j].left \/ (j = n /\ m = k))
    BY Zenon, <2>1, <2>2 DEF Ticks, n
  <2>4. CASE m \in tk[j].left
    <3>1. j \in 1..Len(cs2)
      BY Zenon, <1>7, <2>1
    <3>2. ToCopy(cs2, y)
      BY Zenon, <2>2, <2>3, <2>4, <3>1 DEF ToCopy
    <3>3. QED
      BY Zenon, <3>2
  <2>5. CASE j = n /\ m = k
    <3>1. IsPrefix(q, y)
      BY Zenon, <2>2, <2>5, <1>3
    <3>2. CASE y = q
      BY Zenon, <3>2, <1>1, <1>2 DEF NextKey
    <3>3. CASE y # q
      <4>1. y \in DOMAIN w /\ q \in Path /\ Forest(w)
        BY Zenon, <1>1, <1>8 DEF Below, NextKey, Copying
      <4>2. IsBucket(w, q) /\ \E h \in KeysIn(w, q) : IsPrefix(Append(q, h), y)
        BY <3>1, <3>3, <4>1, FirstKey
      <4>3. IsBucket(t, q) /\ KeysIn(w, q) \subseteq KeysIn(t, q)
        BY Zenon, <1>1, <4>2 DEF NextKey, IsBucket, KeysIn, Copying, Has
      <4>4. n + 1 \in 1..Len(cs2) /\ cs2[n + 1].from = q /\ cs2[n + 1].left = KeysIn(t, q)
        BY Zenon, <4>3, <1>4, <1>7
      <4>5. ToCopy(cs2, y)
        BY Zenon, <4>2, <4>3, <4>4 DEF ToCopy
      <4>6. QED
        BY Zenon, <4>5
    <3>4. QED
      BY Zenon, <3>2, <3>3
  <2>6. QED
    BY Zenon, <2>3, <2>4, <2>5
<1>9. \A y \in Below(w, mv.old) : Has(u, Image(mv, y)) \/ ToCopy(cs2, y)
  BY Zenon, <1>2, <1>8 DEF Copying
<1>10. ASSUME NEW j \in 1..n PROVE CopyOf(u, mv, cs2[j], j)
  <2>1. CopyOf(t, mv, cs[j], j) /\ cs[j] \in CopySet /\ cs[n] \in CopySet
    BY <1>3, <1>10 DEF Copying, n
  <2>2. /\ cs2[j].from = cs[j].from /\ cs2[j].to = cs[j].to
        /\ \A m : m \in cs2[j].left <=> m \in cs[j].left /\ ~(j = n /\ m = k)
    BY Zenon, <1>10 DEF Ticks, n
  <2>3. IsBucket(u, cs[j].to)
    BY Zenon, <1>1, <1>2, <2>1 DEF CopyOf, IsBucket, NextKey, Has
  <2>4. ASSUME NEW m \in cs2[j].left PROVE ~Has(u, Append(cs[j].to, m))
    <3>1. m \in cs[j].left /\ ~(j = n /\ m = k) /\ ~Has(t, Append(cs[j].to, m))
      BY Zenon, <2>1, <2>2, <2>4 DEF CopyOf
    <3>2. SUFFICES ASSUME Append(cs[j].to, m) = r PROVE FALSE
      BY Zenon, <1>2, <3>1
    <3>3. cs[j].to \in Seq(Name) /\ cs[n].to \in Seq(Name) /\ m \in Name /\ k \in Name
      BY <1>3, <2>1, <3>1 DEF CopySet, Path, Name
    <3>4. cs[j].to = cs[n].to /\ m = k
      <4>1. Append(cs[j].to, m) = Append(cs[n].to, k)
        BY Zenon, <3>2, <1>3
      <4>2. SameEnd(cs[j].to, cs[n].to, m, k)
        BY Zenon, <3>3, <4>1, SameAppend
      <4>3. QED
        BY Zenon, <4>2 DEF SameEnd
    <3>5. Len(r) = Len(cs[j].to) + 1 /\ Len(r) = Len(q)
      <4>1. Len(Append(cs[j].to, m)) = Len(cs[j].to) + 1
        BY <3>3, AppendFacts
      <4>2. IsImage(mv, q, r)
        BY Zenon, <1>1, ImageFacts DEF NextKey, Below, Path
      <4>3. QED
        BY Zenon, <3>2, <4>1, <4>2 DEF IsImage
    <3>6. Len(cs[j].to) = Len(cs[j].from)
      <4>1. IsImage(mv, cs[j].from, cs[j].to)
        <5>1. cs[j].from \in Seq(Name)
          BY <2>1 DEF CopySet, Path
        <5>2. QED
          BY Zenon, <5>1, <2>1, ImageFacts DEF CopyOf, Below
      <4>2. QED
        BY Zenon, <4>1 DEF IsImage
    <3>7. Len(cs[j].from) = Len(mv.old) + j - 1 /\ Len(q) = Len(mv.old) + n /\ Len(mv.old) \in Nat
      BY <1>1, <2>1 DEF CopyOf, NextKey, n, Renames, Path
    <3>8. j = n
      BY <1>3, <1>10, <3>5, <3>6, <3>7
    <3>9. QED
      BY Zenon, <3>1, <3>4, <3>8
  <2>5. QED
    BY Zenon, <2>1, <2>2, <2>3, <2>4 DEF CopyOf
<1>11. ASSUME IsBucket(t, q) PROVE CopyOf(u, mv, nx, n + 1)
  <2>1. q \in Below(w, mv.old) /\ w[q] = Bucket /\ r = Image(mv, q) /\ IsBucket(u, r) /\ q \in Path /\ r \in Path
    BY Zenon, <1>1, <1>2, <1>11 DEF NextKey, IsBucket
  <2>2. Len(q) = Len(mv.old) + (n + 1) - 1
    <3>1. Len(q) = Len(mv.old) + n /\ Len(mv.old) \in Nat
      BY <1>1 DEF NextKey, n, Renames, Path
    <3>2. QED
      BY <1>3, <3>1
  <2>3. ASSUME NEW m \in KeysIn(t, q) PROVE Has(w, Append(q, m)) /\ ~Has(u, Append(r, m))
    <3>1. m \in Keys /\ m \in Name /\ Has(t, Append(q, m)) /\ q \in Seq(Name)
      BY Zenon, <2>1, <2>3 DEF KeysIn, Name, Path
    <3>2. IsPrefix(mv.old, Append(q, m))
      BY <2>1, <3>1, ImageAppend DEF Below
    <3>3. ASSUME ~Has(w, Append(q, m)) PROVE FALSE
      <4>1. PICK y \in Below(w, mv.old) : Append(q, m) = Image(mv, y)
        BY Zenon, <3>1, <3>3 DEF Copying, Has
      <4>2. y \in Seq(Name) /\ IsPrefix(mv.old, y)
        BY Zenon, <4>1 DEF Below, Copying, Forest, Path
      <4>3. ~IsPrefix(mv.old, Image(mv, y))
        BY <4>2, ImageApart
      <4>4. QED
        BY Zenon, <3>2, <4>1, <4>3
    <3>4. ~Has(t, Append(r, m)) /\ Append(r, m) # r
      BY <1>1, <2>1, <3>1, NothingInside DEF NextKey
    <3>5. QED
      BY Zenon, <1>2, <3>3, <3>4
  <2>4. QED
    BY Zenon, <1>4, <2>1, <2>2, <2>3 DEF CopyOf
<1>12. \A j \in 1..Len(cs2) : CopyOf(u, mv, cs2[j], j)
  <2>1. \A j \in 1..Len(cs2) : j \in 1..n \/ (IsBucket(t, q) /\ j = n + 1)
    BY <1>3 DEF n
  <2>2. QED
    BY Zenon, <2>1, <1>7, <1>10, <1>11
<1>13. QED
  BY Zenon, <1>5, <1>6, <1>9, <1>12 DEF Copying, u

(* With nothing left to copy, what the delete of the old bucket leaves is   *)
(* what a move leaves.                                                      *)
LEMMA CopyEnds ==
  ASSUME NEW t, Forest(t), NEW mv, Renames(mv), Copying(t, mv, <<>>)
  PROVE  delete_bucket(t, mv.old) = Moved(mv.was, mv.old, mv.new)
<1> DEFINE w == mv.was
           inside == Below(w, mv.old)
           D == (DOMAIN w \ inside) \cup {Image(mv, r) : r \in inside}
           val(q) == IF IsPrefix(mv.new, q) THEN w[mv.old \o SubSeq(q, Len(mv.new) + 1, Len(q))] ELSE w[q]
<1>1. Moved(w, mv.old, mv.new) = [q \in D |-> val(q)]
  BY Zenon DEF Moved, Image
<1>2. delete_bucket(t, mv.old) = [q \in DOMAIN t \ Below(t, mv.old) |-> t[q]]
  BY Zenon DEF delete_bucket, Without
<1>3. \A r \in inside : Has(t, Image(mv, r))
  <2>1. \A r : ~ToCopy(<<>>, r)
    BY DEF ToCopy
  <2>2. QED
    BY Zenon, <2>1 DEF Copying
<1>4. \A r \in inside : r \in Seq(Name) /\ r \in DOMAIN w /\ IsPrefix(mv.old, r)
  BY Zenon DEF Below, Copying, Forest, Path
<1>5. DOMAIN t \ Below(t, mv.old) = D
  <2>1. ASSUME NEW q \in DOMAIN t, q \notin Below(t, mv.old) PROVE q \in D
    <3>1. CASE q \in DOMAIN w
      BY Zenon, <2>1, <3>1 DEF Below
    <3>2. CASE q \notin DOMAIN w
      BY Zenon, <2>1, <3>2 DEF Copying
    <3>3. QED
      BY Zenon, <3>1, <3>2
  <2>2. ASSUME NEW q \in DOMAIN w \ inside PROVE q \in DOMAIN t /\ q \notin Below(t, mv.old)
    BY Zenon, <2>2 DEF Copying, Below, Has
  <2>3. ASSUME NEW r \in inside PROVE Image(mv, r) \in DOMAIN t /\ Image(mv, r) \notin Below(t, mv.old)
    <3>1. ~IsPrefix(mv.old, Image(mv, r))
      BY <1>4, <2>3, ImageApart
    <3>2. QED
      BY Zenon, <1>3, <2>3, <3>1 DEF Below, Has
  <2>4. QED
    BY Zenon, <2>1, <2>2, <2>3
<1>6. ASSUME NEW q \in D PROVE t[q] = val(q)
  <2>1. CASE q \in DOMAIN w
    <3>1. ~IsPrefix(mv.new, q)
      BY Zenon, <2>1, PrefixClosed DEF Renames, Copying
    <3>2. QED
      BY Zenon, <2>1, <3>1 DEF Copying
  <2>2. CASE q \notin DOMAIN w
    <3>1. q \in DOMAIN t
      BY Zenon, <1>5, <1>6
    <3>2. PICK r \in inside : q = Image(mv, r) /\ t[q] = w[r]
      BY Zenon, <2>2, <3>1 DEF Copying
    <3>3. IsPrefix(mv.new, q)
      BY <1>4, <3>2, ImageApart
    <3>4. mv.old \o SubSeq(q, Len(mv.new) + 1, Len(q)) = r
      BY <1>4, <3>2, ImageBack
    <3>5. QED
      BY Zenon, <3>2, <3>3, <3>4
  <2>3. QED
    BY Zenon, <2>1, <2>2
<1> HIDE DEF D, val, w
<1>7. QED
  BY Zenon, <1>1, <1>2, <1>5, <1>6 DEF w

-----------------------------------------------------------------------------
(* The pending calls.                                                       *)

LEMMA CallsKept ==
  ASSUME NEW t, NEW u, NEW cs, CallsOK(t, cs), \A j \in 1..Len(cs) : IsBucket(u, cs[j].bucket)
  PROVE  CallsOK(u, cs)
BY Zenon DEF CallsOK, Pending

(* The call that runs. *)
Running1(t, cs, c) ==
  /\ c = cs[Len(cs)] /\ Len(cs) \in Nat \ {0} /\ Len(cs) \in 1..Len(cs)
  /\ c \in CallSet /\ IsBucket(t, c.bucket)

LEMMA LastCall ==
  ASSUME NEW t, NEW cs, CallsOK(t, cs), cs # <<>>
  PROVE  Running1(t, cs, Last(cs))
<1>1. cs \in Seq(CallSet) /\ Pending(t, cs)
  BY Zenon DEF CallsOK
<1>2. Len(cs) \in Nat \ {0}
  BY Zenon, <1>1, LenPositive
<1>3. Len(cs) \in 1..Len(cs)
  BY <1>2
<1>4. cs[Len(cs)] \in CallSet
  BY <1>1, <1>3
<1>5. QED
  BY Zenon, <1>1, <1>2, <1>3, <1>4 DEF Running1, Last, Pending

Advances(cs, ad) ==
  /\ ad \in Seq(CallSet) /\ Len(ad) = Len(cs)
  /\ \A j \in 1..Len(cs) : ad[j].bucket = cs[j].bucket /\ ad[j].operate = cs[j].operate
  /\ \A j \in 1..Len(cs) : j # Len(cs) => ad[j] = cs[j]
  /\ ad[Len(cs)].i = cs[Len(cs)].i + 1

LEMMA AdvancedFacts ==
  ASSUME NEW cs \in Seq(CallSet), cs # <<>>
  PROVE  Advances(cs, [cs EXCEPT ![Len(cs)].i = @ + 1])
<1> DEFINE n == Len(cs)
           e == [cs[n] EXCEPT !.i = @ + 1]
           ad == [cs EXCEPT ![n] = e]
<1>1. n \in Nat \ {0} /\ n \in 1..Len(cs)
  OBVIOUS
<1>2. cs[n] \in CallSet
  BY <1>1
<1>3. e \in CallSet /\ e.bucket = cs[n].bucket /\ e.operate = cs[n].operate /\ e.i = cs[n].i + 1
  <2>1. cs[n].bucket \in Path /\ cs[n].operate \in Seq(Operations) /\ cs[n].i \in Nat \ {0}
    BY <1>2 DEF CallSet
  <2>2. cs[n].i + 1 \in Nat \ {0}
    BY <2>1
  <2>3. e = [bucket |-> cs[n].bucket, operate |-> cs[n].operate, i |-> cs[n].i + 1]
    BY <1>2 DEF CallSet
  <2> HIDE DEF e
  <2>4. QED
    BY <2>1, <2>2, <2>3 DEF CallSet
<1>4. [cs EXCEPT ![n].i = @ + 1] = ad
  OBVIOUS
<1> HIDE DEF e, n
<1>5. ad \in Seq(CallSet) /\ Len(ad) = Len(cs) /\ \A j \in 1..Len(cs) : ad[j] = IF j = n THEN e ELSE cs[j]
  BY <1>1, <1>3, ExceptSeq
<1> HIDE DEF ad
<1>6. QED
  BY <1>1, <1>3, <1>4, <1>5 DEF Advances, n

LEMMA CallsAdvanced ==
  ASSUME NEW t, NEW cs, CallsOK(t, cs), cs # <<>>, More(Last(cs)), NEW ad, Advances(cs, ad)
  PROVE  CallsOK(t, ad)
<1>1. Running1(t, cs, Last(cs))
  BY Zenon, LastCall
<1>2. ASSUME NEW j \in 1..Len(cs) PROVE ad[j].i <= Len(ad[j].operate) + 1
  <2>1. CASE j = Len(cs)
    <3>1. cs[j].i <= Len(cs[j].operate) /\ cs[j].i \in Nat /\ Len(cs[j].operate) \in Nat
      BY <1>1, <2>1 DEF More, Running1, CallSet
    <3>2. QED
      BY <2>1, <3>1 DEF Advances
  <2>2. CASE j # Len(cs)
    BY Zenon, <1>2, <2>2 DEF Advances, CallsOK, Pending
  <2>3. QED
    BY Zenon, <2>1, <2>2
<1>3. QED
  BY Zenon, <1>2 DEF Advances, CallsOK, Pending

LEMMA CallsPushed ==
  ASSUME NEW t, Forest(t), NEW cs, CallsOK(t, cs), cs # <<>>,
         NEW k \in Keys, NEW q, q = Append(Last(cs).bucket, k), IsBucket(t, q), NEW other \in Seq(Operations)
  PROVE  CallsOK(t, Append(cs, Call(q, other)))
<1> DEFINE n == Len(cs)
           c == Call(q, other)
           ps == Append(cs, c)
<1>1. Running1(t, cs, Last(cs)) /\ cs \in Seq(CallSet)
  BY Zenon, LastCall DEF CallsOK
<1>2. Last(cs) = cs[n] /\ n \in Nat \ {0} /\ n \in 1..n /\ cs[n] \in CallSet /\ IsBucket(t, cs[n].bucket)
  BY Zenon, <1>1 DEF Running1
<1>3. q \in Path /\ Len(q) = Len(cs[n].bucket) + 1 /\ Len(cs[n].bucket) \in Nat
  BY <1>2, KeyPath
<1>4. c \in CallSet /\ c.bucket = q /\ c.operate = other /\ c.i = 1
  BY <1>3 DEF Call, CallSet
<1>5. c.i <= Len(c.operate) + 1
  BY <1>4
<1> HIDE DEF c
<1>6. ps \in Seq(CallSet) /\ Len(ps) = n + 1 /\ ps[n + 1] = c /\ \A j \in 1..n : ps[j] = cs[j]
  BY <1>1, <1>4, AppendFacts
<1> HIDE DEF ps, n
<1>7. ASSUME NEW j \in 1..n PROVE Len(cs[j].bucket) < Len(q)
  <2>0. Len(cs[j].bucket) \in Nat
    <3>1. cs[j] \in CallSet
      BY <1>1, <1>7 DEF n
    <3>2. cs[j].bucket \in Path
      BY <3>1 DEF CallSet
    <3>3. QED
      BY <3>2 DEF Path
  <2>1. Len(cs[j].bucket) <= Len(cs[n].bucket)
    <3>1. CASE j = n
      BY <1>3, <3>1
    <3>2. CASE j # n
      <4>1. j < n
        BY <1>2, <1>7, <3>2
      <4>2. Len(cs[j].bucket) < Len(cs[n].bucket)
        BY Zenon, <1>2, <1>7, <4>1 DEF CallsOK, Pending, n
      <4>3. QED
        BY <1>3, <2>0, <4>2
    <3>3. QED
      BY Zenon, <3>1, <3>2
  <2>2. QED
    BY <1>3, <2>0, <2>1
<1>8. 1..Len(ps) = (1..n) \cup {n + 1} /\ \A j \in 1..n : ~(n + 1 < j)
  BY <1>2, <1>6
<1>9. ~(n + 1 < n + 1)
  BY <1>2
<1>10. ASSUME NEW j \in 1..Len(ps)
       PROVE  /\ IsBucket(t, ps[j].bucket) /\ ps[j].i <= Len(ps[j].operate) + 1
              /\ \A m \in 1..Len(ps) : j < m => Len(ps[j].bucket) < Len(ps[m].bucket)
  <2>1. CASE j = n + 1
    BY Zenon, <2>1, <1>4, <1>5, <1>6, <1>8, <1>9
  <2>2. CASE j \in 1..n
    BY Zenon, <2>2, <1>4, <1>6, <1>7, <1>8 DEF CallsOK, Pending, n
  <2>3. QED
    BY Zenon, <2>1, <2>2, <1>8, <1>10
<1>11. QED
  BY Zenon, <1>6, <1>10 DEF CallsOK, Pending, ps, c

LEMMA CallsPopped ==
  ASSUME NEW t, NEW cs, CallsOK(t, cs), cs # <<>>
  PROVE  CallsOK(t, Front(cs))
<1>1. cs \in Seq(CallSet)
  BY Zenon DEF CallsOK
<1>2. /\ Front(cs) \in Seq(CallSet) /\ Len(Front(cs)) = Len(cs) - 1 /\ Len(cs) \in Nat \ {0}
      /\ \A i \in 1..(Len(cs) - 1) : Front(cs)[i] = cs[i]
  BY <1>1, FrontFacts
<1>3. 1..Len(Front(cs)) \subseteq 1..Len(cs)
  BY <1>2
<1>4. \A i \in 1..Len(Front(cs)) : Front(cs)[i] = cs[i]
  BY Zenon, <1>2
<1>5. QED
  BY Zenon, <1>2, <1>3, <1>4 DEF CallsOK, Pending

-----------------------------------------------------------------------------
(* Every step keeps the invariant.                                          *)

LEMMA NoCalls == \A t : CallsOK(t, <<>>)
BY DEF CallsOK, Pending

LEMMA UnwindInv ==
  ASSUME Inv, Unwind
  PROVE  Inv'
BY Zenon, NoCalls, EmptySeq DEF Inv, Unwind, Idle

(* The operation that the innermost call is at. *)
OpOK(p, i) ==
  /\ IsBucket(tx, p)
  /\ i.op = "RenameKey" => i.old_key \in Keys /\ i.new_key \in Keys
  /\ i.op # "RenameKey" => i.key \in Keys
  /\ i.op = "AddKey" => i.value \in Values
  /\ i.op \in {"AddBucket", "StepInto"} => i.other \in Seq(Operations)

LEMMA CurrentOp ==
  ASSUME Inv, Running, More(Last(calls))
  PROVE  OpOK(Last(calls).bucket, Last(calls).operate[Last(calls).i])
<1> DEFINE c == Last(calls)
           i == c.operate[c.i]
<1>1. Running1(tx, calls, c)
  BY Zenon, LastCall DEF Inv, Running, Idle
<1>2. c \in CallSet /\ IsBucket(tx, c.bucket)
  BY Zenon, <1>1 DEF Running1
<1>3. c.operate \in Seq(Operations) /\ c.i \in Nat \ {0} /\ c.i <= Len(c.operate)
  BY <1>2 DEF CallSet, More
<1> HIDE DEF c
<1>4. i \in Operations
  BY <1>3
<1> HIDE DEF i
<1>5. i \in RenameKeys \/ i \in AddKeys \/ i \in OnKeys \/ i \in Steps
  BY Zenon, <1>4, ExtendAssumption
<1>6. i \in RenameKeys => i.op = "RenameKey" /\ i.old_key \in Keys /\ i.new_key \in Keys
  BY DEF RenameKeys
<1>7. i \in AddKeys => i.op = "AddKey" /\ i.key \in Keys /\ i.value \in Values
  BY DEF AddKeys
<1>8. i \in OnKeys => i.op \in {"DeleteKey", "Read"} /\ i.key \in Keys
  BY DEF OnKeys
<1>9. i \in Steps => i.op \in {"AddBucket", "StepInto"} /\ i.key \in Keys /\ i.other \in Seq(Operations)
  BY DEF Steps
<1>10. OpOK(c.bucket, i)
  BY <1>2, <1>5, <1>6, <1>7, <1>8, <1>9 DEF OpOK
<1>11. QED
  BY Zenon, <1>10 DEF c, i

LEMMA BecomesInv ==
  ASSUME Inv, Running, More(Last(calls)), NEW t, Forest(t), \A r : IsBucket(tx, r) => IsBucket(t, r), Becomes(t)
  PROVE  Inv'
<1>1. CallsOK(tx, calls) /\ calls # <<>> /\ calls \in Seq(CallSet)
  BY Zenon DEF Inv, Running, Idle, CallsOK
<1>2. Advances(calls, Advanced)
  BY Zenon, <1>1, AdvancedFacts DEF Advanced
<1>3. CallsOK(tx, Advanced)
  BY Zenon, <1>1, <1>2, CallsAdvanced
<1>4. CallsOK(t, Advanced)
  BY Zenon, <1>3, CallsKept DEF CallsOK, Pending
<1>5. Advanced # <<>>
  <2>1. Len(calls) \in Nat \ {0} /\ Len(Advanced) = Len(calls)
    BY Zenon, <1>1, <1>2, LenPositive DEF Advances
  <2>2. QED
    BY <2>1
<1>6. QED
  BY Zenon, <1>4, <1>5 DEF Inv, Becomes, Running, Idle

LEMMA StepsIntoInv ==
  ASSUME Inv, Running, More(Last(calls)), NEW t, Forest(t), \A r : IsBucket(tx, r) => IsBucket(t, r),
         NEW k \in Keys, NEW q, q = Append(Last(calls).bucket, k), IsBucket(t, q),
         NEW other \in Seq(Operations), StepsInto(t, q, other)
  PROVE  Inv'
<1> DEFINE ps == Append(Advanced, Call(q, other))
<1>1. CallsOK(tx, calls) /\ calls # <<>> /\ calls \in Seq(CallSet)
  BY Zenon DEF Inv, Running, Idle, CallsOK
<1>2. Advances(calls, Advanced)
  BY Zenon, <1>1, AdvancedFacts DEF Advanced
<1>3. CallsOK(tx, Advanced)
  BY Zenon, <1>1, <1>2, CallsAdvanced
<1>4. CallsOK(t, Advanced)
  BY Zenon, <1>3, CallsKept DEF CallsOK, Pending
<1>5. Advanced # <<>> /\ Last(Advanced).bucket = Last(calls).bucket
  <2>1. Len(calls) \in Nat \ {0} /\ Len(Advanced) = Len(calls)
    BY Zenon, <1>1, <1>2, LenPositive DEF Advances
  <2>2. Len(calls) \in 1..Len(calls) /\ Advanced # <<>>
    BY <2>1
  <2>3. QED
    BY Zenon, <1>2, <2>1, <2>2 DEF Last, Advances
<1>6. CallsOK(t, ps)
  BY Zenon, <1>4, <1>5, CallsPushed
<1>7. ps # <<>>
  BY <1>2 DEF Advances
<1> HIDE DEF ps
<1>8. calls' = ps
  BY Zenon DEF StepsInto, ps
<1>9. QED
  BY Zenon, <1>6, <1>7, <1>8 DEF Inv, StepsInto, Running, Idle

(* Two keys of a bucket can be the ends of a rename. *)
LEMMA TwoKeys ==
  ASSUME NEW s, Forest(s), NEW p, IsBucket(s, p), NEW k \in Keys, NEW m \in Keys, k # m,
         NEW mv, mv.old = Append(p, k), mv.new = Append(p, m)
  PROVE  Renames(mv) /\ mv # NoMove
<1>1. p \in Seq(Name) /\ k \in Name /\ m \in Name
  BY Zenon DEF Forest, IsBucket, Has, Path, Name
<1>2. /\ Append(p, k) \in Seq(Name) /\ Append(p, k) # <<>> /\ Len(Append(p, k)) = Len(p) + 1
      /\ Append(p, m) \in Seq(Name) /\ Append(p, m) # <<>> /\ Len(Append(p, m)) = Len(p) + 1
  BY <1>1, AppendFacts
<1>3. ASSUME Append(p, k) = Append(p, m) PROVE FALSE
  <2>1. SameEnd(p, p, k, m)
    BY Zenon, <1>1, <1>3, SameAppend
  <2>2. QED
    BY Zenon, <2>1 DEF SameEnd
<1>4. Renames(mv)
  BY Zenon, <1>2, <1>3 DEF Renames, Path
<1>5. NoMove.old = <<>>
  BY DEF NoMove
<1>6. QED
  BY Zenon, <1>2, <1>4, <1>5

LEMMA MoveRenames ==
  ASSUME Inv, moving # NoMove
  PROVE  Renames(moving)
<1>1. RenameOf(Last(calls), moving) /\ Running1(tx, calls, Last(calls)) /\ Forest(tx)
  BY Zenon, LastCall DEF Inv, Idle
<1>2. PICK k \in Keys, m \in Keys : k # m /\ moving.old = Append(Last(calls).bucket, k)
                                    /\ moving.new = Append(Last(calls).bucket, m)
  BY Zenon, <1>1 DEF RenameOf
<1>3. IsBucket(tx, Last(calls).bucket)
  BY Zenon, <1>1 DEF Running1
<1>4. QED
  BY <1>1, <1>2, <1>3, TwoKeys

LEMMA RenameInv ==
  ASSUME Inv, Running, More(Last(calls)),
         NEW p, p = Last(calls).bucket, NEW i, i = Last(calls).operate[Last(calls).i],
         i.op = "RenameKey", RenameKey(p, i)
  PROVE  Inv'
<1> DEFINE from == Append(p, i.old_key)
           to == Append(p, i.new_key)
           passed == ~Has(tx, from) \/ i.old_key = i.new_key \/ Has(tx, to)
<1>1. IsBucket(tx, p) /\ i.old_key \in Keys /\ i.new_key \in Keys /\ Forest(tx)
  BY Zenon, CurrentOp DEF OpOK, Inv
<1>2. CASE passed /\ Becomes(tx)
  BY Zenon, <1>1, <1>2, BecomesInv
<1>3. CASE ~passed /\ IsValue(tx, from) /\ Becomes(With(tx, to, tx[from]))
  <2>1. ~IsBucket(tx, to) /\ tx[from] \in Values \cup {Bucket}
    BY Zenon, <1>1, <1>3 DEF IsBucket, IsValue, Has, Forest, Paths
  <2>2. Forest(With(tx, to, tx[from])) /\ \A r : IsBucket(tx, r) => IsBucket(With(tx, to, tx[from]), r)
    BY <1>1, <2>1, ForestPut
  <2>3. QED
    BY Zenon, <1>3, <2>2, BecomesInv
<1>4. CASE /\ ~passed /\ IsBucket(tx, from)
           /\ tx' = With(tx, to, Bucket)
           /\ calls' = Advanced
           /\ moving' = [old |-> from, new |-> to, was |-> tx]
           /\ copies' = <<[from |-> from, to |-> to, left |-> KeysIn(tx, from)]>>
           /\ UNCHANGED <<store, again>>
  <2> DEFINE c == [from |-> from, to |-> to, left |-> KeysIn(tx, from)]
             mv == [old |-> from, new |-> to, was |-> tx]
  <2>1. ~IsBucket(tx, to) /\ ~Has(tx, to) /\ i.old_key # i.new_key /\ Bucket \in Values \cup {Bucket}
    BY Zenon, <1>4 DEF IsBucket
  <2>2. Forest(tx') /\ \A r : IsBucket(tx, r) => IsBucket(tx', r)
    <3>1. Forest(With(tx, to, Bucket)) /\ \A r : IsBucket(tx, r) => IsBucket(With(tx, to, Bucket), r)
      BY <1>1, <2>1, ForestPut
    <3>2. QED
      BY Zenon, <1>4, <3>1
  <2>3. mv.old = from /\ mv.new = to /\ mv.was = tx
    OBVIOUS
  <2>4. Renames(mv) /\ mv # NoMove
    BY <1>1, <2>1, <2>3, TwoKeys
  <2>5. Copying(tx', mv, <<c>>)
    <3> HIDE DEF mv
    <3>1. c = [from |-> mv.old, to |-> mv.new, left |-> KeysIn(tx, mv.old)]
      BY Zenon, <2>3
    <3> HIDE DEF c
    <3>2. Copying(With(tx, mv.new, Bucket), mv, <<c>>)
      BY Zenon, <1>1, <1>4, <2>1, <2>3, <2>4, <3>1, CopyStarts
    <3>3. QED
      BY Zenon, <1>4, <2>3, <3>2
  <2>6. c \in CopySet
    <3>1. from \in Path /\ to \in Path
      BY <1>1, KeyPath
    <3>2. KeysIn(tx, from) \in SUBSET Keys
      BY Zenon DEF KeysIn
    <3>3. QED
      BY Zenon, <3>1, <3>2 DEF CopySet
  <2>7. <<c>> \in Seq(CopySet)
    BY <2>6
  <2>8. CallsOK(tx, calls) /\ calls # <<>> /\ calls \in Seq(CallSet)
    BY Zenon DEF Inv, Running, Idle, CallsOK
  <2>9. Advances(calls, Advanced)
    BY Zenon, <2>8, AdvancedFacts DEF Advanced
  <2>10. CallsOK(tx, Advanced)
    BY Zenon, <2>8, <2>9, CallsAdvanced
  <2>11. CallsOK(tx', Advanced)
    BY Zenon, <2>2, <2>10, CallsKept DEF CallsOK, Pending
  <2>12. Len(calls) \in Nat \ {0} /\ Len(Advanced) = Len(calls)
    BY Zenon, <2>8, <2>9, LenPositive DEF Advances
  <2>13. Len(calls) \in 1..Len(calls) /\ Advanced # <<>>
    BY <2>12
  <2>14. /\ Last(Advanced).bucket = p /\ Last(Advanced).operate = Last(calls).operate
         /\ Last(Advanced).i = Last(calls).i + 1
    BY Zenon, <2>9, <2>12, <2>13 DEF Last, Advances
  <2>15. RenameOf(Last(Advanced), mv)
    <3>1. Last(calls).i \in Nat \ {0}
      <4>1. Running1(tx, calls, Last(calls))
        BY Zenon, <2>8, LastCall
      <4>2. QED
        BY <4>1 DEF Running1, CallSet
    <3>2. Last(Advanced).i > 1 /\ Last(Advanced).i - 1 = Last(calls).i
      BY <2>14, <3>1
    <3> HIDE DEF mv
    <3>3. QED
      BY Zenon, <1>1, <2>1, <2>3, <2>14, <3>2 DEF RenameOf
  <2> HIDE DEF mv, c
  <2>16. calls' = Advanced /\ moving' = mv /\ copies' = <<c>> /\ store' = store /\ again' = again
    BY Zenon, <1>4 DEF mv, c
  <2>17. QED
    BY Zenon, <2>2, <2>4, <2>5, <2>7, <2>11, <2>13, <2>15, <2>16 DEF Inv, Idle
<1>5. QED
  BY Zenon, <1>2, <1>3, <1>4 DEF RenameKey

LEMMA OperateInv ==
  ASSUME Inv, execute_operate_real
  PROVE  Inv'
<1> DEFINE p == Last(calls).bucket
           i == Last(calls).operate[Last(calls).i]
           q == Append(p, i.key)
<1>1. Running /\ More(Last(calls))
  BY Zenon DEF execute_operate_real
<1>2. OpOK(p, i) /\ Forest(tx)
  BY Zenon, <1>1, CurrentOp DEF Inv
<1>3. \/ i.op = "RenameKey" /\ RenameKey(p, i)
      \/ i.op = "AddKey" /\ AddKey(q, i)
      \/ i.op = "AddBucket" /\ AddBucket(q, i)
      \/ i.op = "DeleteKey" /\ DeleteKey(q)
      \/ i.op = "Read" /\ Read(q)
      \/ i.op = "StepInto" /\ StepInto(q, i)
  BY Zenon DEF execute_operate_real
<1>4. Bucket \in Values \cup {Bucket} /\ \A r : IsBucket(tx, r) => IsBucket(tx, r)
  BY Zenon
<1>5. CASE i.op = "RenameKey" /\ RenameKey(p, i)
  BY Zenon, <1>1, <1>5, RenameInv
<1>6. CASE i.op = "AddKey" /\ AddKey(q, i)
  <2>1. IsBucket(tx, p) /\ i.key \in Keys /\ i.value \in Values \cup {Bucket}
    BY <1>2, <1>6 DEF OpOK
  <2>2. CASE ~IsBucket(tx, q) /\ Becomes(With(tx, q, i.value))
    <3>1. Forest(With(tx, q, i.value)) /\ \A r : IsBucket(tx, r) => IsBucket(With(tx, q, i.value), r)
      BY <1>2, <2>1, <2>2, ForestPut
    <3>2. QED
      BY Zenon, <1>1, <2>2, <3>1, BecomesInv
  <2>3. QED
    BY Zenon, <1>6, <2>2, UnwindInv DEF AddKey
<1>7. CASE i.op = "AddBucket" /\ AddBucket(q, i)
  <2>1. IsBucket(tx, p) /\ i.key \in Keys /\ i.other \in Seq(Operations)
    BY <1>2, <1>7 DEF OpOK
  <2>2. CASE ~Has(tx, q) /\ StepsInto(With(tx, q, Bucket), q, i.other)
    <3>1. ~IsBucket(tx, q)
      BY Zenon, <2>2 DEF IsBucket
    <3>2. Forest(With(tx, q, Bucket)) /\ \A r : IsBucket(tx, r) => IsBucket(With(tx, q, Bucket), r)
      BY <1>2, <1>4, <2>1, <3>1, ForestPut
    <3>3. IsBucket(With(tx, q, Bucket), q)
      BY DEF IsBucket, Has, With
    <3>4. QED
      BY Zenon, <1>1, <2>1, <2>2, <3>2, <3>3, StepsIntoInv
  <2>3. CASE Becomes(tx)
    BY Zenon, <1>1, <1>2, <1>4, <2>3, BecomesInv
  <2>4. QED
    BY Zenon, <1>7, <2>2, <2>3, UnwindInv DEF AddBucket
<1>8. CASE i.op = "DeleteKey" /\ DeleteKey(q)
  <2>1. CASE IsValue(tx, q) /\ Becomes(Without(tx, {q}))
    <3>1. Forest(Without(tx, {q})) /\ \A r : IsBucket(tx, r) => IsBucket(Without(tx, {q}), r)
      BY <1>2, <2>1, ForestDelete
    <3>2. QED
      BY Zenon, <1>1, <2>1, <3>1, BecomesInv
  <2>2. QED
    BY Zenon, <1>8, <2>1, UnwindInv DEF DeleteKey
<1>9. CASE i.op = "Read" /\ Read(q)
  <2>1. CASE Becomes(tx)
    BY Zenon, <1>1, <1>2, <1>4, <2>1, BecomesInv
  <2>2. QED
    BY Zenon, <1>9, <2>1, UnwindInv DEF Read
<1>10. CASE i.op = "StepInto" /\ StepInto(q, i)
  <2>1. i.key \in Keys /\ i.other \in Seq(Operations)
    BY <1>2, <1>10 DEF OpOK
  <2>2. CASE IsBucket(tx, q) /\ StepsInto(tx, q, i.other)
    BY Zenon, <1>1, <1>2, <1>4, <2>1, <2>2, StepsIntoInv
  <2>3. QED
    BY Zenon, <1>10, <2>2, UnwindInv DEF StepInto
<1>11. QED
  BY Zenon, <1>3, <1>5, <1>6, <1>7, <1>8, <1>9, <1>10

LEMMA OneCall ==
  ASSUME NEW t, Forest(t), NEW p, IsBucket(t, p), NEW operate \in Seq(Operations)
  PROVE  CallsOK(t, <<Call(p, operate)>>)
<1> DEFINE c == Call(p, operate)
           cs == <<c>>
<1>1. p \in Path
  BY Zenon DEF Forest, IsBucket, Has
<1>2. c \in CallSet /\ c.bucket = p /\ c.operate = operate /\ c.i = 1
  BY <1>1 DEF Call, CallSet
<1>3. c.i <= Len(c.operate) + 1
  BY <1>2
<1> HIDE DEF c
<1>4. cs \in Seq(CallSet) /\ Len(cs) = 1 /\ cs[1] = c
  BY <1>2
<1> HIDE DEF cs
<1>5. 1..Len(cs) = {1} /\ ~(1 < 1)
  BY <1>4
<1>6. QED
  BY Zenon, <1>2, <1>3, <1>4, <1>5 DEF CallsOK, Pending, cs, c

LEMMA ExecuteInv ==
  ASSUME Inv, NEW p \in DOMAIN store, NEW operate \in Programs, execute_operate(p, operate)
  PROVE  Inv'
<1>1. operate \in Seq(Operations)
  BY Zenon, ExtendAssumption
<1>2. tx = store /\ IsBucket(tx, p) /\ moving = NoMove /\ ~again
  BY Zenon DEF Inv, execute_operate
<1>3. CallsOK(tx, <<Call(p, operate)>>)
  BY Zenon, <1>1, <1>2, OneCall DEF Inv
<1>4. <<Call(p, operate)>> # <<>>
  OBVIOUS
<1>5. QED
  BY Zenon, <1>2, <1>3, <1>4 DEF Inv, execute_operate, Idle

LEMMA ReturnInv ==
  ASSUME Inv, Return
  PROVE  Inv'
<1>1. CallsOK(tx, calls) /\ calls # <<>> /\ moving = NoMove /\ calls \in Seq(CallSet)
  BY Zenon DEF Inv, Return, Running, Idle, CallsOK
<1>2. CallsOK(tx, Front(calls))
  BY Zenon, <1>1, CallsPopped
<1>3. Front(calls) # <<>>
  <2>1. Len(Front(calls)) = Len(calls) - 1
    BY <1>1, FrontFacts
  <2>2. Len(calls) > 1
    BY Zenon DEF Return
  <2>3. QED
    BY <2>1, <2>2, <1>1
<1>4. QED
  BY Zenon, <1>1, <1>2, <1>3 DEF Inv, Return, Idle

LEMMA CommitInv ==
  ASSUME Inv, Commit
  PROVE  Inv'
<1>1. CASE Unwind
  BY Zenon, <1>1, UnwindInv
<1>2. CASE store' = tx /\ calls' = <<>> /\ again' = FALSE /\ UNCHANGED <<tx, moving, copies>>
  BY Zenon, <1>2, NoCalls DEF Inv, Commit, Running, Idle
<1>3. CASE /\ store' = tx /\ calls' = <<Call(calls[1].bucket, calls[1].operate)>> /\ again' = TRUE
           /\ UNCHANGED <<tx, moving, copies>>
  <2>1. CallsOK(tx, calls) /\ calls \in Seq(CallSet) /\ Len(calls) = 1 /\ Forest(tx) /\ moving = NoMove
    BY Zenon, <1>3 DEF Inv, Commit, CallsOK, Running
  <2>2. 1 \in 1..Len(calls)
    BY <2>1
  <2>3. IsBucket(tx, calls[1].bucket)
    BY Zenon, <2>1, <2>2 DEF CallsOK, Pending
  <2>4. calls[1] \in CallSet
    BY <2>1, <2>2
  <2>5. calls[1].operate \in Seq(Operations)
    BY <2>4 DEF CallSet
  <2>6. CallsOK(tx, <<Call(calls[1].bucket, calls[1].operate)>>)
    BY Zenon, <2>1, <2>3, <2>5, OneCall
  <2>7. <<Call(calls[1].bucket, calls[1].operate)>> # <<>>
    OBVIOUS
  <2>8. QED
    BY Zenon, <1>3, <2>1, <2>6, <2>7 DEF Inv, Idle
<1>4. QED
  BY Zenon, <1>1, <1>2, <1>3 DEF Commit

LEMMA CopyKeeps ==
  ASSUME Inv, moving # NoMove, Forest(tx'), \A x : IsBucket(tx, x) => IsBucket(tx', x),
         copies' \in Seq(CopySet), Copying(tx', moving, copies'), UNCHANGED <<store, calls, moving, again>>
  PROVE  Inv'
<1>1. CallsOK(tx', calls)
  BY Zenon, CallsKept DEF Inv, CallsOK, Pending
<1>2. QED
  BY Zenon, <1>1 DEF Inv, Idle

LEMMA BucketLen ==
  ASSUME NEW s, Forest(s), NEW q, IsBucket(s, q)
  PROVE  Len(q) \in Nat
<1>1. q \in Seq(Name)
  BY Zenon DEF Forest, IsBucket, Has, Path
<1>2. QED
  BY <1>1

(* A step of the copy never finds what it is to write. *)
LEMMA CopyInv ==
  ASSUME Inv, NEW k \in Keys, copy_bucket_data_recursive(k)
  PROVE  Inv' /\ UNCHANGED <<store, calls, moving, again>> /\ Renames(moving) /\ copies # <<>>
<1> DEFINE q == Append(Last(copies).from, k)
           r == Append(Last(copies).to, k)
           tk == Ticked(k)
           nx == Inside(q, r)
<1>1. copies # <<>> /\ k \in Last(copies).left
  BY Zenon DEF copy_bucket_data_recursive
<1>2. moving # NoMove /\ copies \in Seq(CopySet) /\ Copying(tx, moving, copies) /\ Forest(tx)
  BY Zenon, <1>1 DEF Inv
<1>3. Renames(moving)
  BY Zenon, <1>2, MoveRenames
<1>4. NextKey(tx, moving, copies, q, r)
  BY Zenon, <1>1, <1>2, <1>3, NextKeyFacts
<1>5. ~CannotCopy(q, r)
  BY Zenon, <1>4 DEF NextKey, CannotCopy, IsBucket
<1>6. CopyData(k, q, r) /\ UNCHANGED <<store, calls, moving, again>>
  BY Zenon, <1>5 DEF copy_bucket_data_recursive
<1>7. Ticks(copies, tk, k)
  BY Zenon, <1>1, <1>2, TickFacts DEF Ticked
<1>8. q \in Path /\ r \in Path /\ tx[q] \in Values \cup {Bucket} /\ ~IsBucket(tx, r)
  BY Zenon, <1>2, <1>4 DEF NextKey, Forest, Paths, IsBucket, Has
<1>9. nx \in CopySet /\ nx = [from |-> q, to |-> r, left |-> KeysIn(tx, q)]
  <2>1. KeysIn(tx, q) \in SUBSET Keys
    BY Zenon DEF KeysIn
  <2>2. QED
    BY Zenon, <1>8, <2>1 DEF Inside, CopySet
<1>10. IsBucket(tx, Last(copies).to)
  <2>1. Len(copies) \in 1..Len(copies)
    BY <1>1, <1>2
  <2>2. QED
    BY Zenon, <1>2, <2>1 DEF Copying, CopyOf, Last
<1>11. Forest(With(tx, r, tx[q])) /\ \A x : IsBucket(tx, x) => IsBucket(With(tx, r, tx[q]), x)
  BY <1>2, <1>8, <1>10, ForestPut
<1> HIDE DEF tk, nx
<1>12. tk \in Seq(CopySet) /\ Len(tk) = Len(copies) /\ Len(copies) \in Nat
  BY <1>2, <1>7 DEF Ticks
<1>13. ASSUME IsBucket(tx, q)
       PROVE  copies' \in Seq(CopySet) /\ Copying(With(tx, r, tx[q]), moving, copies')
  <2>1. copies' = Append(tk, nx)
    BY Zenon, <1>6, <1>13 DEF CopyData, tk, nx
  <2>2. /\ Append(tk, nx) \in Seq(CopySet) /\ Len(Append(tk, nx)) = Len(copies) + 1
        /\ Append(tk, nx)[Len(copies) + 1] = nx
        /\ \A j \in 1..Len(copies) : Append(tk, nx)[j] = tk[j]
    BY <1>9, <1>12, AppendFacts
  <2>3. IF IsBucket(tx, q)
        THEN /\ Len(Append(tk, nx)) = Len(copies) + 1
             /\ Append(tk, nx)[Len(copies) + 1] = [from |-> q, to |-> r, left |-> KeysIn(tx, q)]
        ELSE Len(Append(tk, nx)) = Len(copies)
    BY Zenon, <1>9, <1>13, <2>2
  <2>4. Copying(With(tx, r, tx[q]), moving, Append(tk, nx))
    BY Zenon, <1>1, <1>2, <1>3, <1>7, <2>2, <2>3, CopyStep
  <2>5. QED
    BY Zenon, <2>1, <2>2, <2>4
<1>14. ASSUME ~IsBucket(tx, q)
       PROVE  copies' \in Seq(CopySet) /\ Copying(With(tx, r, tx[q]), moving, copies')
  <2>1. copies' = tk
    BY Zenon, <1>6, <1>14 DEF CopyData, tk
  <2>2. Copying(With(tx, r, tx[q]), moving, tk)
    BY <1>1, <1>2, <1>3, <1>7, <1>12, <1>14, CopyStep
  <2>3. QED
    BY Zenon, <1>12, <2>1, <2>2
<1>15. copies' \in Seq(CopySet) /\ Copying(With(tx, r, tx[q]), moving, copies')
  BY Zenon, <1>13, <1>14
<1>16. tx' = With(tx, r, tx[q])
  BY Zenon, <1>6 DEF CopyData
<1>17. Forest(tx') /\ (\A x : IsBucket(tx, x) => IsBucket(tx', x)) /\ Copying(tx', moving, copies')
  BY Zenon, <1>11, <1>15, <1>16
<1>18. Inv'
  BY Zenon, <1>2, <1>6, <1>15, <1>17, CopyKeeps
<1>19. QED
  BY Zenon, <1>1, <1>3, <1>6, <1>18

LEMMA CopyReturnInv ==
  ASSUME Inv, CopyReturn
  PROVE  Inv'
<1>1. copies # <<>> /\ Last(copies).left = {} /\ copies' = Front(copies)
  BY Zenon DEF CopyReturn
<1>2. moving # NoMove /\ copies \in Seq(CopySet) /\ Copying(tx, moving, copies)
  BY Zenon, <1>1 DEF Inv
<1>3. Front(copies) \in Seq(CopySet)
  BY <1>1, <1>2, FrontFacts
<1>4. Copying(tx, moving, Front(copies))
  BY Zenon, <1>1, <1>2, CopyReturns
<1>5. QED
  BY Zenon, <1>1, <1>2, <1>3, <1>4 DEF Inv, CopyReturn, Idle

LEMMA DeleteOldInv ==
  ASSUME Inv, DeleteOld
  PROVE  Inv' /\ tx' = Moved(moving.was, moving.old, moving.new)
<1>1. moving # NoMove /\ copies = <<>> /\ Copying(tx, moving, <<>>) /\ Forest(tx) /\ ~Idle
  BY Zenon DEF Inv, DeleteOld
<1>2. Renames(moving)
  BY Zenon, <1>1, MoveRenames
<1>3. tx' = Moved(moving.was, moving.old, moving.new)
  BY Zenon, <1>1, <1>2, CopyEnds DEF DeleteOld
<1>4. moving.old \in Path
  BY Zenon, <1>2 DEF Renames
<1>5. Forest(tx') /\ \A r : IsBucket(tx, r) /\ Len(r) < Len(moving.old) => IsBucket(tx', r)
  <2>1. /\ Forest(delete_bucket(tx, moving.old))
        /\ \A r : IsBucket(tx, r) /\ Len(r) < Len(moving.old) => IsBucket(delete_bucket(tx, moving.old), r)
    BY <1>1, <1>4, ForestDeleteBucket
  <2>2. QED
    BY Zenon, <2>1 DEF DeleteOld
<1>6. CallsOK(tx, calls) /\ calls # <<>> /\ calls \in Seq(CallSet)
  BY Zenon, <1>1 DEF Inv, Idle, CallsOK
<1>7. ASSUME NEW j \in 1..Len(calls) PROVE IsBucket(tx, calls[j].bucket) /\ Len(calls[j].bucket) < Len(moving.old)
  <2>1. IsBucket(tx, calls[j].bucket)
    BY Zenon, <1>6 DEF CallsOK, Pending
  <2>2. Running1(tx, calls, Last(calls))
    BY Zenon, <1>6, LastCall
  <2>3. PICK k \in Keys : moving.old = Append(Last(calls).bucket, k)
    BY Zenon, <1>1 DEF Inv, RenameOf
  <2>4. Len(moving.old) = Len(Last(calls).bucket) + 1 /\ Len(Last(calls).bucket) \in Nat
    <3>1. IsBucket(tx, Last(calls).bucket)
      BY Zenon, <2>2 DEF Running1
    <3>2. QED
      BY <1>1, <2>3, <3>1, KeyPath
  <2>5. Len(calls[j].bucket) \in Nat
    BY Zenon, <1>1, <2>1, BucketLen
  <2>6. CASE j = Len(calls)
    <3>1. Len(calls[j].bucket) = Len(Last(calls).bucket)
      BY Zenon, <2>6 DEF Last
    <3>2. QED
      BY <2>1, <2>4, <2>5, <3>1
  <2>7. CASE j # Len(calls)
    <3>1. j < Len(calls) /\ Len(calls) \in 1..Len(calls)
      BY <1>6, <1>7, <2>7
    <3>2. Len(calls[j].bucket) < Len(Last(calls).bucket)
      BY Zenon, <1>6, <3>1 DEF CallsOK, Pending, Last
    <3>3. QED
      BY <2>1, <2>4, <2>5, <3>2
  <2>8. QED
    BY Zenon, <2>1, <2>6, <2>7
<1>8. CallsOK(tx', calls)
  BY Zenon, <1>5, <1>6, <1>7, CallsKept
<1>9. QED
  BY Zenon, <1>1, <1>3, <1>5, <1>8 DEF Inv, DeleteOld, Idle

LEMMA GlobalInv ==
  ASSUME Inv, NEW g \in Globals, extend_create_global_bucket(g)
  PROVE  Inv'
<1>1. Idle /\ ~Has(store, <<g>>) /\ Forest(store) /\ tx' = store' /\ store' = With(store, <<g>>, Bucket)
  BY Zenon DEF Inv, extend_create_global_bucket
<1>2. <<g>> \in Path /\ Len(<<g>>) = 1 /\ <<g>>[1] = g
  BY DEF Path, Name
<1>3. /\ <<g>>[1] \in Globals /\ \A j \in 2..Len(<<g>>) : <<g>>[j] \in Keys
      /\ ~(Len(<<g>>) > 1) /\ ~IsBucket(store, <<g>>) /\ Bucket \in Values \cup {Bucket}
  BY <1>1, <1>2 DEF IsBucket
<1>4. Forest(With(store, <<g>>, Bucket))
  BY <1>1, <1>2, <1>3, ForestWith
<1>5. CallsOK(tx', <<>>)
  BY Zenon, NoCalls
<1>6. QED
  BY Zenon, <1>1, <1>4, <1>5 DEF Inv, extend_create_global_bucket, Idle

LEMMA InitInv ==
  ASSUME Init
  PROVE  Inv
<1>1. Forest(Nothing)
  BY DEF Forest, Nothing, Paths
<1>2. CallsOK(Nothing, <<>>) /\ <<>> \in Seq(CopySet)
  BY Zenon, NoCalls, EmptySeq
<1>3. QED
  BY Zenon, <1>1, <1>2 DEF Init, Inv, Idle

(* What a step does about the rename of a bucket that is under way. *)
MoveDone == moving # NoMove /\ moving' # moving => tx' = Moved(moving.was, moving.old, moving.new)

LEMMA StepInv ==
  ASSUME Inv, [Next]_vars
  PROVE  Inv' /\ MoveDone
<1>1. CASE UNCHANGED vars
  BY Zenon, <1>1 DEF Inv, vars, Idle, MoveDone
<1>2. ASSUME NEW g \in Globals, extend_create_global_bucket(g) PROVE Inv' /\ MoveDone
  BY Zenon, <1>2, GlobalInv DEF extend_create_global_bucket, MoveDone
<1>3. ASSUME NEW p \in DOMAIN store, NEW operate \in Programs, execute_operate(p, operate) PROVE Inv' /\ MoveDone
  BY Zenon, <1>3, ExecuteInv DEF execute_operate, MoveDone
<1>4. CASE execute_operate_real
  BY Zenon, <1>4, OperateInv DEF execute_operate_real, Running, MoveDone
<1>5. CASE Return
  BY Zenon, <1>5, ReturnInv DEF Return, MoveDone
<1>6. CASE Commit
  BY Zenon, <1>6, CommitInv DEF Commit, Running, MoveDone
<1>7. ASSUME NEW k \in Keys, copy_bucket_data_recursive(k) PROVE Inv' /\ MoveDone
  BY Zenon, <1>7, CopyInv DEF MoveDone
<1>8. CASE CopyReturn
  BY Zenon, <1>8, CopyReturnInv DEF CopyReturn, MoveDone
<1>9. CASE DeleteOld
  BY Zenon, <1>9, DeleteOldInv DEF MoveDone
<1>10. QED
  BY Zenon, <1>1, <1>2, <1>3, <1>4, <1>5, <1>6, <1>7, <1>8, <1>9 DEF Next

LEMMA InvAlways == Spec => []Inv
<1>1. Init => Inv
  BY Zenon, InitInv
<1>2. Inv /\ [Next]_vars => Inv'
  BY Zenon, StepInv
<1>3. QED
  BY <1>1, <1>2, PTL DEF Spec

-----------------------------------------------------------------------------
(* Theorems.                                                                *)

(* Type correctness: for any keys, values and operation lists, buckets form *)
(* a forest, in the database and within the transaction, and the buckets    *)
(* that pending calls of execute_operate_real and                           *)
(* copy_bucket_data_recursive work on exist, while the calls inside rename  *)
(* and delete.                                                              *)
THEOREM ExtendTypeCorrect == Spec => []TypeOK
<1>1. ASSUME Inv PROVE TypeOK
  <2>1. \A j \in 1..Len(calls) : IsBucket(tx, calls[j].bucket)
    BY Zenon, <1>1 DEF Inv, CallsOK, Pending
  <2>2. ASSUME NEW j \in 1..Len(copies) PROVE IsBucket(tx, copies[j].from) /\ IsBucket(tx, copies[j].to)
    <3>1. copies # <<>>
      BY <2>2
    <3>2. Copying(tx, moving, copies)
      BY Zenon, <1>1, <3>1 DEF Inv
    <3>3. CopyOf(tx, moving, copies[j], j)
      BY Zenon, <3>2 DEF Copying
    <3>4. QED
      BY Zenon, <3>2, <3>3 DEF Copying, CopyOf, Below, IsBucket, Has
  <2>3. QED
    BY Zenon, <1>1, <2>1, <2>2 DEF Inv, TypeOK, Forest
<1>2. QED
  BY <1>1, InvAlways, PTL

(* The copy and the delete of RenameKey move a bucket: for any keys, values *)
(* and operation lists, all that was inside the old bucket, at any depth,   *)
(* is inside the new one, nothing else changes, and no step of the copy     *)
(* fails.                                                                   *)
THEOREM BucketsAreMoved == Spec => RenameMovesBuckets
<1>1. Inv /\ [Next]_vars => [MoveDone]_vars
  BY Zenon, StepInv
<1>2. QED
  BY <1>1, InvAlways, PTL DEF Spec, RenameMovesBuckets, MoveDone

-----------------------------------------------------------------------------
(* Lists that only add.                                                     *)

(* t and u have the same paths up to length n. *)
SameUpTo(t, u, n) ==
  \A q \in Path : Len(q) <= n => (Has(u, q) <=> Has(t, q)) /\ (Has(t, q) => u[q] = t[q])

LEMMA DeepPut ==
  ASSUME NEW t, NEW q \in Path, NEW v, NEW n \in Nat, Len(q) > n
  PROVE  SameUpTo(t, With(t, q, v), n)
<1>1. ASSUME NEW r \in Path, Len(r) <= n PROVE r # q
  <2>1. Len(r) \in Nat /\ Len(q) \in Nat
    BY DEF Path
  <2>2. QED
    BY <1>1, <2>1
<1>2. Puts(t, q, v, With(t, q, v))
  BY Zenon, WithFacts
<1>3. QED
  BY Zenon, <1>1, <1>2 DEF SameUpTo, Puts, Has

LEMMA DeepCut ==
  ASSUME NEW t, NEW S, NEW n \in Nat, \A q \in S : Len(q) \in Nat /\ Len(q) > n
  PROVE  SameUpTo(t, Without(t, S), n)
<1>1. ASSUME NEW r \in Path, Len(r) <= n PROVE r \notin S
  <2>1. Len(r) \in Nat
    BY DEF Path
  <2>2. QED
    BY <1>1, <2>1
<1>2. /\ \A r : Has(Without(t, S), r) <=> Has(t, r) /\ r \notin S
      /\ \A r \in DOMAIN t \ S : Without(t, S)[r] = t[r]
  BY WithoutFacts
<1>3. QED
  BY Zenon, <1>1, <1>2 DEF SameUpTo, Has

(* The keys and values of a list that only adds. *)
AddOps(ops) ==
  \A j \in 1..Len(ops) :
    /\ ops[j].op \in {"AddKey", "AddBucket"} /\ ops[j].key \in Keys
    /\ ops[j].op = "AddKey" => ops[j].value \in Values

LEMMA StringsApart ==
  "RenameKey" \notin {"AddKey", "AddBucket", "DeleteKey", "Read", "StepInto"} /\ "AddKey" # "AddBucket"
OBVIOUS

LEMMA OnlyAddOps ==
  ASSUME NEW ops \in Seq(Operations), OnlyAdds(ops)
  PROVE  AddOps(ops)
<1>1. SUFFICES ASSUME NEW j \in 1..Len(ops)
               PROVE  /\ ops[j].op \in {"AddKey", "AddBucket"} /\ ops[j].key \in Keys
                      /\ ops[j].op = "AddKey" => ops[j].value \in Values
  BY Zenon DEF AddOps
<1> DEFINE i == ops[j]
<1>2. i \in Operations /\ i.op \in {"AddKey", "AddBucket"}
  BY DEF OnlyAdds
<1> HIDE DEF i
<1>3. i \in RenameKeys \/ i \in AddKeys \/ i \in OnKeys \/ i \in Steps
  BY Zenon, <1>2, ExtendAssumption
<1>4. i \in RenameKeys => i.op = "RenameKey"
  BY DEF RenameKeys
<1>5. i \in AddKeys => i.op = "AddKey" /\ i.key \in Keys /\ i.value \in Values
  BY DEF AddKeys
<1>6. i \in OnKeys => i.op \in {"DeleteKey", "Read"}
  BY DEF OnKeys
<1>7. i \in Steps => i.op \in {"AddBucket", "StepInto"} /\ i.key \in Keys
  BY DEF Steps
<1>8. i.key \in Keys /\ (i.op = "AddKey" => i.value \in Values)
  BY <1>2, <1>3, <1>4, <1>5, <1>6, <1>7
<1>9. QED
  BY Zenon, <1>2, <1>8 DEF i

LEMMA AddedKept ==
  ASSUME NEW t, NEW u, NEW p \in Path, NEW ops, AddOps(ops), NEW n \in 0..Len(ops), Len(ops) \in Nat,
         Added(t, p, ops, n), SameUpTo(t, u, Len(p) + 1)
  PROVE  Added(u, p, ops, n)
<1>1. ASSUME NEW j \in 1..n
      PROVE  LET q == Append(p, ops[j].key) IN (Has(u, q) <=> Has(t, q)) /\ (Has(t, q) => u[q] = t[q])
  <2>1. j \in 1..Len(ops)
    OBVIOUS
  <2>2. ops[j].key \in Name /\ p \in Seq(Name)
    BY Zenon, <2>1 DEF AddOps, Name, Path
  <2>3. Append(p, ops[j].key) \in Path /\ Len(Append(p, ops[j].key)) <= Len(p) + 1
    BY <2>2, AppendFacts DEF Path
  <2>4. QED
    BY Zenon, <2>3 DEF SameUpTo
<1>2. QED
  BY Zenon, <1>1 DEF Added, IsBucket, IsValue

(* One more key. *)
LEMMA AddedKey ==
  ASSUME NEW t, NEW p \in Path, NEW ops, AddOps(ops), NEW n \in Nat, n + 1 \in 1..Len(ops), Len(ops) \in Nat,
         Added(t, p, ops, n), ops[n + 1].op = "AddKey",
         NEW q, q = Append(p, ops[n + 1].key), ~IsBucket(t, q)
  PROVE  Added(With(t, q, ops[n + 1].value), p, ops, n + 1)
<1> DEFINE v == ops[n + 1].value
           u == With(t, q, v)
<1>1. Puts(t, q, v, u)
  BY Zenon, WithFacts
<1>2. /\ \A r : Has(u, r) <=> Has(t, r) \/ r = q
      /\ u[q] = v
      /\ \A r \in DOMAIN t : r # q => u[r] = t[r]
  BY Zenon, <1>1 DEF Puts
<1>3. v # Bucket /\ ops[n + 1].key \in Name
  BY Zenon, ExtendAssumption DEF AddOps, Name
<1> HIDE DEF u
<1>4. IsValue(u, q) /\ u[q] = v
  BY Zenon, <1>2, <1>3 DEF IsValue
<1>5. ASSUME NEW j \in 1..n
      PROVE  /\ ops[j].op = "AddBucket" => IsBucket(u, Append(p, ops[j].key))
             /\ ops[j].op = "AddKey" =>
                  /\ IsValue(u, Append(p, ops[j].key))
                  /\ \/ u[Append(p, ops[j].key)] = ops[j].value
                     \/ \E m \in (j + 1)..(n + 1) : AddsKey(ops[m], ops[j].key)
  <2> DEFINE k == ops[j].key
             r == Append(p, k)
  <2>1. /\ ops[j].op = "AddBucket" => IsBucket(t, r)
        /\ ops[j].op = "AddKey" =>
             IsValue(t, r) /\ (t[r] = ops[j].value \/ \E m \in (j + 1)..n : AddsKey(ops[m], k))
    BY Zenon, <1>5 DEF Added
  <2>2. j \in 1..Len(ops) /\ n + 1 \in (j + 1)..(n + 1) /\ (j + 1)..n \subseteq (j + 1)..(n + 1)
    BY <1>5
  <2>3. k \in Name /\ p \in Seq(Name)
    BY Zenon, <2>2 DEF AddOps, Name, Path
  <2> HIDE DEF k
  <2>4. CASE r = q
    <3>1. SameEnd(p, p, k, ops[n + 1].key)
      BY Zenon, <1>3, <2>3, <2>4, SameAppend
    <3>2. AddsKey(ops[n + 1], k)
      BY Zenon, <3>1 DEF SameEnd, AddsKey
    <3>3. QED
      BY Zenon, <1>4, <2>1, <2>2, <2>4, <3>2 DEF k
  <2>5. CASE r # q
    <3>1. Has(t, r) => Has(u, r) /\ u[r] = t[r]
      BY Zenon, <1>2, <2>5 DEF Has
    <3>2. QED
      BY Zenon, <2>1, <2>2, <3>1 DEF k, IsBucket, IsValue
  <2>6. QED
    BY Zenon, <2>4, <2>5
<1>6. \A j \in 1..(n + 1) : j \in 1..n \/ j = n + 1
  OBVIOUS
<1>7. ops[n + 1].op # "AddBucket"
  OBVIOUS
<1>8. QED
  BY Zenon, <1>4, <1>5, <1>6, <1>7 DEF Added, u

(* One more bucket. *)
LEMMA AddedBucket ==
  ASSUME NEW t, NEW u, NEW p, NEW ops, NEW n \in Nat, Added(t, p, ops, n), ops[n + 1].op = "AddBucket",
         \A r \in DOMAIN t : Has(u, r) /\ u[r] = t[r], IsBucket(u, Append(p, ops[n + 1].key))
  PROVE  Added(u, p, ops, n + 1)
<1>1. \A j \in 1..(n + 1) : j \in 1..n \/ j = n + 1
  OBVIOUS
<1>2. ops[n + 1].op # "AddKey"
  OBVIOUS
<1>3. \A j \in 1..n : (j + 1)..n \subseteq (j + 1)..(n + 1)
  OBVIOUS
<1>4. QED
  BY Zenon, <1>1, <1>2, <1>3 DEF Added, IsBucket, IsValue, Has

(* The outermost call. *)
FirstOK(c) ==
  /\ c.bucket \in Path /\ Len(c.bucket) \in Nat /\ IsBucket(tx, c.bucket)
  /\ c.operate \in Seq(Operations) /\ Len(c.operate) \in Nat
  /\ c.i \in Nat /\ c.i - 1 \in 0..Len(c.operate) /\ (c.i - 1) + 1 = c.i
  /\ 1 \in 1..Len(calls) /\ Len(calls) \in Nat

LEMMA FirstCall ==
  ASSUME Inv, ~Idle
  PROVE  FirstOK(calls[1])
<1>1. CallsOK(tx, calls) /\ calls \in Seq(CallSet) /\ calls # <<>> /\ Forest(tx)
  BY Zenon DEF Inv, Idle, CallsOK
<1>2. Len(calls) \in Nat \ {0}
  BY Zenon, <1>1, LenPositive
<1>3. 1 \in 1..Len(calls) /\ Len(calls) \in Nat
  BY <1>2
<1>4. IsBucket(tx, calls[1].bucket) /\ calls[1].i <= Len(calls[1].operate) + 1
  BY Zenon, <1>1, <1>3 DEF CallsOK, Pending
<1>5. calls[1] \in CallSet
  BY <1>1, <1>3
<1>6. calls[1].bucket \in Path /\ calls[1].operate \in Seq(Operations) /\ calls[1].i \in Nat \ {0}
  BY <1>5 DEF CallSet
<1>7. Len(calls[1].bucket) \in Nat /\ Len(calls[1].operate) \in Nat
  BY <1>6 DEF Path
<1>8. calls[1].i \in Nat /\ calls[1].i - 1 \in 0..Len(calls[1].operate) /\ (calls[1].i - 1) + 1 = calls[1].i
  BY <1>4, <1>6, <1>7
<1>9. QED
  BY Zenon, <1>3, <1>4, <1>6, <1>7, <1>8 DEF FirstOK

(* What a step does about a list that is sent again. *)
RetryDone ==
  again /\ OnlyAdds(calls[1].operate) /\ ~again' => Len(calls) = 1 /\ ~More(calls[1]) /\ tx = store

LEMMA StopsRetry ==
  ASSUME calls' = <<>>, ~again'
  PROVE  RetryInv'
BY Zenon DEF RetryInv, Idle

(* A call inside works at a depth of its own. *)
LEMMA InnerDepth ==
  ASSUME Inv, ~Idle, Len(calls) > 1
  PROVE  Len(Last(calls).bucket) \in Nat /\ Len(calls[1].bucket) < Len(Last(calls).bucket)
<1>1. FirstOK(calls[1]) /\ CallsOK(tx, calls) /\ Forest(tx)
  BY Zenon, FirstCall DEF Inv
<1>2. Len(calls) \in 1..Len(calls) /\ 1 < Len(calls) /\ 1 \in 1..Len(calls)
  BY <1>1 DEF FirstOK
<1>3. Len(calls[1].bucket) < Len(Last(calls).bucket) /\ IsBucket(tx, Last(calls).bucket)
  BY Zenon, <1>1, <1>2 DEF CallsOK, Pending, Last
<1>4. QED
  BY Zenon, <1>1, <1>3, BucketLen

(* Steps of the calls inside leave alone what the outermost call added. *)
LEMMA InnerKeeps ==
  ASSUME Inv, RetryInv, ~Idle, Len(calls) > 1 \/ moving # NoMove, calls'[1] = calls[1], calls' # <<>>, again' = again,
         OnlyAdds(calls[1].operate) => SameUpTo(tx, tx', Len(calls[1].bucket) + 1)
  PROVE  RetryInv' /\ RetryDone
<1> DEFINE c == calls[1]
<1>1. FirstOK(c)
  BY Zenon, FirstCall
<1>2. ASSUME again, OnlyAdds(c.operate) PROVE FALSE
  <2>1. Len(calls) = 1 /\ moving = NoMove
    BY Zenon, <1>2 DEF RetryInv, Retrying
  <2>2. QED
    BY <2>1
<1>3. ASSUME OnlyAdds(c.operate) PROVE Added(tx', c.bucket, c.operate, c.i - 1)
  <2>1. Added(tx, c.bucket, c.operate, c.i - 1)
    BY Zenon, <1>3 DEF RetryInv, Adding
  <2>2. AddOps(c.operate)
    BY Zenon, <1>1, <1>3, OnlyAddOps DEF FirstOK
  <2> HIDE DEF c
  <2>3. QED
    BY Zenon, <1>1, <1>3, <2>1, <2>2, AddedKept DEF FirstOK, c
<1>4. QED
  BY Zenon, <1>2, <1>3 DEF RetryInv, RetryDone, Adding

(* The outermost call after an operation. *)
FirstAfter(cs) ==
  /\ cs # <<>>
  /\ cs[1].bucket = calls[1].bucket /\ cs[1].operate = calls[1].operate
  /\ Len(calls) > 1 => cs[1] = calls[1]
  /\ Len(calls) = 1 => cs[1].i = calls[1].i + 1

LEMMA FirstAdvanced ==
  ASSUME Inv, ~Idle
  PROVE  FirstAfter(Advanced) /\ \A q, other : FirstAfter(Append(Advanced, Call(q, other)))
<1>1. calls \in Seq(CallSet) /\ calls # <<>> /\ FirstOK(calls[1])
  BY Zenon, FirstCall DEF Inv, Idle, CallsOK
<1>2. Advances(calls, Advanced)
  BY Zenon, <1>1, AdvancedFacts DEF Advanced
<1>3. /\ 1 \in 1..Len(calls) /\ (Len(calls) > 1 => 1 # Len(calls)) /\ Len(Advanced) = Len(calls)
      /\ Len(Advanced) \in Nat /\ Len(Advanced) >= 1
  BY <1>1, <1>2 DEF FirstOK, Advances
<1>4. FirstAfter(Advanced)
  <2>1. Advanced # <<>>
    BY <1>3
  <2>2. Len(calls) = 1 => Advanced[1].i = calls[1].i + 1
    BY Zenon, <1>2 DEF Advances
  <2>3. QED
    BY Zenon, <1>2, <1>3, <2>1, <2>2 DEF FirstAfter, Advances
<1>5. ASSUME NEW c PROVE Append(Advanced, c)[1] = Advanced[1] /\ Append(Advanced, c) # <<>>
  <2>1. Advanced \in Seq(CallSet \cup {c})
    <3>1. Advanced \in Seq(CallSet) /\ CallSet \subseteq CallSet \cup {c}
      BY Zenon, <1>2 DEF Advances
    <3>2. QED
      BY Zenon, <3>1, SeqMonotonic
  <2>2. 1 \in 1..Len(Advanced) /\ c \in CallSet \cup {c}
    BY <1>3
  <2>3. QED
    BY <2>1, <2>2, AppendFacts
<1>6. QED
  BY Zenon, <1>4, <1>5 DEF FirstAfter

LEMMA InnerOp ==
  ASSUME Inv, RetryInv, Len(calls) > 1, execute_operate_real
  PROVE  RetryInv' /\ RetryDone
<1> DEFINE p == Last(calls).bucket
           i == Last(calls).operate[Last(calls).i]
           q == Append(p, i.key)
           n == Len(calls[1].bucket) + 1
<1>1. Running /\ More(Last(calls)) /\ ~Idle
  BY Zenon DEF execute_operate_real, Running
<1>2. OpOK(p, i) /\ Forest(tx) /\ FirstOK(calls[1])
  BY Zenon, <1>1, CurrentOp, FirstCall DEF Inv
<1>3. FirstAfter(Advanced) /\ \A r, other : FirstAfter(Append(Advanced, Call(r, other)))
  BY Zenon, <1>1, FirstAdvanced
<1>4. ASSUME again, OnlyAdds(calls[1].operate) PROVE FALSE
  <2>1. Len(calls) = 1
    BY Zenon, <1>4 DEF RetryInv, Retrying
  <2>2. QED
    BY <2>1
<1>5. CASE Unwind
  <2>1. RetryInv'
    BY Zenon, <1>5, StopsRetry DEF Unwind
  <2>2. QED
    BY Zenon, <2>1, <1>4 DEF RetryDone
<1>6. ASSUME NEW t, SameUpTo(tx, t, n), Becomes(t) \/ \E r, other : StepsInto(t, r, other)
      PROVE  RetryInv' /\ RetryDone
  <2>1. tx' = t /\ again' = again /\ FirstAfter(calls')
    BY Zenon, <1>3, <1>6 DEF Becomes, StepsInto
  <2>2. calls'[1] = calls[1] /\ calls' # <<>>
    BY Zenon, <2>1 DEF FirstAfter
  <2>3. QED
    BY Zenon, <1>1, <1>6, <2>1, <2>2, InnerKeeps
<1>7. n \in Nat /\ \A r \in Path : Len(r) = Len(p) + 1 => Len(r) \in Nat /\ Len(r) > n
  <2>1. Len(p) \in Nat /\ Len(calls[1].bucket) < Len(p)
    BY Zenon, <1>1, InnerDepth
  <2>2. Len(calls[1].bucket) \in Nat
    BY Zenon, <1>2 DEF FirstOK
  <2> HIDE DEF p
  <2>3. QED
    BY <2>1, <2>2
<1>8. SameUpTo(tx, tx, n)
  BY Zenon DEF SameUpTo
<1>9. ASSUME NEW k \in Keys
      PROVE  /\ \A v : SameUpTo(tx, With(tx, Append(p, k), v), n)
             /\ SameUpTo(tx, Without(tx, {Append(p, k)}), n)
  <2>1. Append(p, k) \in Path /\ Len(Append(p, k)) = Len(p) + 1
    <3>1. IsBucket(tx, p)
      BY Zenon, <1>2 DEF OpOK
    <3>2. QED
      BY <1>2, <3>1, KeyPath
  <2>2. Len(Append(p, k)) \in Nat /\ Len(Append(p, k)) > n
    BY Zenon, <1>7, <2>1
  <2> HIDE DEF n, p
  <2>3. QED
    BY Zenon, <1>7, <2>1, <2>2, DeepPut, DeepCut
<1>10. \/ i.op = "RenameKey" /\ RenameKey(p, i)
       \/ i.op # "RenameKey" /\ (AddKey(q, i) \/ AddBucket(q, i) \/ DeleteKey(q) \/ Read(q) \/ StepInto(q, i))
  BY Zenon, StringsApart DEF execute_operate_real
<1>11. CASE i.op = "RenameKey" /\ RenameKey(p, i)
  <2>1. i.new_key \in Keys
    BY Zenon, <1>2, <1>11 DEF OpOK
  <2>2. CASE Becomes(tx)
    BY Zenon, <1>6, <1>8, <2>2
  <2>3. ASSUME NEW v, Becomes(With(tx, Append(p, i.new_key), v)) PROVE RetryInv' /\ RetryDone
    BY Zenon, <1>6, <1>9, <2>1, <2>3
  <2>4. CASE tx' = With(tx, Append(p, i.new_key), Bucket) /\ calls' = Advanced /\ again' = again
    <3>1. calls'[1] = calls[1] /\ calls' # <<>>
      BY Zenon, <1>3, <2>4 DEF FirstAfter
    <3>2. SameUpTo(tx, tx', n)
      BY Zenon, <1>9, <2>1, <2>4
    <3>3. QED
      BY Zenon, <1>1, <2>4, <3>1, <3>2, InnerKeeps
  <2>5. QED
    BY Zenon, <1>11, <2>2, <2>3, <2>4 DEF RenameKey
<1>12. CASE i.op # "RenameKey" /\ (AddKey(q, i) \/ AddBucket(q, i) \/ DeleteKey(q) \/ Read(q) \/ StepInto(q, i))
  <2>1. i.key \in Keys
    BY Zenon, <1>2, <1>12 DEF OpOK
  <2>2. /\ \A v : SameUpTo(tx, With(tx, q, v), n)
        /\ SameUpTo(tx, Without(tx, {q}), n)
    BY Zenon, <1>9, <2>1
  <2> HIDE DEF q, p, i, n
  <2>3. CASE AddKey(q, i)
    BY Zenon, <1>5, <1>6, <2>2, <2>3 DEF AddKey
  <2>4. CASE AddBucket(q, i)
    BY Zenon, <1>5, <1>6, <1>8, <2>2, <2>4 DEF AddBucket
  <2>5. CASE DeleteKey(q)
    BY Zenon, <1>5, <1>6, <2>2, <2>5 DEF DeleteKey
  <2>6. CASE Read(q)
    BY Zenon, <1>5, <1>6, <1>8, <2>6 DEF Read
  <2>7. CASE StepInto(q, i)
    BY Zenon, <1>5, <1>6, <1>8, <2>7 DEF StepInto
  <2>8. QED
    BY Zenon, <1>12, <2>3, <2>4, <2>5, <2>6, <2>7
<1>13. QED
  BY Zenon, <1>10, <1>11, <1>12

(* The operation that the outermost call, of a list that only adds, is at. *)
AddOf(c, i, q) ==
  /\ FirstOK(c) /\ AddOps(c.operate) /\ c.i \in 1..Len(c.operate)
  /\ i = c.operate[c.i] /\ q = Append(c.bucket, i.key)

(* The second time, a key is written where there is a value, and a bucket   *)
(* is passed over.                                                          *)
LEMMA SecondTime ==
  ASSUME NEW c, NEW i, NEW q, AddOf(c, i, q), Retrying(c)
  PROVE  /\ i.op = "AddKey" => /\ IsValue(store, q) /\ IsValue(tx, q)
                               /\ \/ store[q] = i.value
                                  \/ \E m \in (c.i + 1)..Len(c.operate) : AddsKey(c.operate[m], i.key)
         /\ i.op = "AddBucket" => AlreadyThere(q)
<1>1. /\ i.op = "AddBucket" => IsBucket(store, q)
      /\ i.op = "AddKey" =>
           /\ IsValue(store, q)
           /\ \/ store[q] = i.value
              \/ \E m \in (c.i + 1)..Len(c.operate) : AddsKey(c.operate[m], i.key)
  BY Zenon DEF AddOf, Retrying, Added
<1>2. Has(store, q) => Has(tx, q) /\ (tx[q] = store[q] \/ (tx[q] # Bucket /\ store[q] # Bucket))
  BY Zenon DEF Retrying, Agrees, Has
<1>3. QED
  BY Zenon, <1>1, <1>2 DEF IsBucket, IsValue, AlreadyThere

(* The rest of the list is one operation shorter. *)
LEMMA RestOfList ==
  ASSUME NEW c, NEW i, NEW q, AddOf(c, i, q), NEW r, r # q \/ i.op # "AddKey",
         NEW j \in c.i..Len(c.operate), c.operate[j].op = "AddKey", r = Append(c.bucket, c.operate[j].key)
  PROVE  j \in (c.i + 1)..Len(c.operate)
<1>1. j # c.i
  BY Zenon DEF AddOf
<1>2. c.i \in Nat /\ Len(c.operate) \in Nat
  BY Zenon DEF AddOf, FirstOK
<1>3. QED
  BY <1>1, <1>2

(* What is left of a list, and what the transaction u has. *)
StillAgrees(u, d) == DOMAIN u = DOMAIN store /\ \A r \in DOMAIN u : Agrees(u, store, d, r)

LEMMA RetryKey ==
  ASSUME NEW c, NEW i, NEW q, AddOf(c, i, q), Retrying(c), i.op = "AddKey", NEW u, u = With(tx, q, i.value),
         NEW d, d.bucket = c.bucket, d.operate = c.operate, d.i = c.i + 1
  PROVE  StillAgrees(u, d)
<1>1. /\ IsValue(store, q) /\ IsValue(tx, q)
      /\ \/ store[q] = i.value
         \/ \E m \in (c.i + 1)..Len(c.operate) : AddsKey(c.operate[m], i.key)
  BY Zenon, SecondTime
<1>2. Puts(tx, q, i.value, u)
  BY Zenon, WithFacts
<1>3. /\ \A r : Has(u, r) <=> Has(tx, r) \/ r = q
      /\ u[q] = i.value
      /\ \A r \in DOMAIN tx : r # q => u[r] = tx[r]
  BY Zenon, <1>2 DEF Puts
<1>4. i.value # Bucket
  BY Zenon, ExtendAssumption DEF AddOf, AddOps
<1>5. DOMAIN u = DOMAIN store
  <2>1. \A r : r \in DOMAIN u <=> r \in DOMAIN tx
    BY Zenon, <1>1, <1>3 DEF Has, IsValue
  <2>2. QED
    BY Zenon, <2>1 DEF Retrying
<1>6. ASSUME NEW r \in DOMAIN u, r # q PROVE Agrees(u, store, d, r)
  <2>1. u[r] = tx[r] /\ Agrees(tx, store, c, r)
    BY Zenon, <1>3, <1>6 DEF Has, Retrying
  <2>2. r # q \/ i.op # "AddKey"
    BY Zenon, <1>6
  <2>3. ASSUME NEW j \in c.i..Len(c.operate), c.operate[j].op = "AddKey", r = Append(c.bucket, c.operate[j].key)
        PROVE  j \in (c.i + 1)..Len(c.operate)
    BY <2>2, <2>3, RestOfList
  <2>4. QED
    BY Zenon, <2>1, <2>3 DEF Agrees
<1>7. Agrees(u, store, d, q)
  <2>1. CASE store[q] = i.value
    BY Zenon, <1>3, <2>1 DEF Agrees
  <2>2. CASE \E m \in (c.i + 1)..Len(c.operate) : AddsKey(c.operate[m], i.key)
    <3>1. \E m \in d.i..Len(d.operate) : d.operate[m].op = "AddKey" /\ q = Append(d.bucket, d.operate[m].key)
      BY Zenon, <2>2 DEF AddsKey, AddOf
    <3>2. QED
      BY Zenon, <1>1, <1>3, <1>4, <3>1 DEF Agrees, IsValue
  <2>3. QED
    BY Zenon, <1>1, <2>1, <2>2
<1>8. QED
  BY Zenon, <1>5, <1>6, <1>7 DEF StillAgrees

LEMMA RetryBucket ==
  ASSUME NEW c, NEW i, NEW q, AddOf(c, i, q), Retrying(c), i.op = "AddBucket",
         NEW d, d.bucket = c.bucket, d.operate = c.operate, d.i = c.i + 1
  PROVE  StillAgrees(tx, d)
<1>1. ASSUME NEW r \in DOMAIN tx PROVE Agrees(tx, store, d, r)
  <2>1. Agrees(tx, store, c, r)
    BY Zenon DEF Retrying
  <2>2. r # q \/ i.op # "AddKey"
    BY Zenon, StringsApart
  <2>3. ASSUME NEW j \in c.i..Len(c.operate), c.operate[j].op = "AddKey", r = Append(c.bucket, c.operate[j].key)
        PROVE  j \in (c.i + 1)..Len(c.operate)
    BY Zenon, <2>2, <2>3, RestOfList
  <2>4. QED
    BY Zenon, <2>1, <2>3 DEF Agrees
<1>2. QED
  BY Zenon, <1>1 DEF StillAgrees, Retrying

(* An operation of the outermost call, when the list only adds. *)
LEMMA OuterAdd ==
  ASSUME Inv, RetryInv, Len(calls) = 1, execute_operate_real, OnlyAdds(calls[1].operate)
  PROVE  RetryInv' /\ RetryDone
<1> DEFINE c == calls[1]
           i == c.operate[c.i]
           q == Append(c.bucket, i.key)
           n == c.i - 1
<1>1. Running /\ More(Last(calls)) /\ ~Idle /\ Last(calls) = c
  BY Zenon DEF execute_operate_real, Running, Last
<1>2. FirstOK(c) /\ AddOps(c.operate) /\ FirstAfter(Advanced)
      /\ \A r, other : FirstAfter(Append(Advanced, Call(r, other)))
  BY Zenon, <1>1, FirstCall, OnlyAddOps, FirstAdvanced DEF FirstOK
<1>3. c.i \in 1..Len(c.operate) /\ n \in Nat /\ n + 1 \in 1..Len(c.operate) /\ n + 1 = c.i
  <2>1. c.i <= Len(c.operate)
    BY Zenon, <1>1 DEF More
  <2>2. c.i \in Nat /\ Len(c.operate) \in Nat /\ c.i - 1 \in 0..Len(c.operate)
    BY Zenon, <1>2 DEF FirstOK
  <2> HIDE DEF c
  <2>3. QED
    BY <2>1, <2>2
<1>4. AddOf(c, i, q) /\ i.op \in {"AddKey", "AddBucket"} /\ Added(tx, c.bucket, c.operate, n)
  BY Zenon, <1>1, <1>2, <1>3 DEF AddOf, AddOps, RetryInv, Adding
<1>5. again => Retrying(c) /\ moving = NoMove
  BY Zenon DEF RetryInv, Retrying
<1>6. ASSUME Unwind, ~again PROVE RetryInv' /\ RetryDone
  <2>1. RetryInv'
    BY Zenon, <1>6, StopsRetry DEF Unwind
  <2>2. QED
    BY Zenon, <2>1, <1>6 DEF RetryDone
<1>7. ASSUME FirstAfter(calls'), UNCHANGED <<store, moving, again>>, Added(tx', c.bucket, c.operate, n + 1),
             again => StillAgrees(tx', calls'[1]) /\ Len(calls') = 1
      PROVE  RetryInv' /\ RetryDone
  <2>1. calls'[1].bucket = c.bucket /\ calls'[1].operate = c.operate /\ calls'[1].i = c.i + 1 /\ calls' # <<>>
    BY Zenon, <1>7 DEF FirstAfter
  <2>2. calls'[1].i - 1 = n + 1
    <3>1. c.i \in Nat
      BY Zenon, <1>2 DEF FirstOK
    <3> HIDE DEF c
    <3>2. QED
      BY <2>1, <3>1 DEF n
  <2>3. Adding(calls[1])'
    BY Zenon, <1>7, <2>1, <2>2 DEF Adding
  <2>4. again => Retrying(calls[1])'
    BY Zenon, <1>5, <1>7, <2>1 DEF Retrying, StillAgrees
  <2>5. QED
    BY Zenon, <1>7, <2>3, <2>4 DEF RetryInv, RetryDone
<1>8. ASSUME Becomes(tx') PROVE FirstAfter(calls') /\ UNCHANGED <<store, moving, again>> /\ Len(calls') = 1
                               /\ calls'[1].bucket = c.bucket /\ calls'[1].operate = c.operate /\ calls'[1].i = c.i + 1
  <2>1. calls' = Advanced /\ UNCHANGED <<store, moving, again>>
    BY Zenon, <1>8 DEF Becomes
  <2>2. Len(Advanced) = Len(calls)
    BY Zenon, <1>1, AdvancedFacts DEF Advanced, Advances, Inv, CallsOK, Idle
  <2>3. QED
    BY Zenon, <1>2, <2>1, <2>2 DEF FirstAfter
<1>9. \/ i.op = "AddKey" /\ AddKey(q, i)
      \/ i.op = "AddBucket" /\ AddBucket(q, i)
  <2>1. i.op \notin {"RenameKey", "DeleteKey", "Read", "StepInto"}
    <3> HIDE DEF i
    <3>1. QED
      BY <1>4
  <2>2. QED
    BY Zenon, <1>1, <2>1 DEF execute_operate_real
<1>10. CASE i.op = "AddKey" /\ AddKey(q, i)
  <2>1. again => IsValue(tx, q)
    BY Zenon, <1>4, <1>5, <1>10, SecondTime
  <2>2. CASE IsBucket(tx, q) /\ Unwind
    <3>1. ~again
      BY Zenon, <2>1, <2>2 DEF IsBucket, IsValue
    <3>2. QED
      BY Zenon, <1>6, <2>2, <3>1
  <2>3. CASE ~IsBucket(tx, q) /\ Becomes(With(tx, q, i.value))
    <3>1. tx' = With(tx, q, i.value) /\ Becomes(tx')
      BY Zenon, <2>3 DEF Becomes
    <3>2. c.operate[n + 1].op = "AddKey" /\ q = Append(c.bucket, c.operate[n + 1].key)
          /\ i.value = c.operate[n + 1].value /\ c.bucket \in Path /\ Len(c.operate) \in Nat
      BY Zenon, <1>2, <1>3, <1>10 DEF FirstOK
    <3> HIDE DEF c, q, n, i
    <3>3. Added(tx', c.bucket, c.operate, n + 1)
      BY Zenon, <1>2, <1>3, <1>4, <2>3, <3>1, <3>2, AddedKey
    <3>4. again => StillAgrees(tx', calls'[1])
      BY Zenon, <1>4, <1>5, <1>8, <1>10, <3>1, RetryKey
    <3>5. QED
      BY Zenon, <1>7, <1>8, <3>1, <3>3, <3>4
  <2>4. QED
    BY Zenon, <1>10, <2>2, <2>3 DEF AddKey
<1>11. CASE i.op = "AddBucket" /\ AddBucket(q, i)
  <2>1. again => AlreadyThere(q)
    BY Zenon, <1>4, <1>5, <1>11, SecondTime
  <2>2. c.operate[n + 1].op = "AddBucket" /\ q = Append(c.bucket, c.operate[n + 1].key)
    BY Zenon, <1>3, <1>11
  <2>3. CASE AlreadyThere(q) /\ Becomes(tx)
    <3>1. tx' = tx /\ Becomes(tx') /\ IsBucket(tx', q)
      BY Zenon, <2>3 DEF Becomes, AlreadyThere
    <3>2. \A r \in DOMAIN tx : Has(tx', r) /\ tx'[r] = tx[r]
      BY Zenon, <3>1 DEF Has
    <3> HIDE DEF c, q, n, i
    <3>3. Added(tx', c.bucket, c.operate, n + 1)
      BY Zenon, <1>3, <1>4, <2>2, <3>1, <3>2, AddedBucket
    <3>4. again => StillAgrees(tx', calls'[1])
      BY Zenon, <1>4, <1>5, <1>8, <1>11, <3>1, RetryBucket
    <3>5. QED
      BY Zenon, <1>7, <1>8, <3>1, <3>3, <3>4
  <2>4. CASE ~AlreadyThere(q) /\ ~Has(tx, q) /\ StepsInto(With(tx, q, Bucket), q, i.other)
    <3>1. tx' = With(tx, q, Bucket) /\ FirstAfter(calls') /\ UNCHANGED <<store, moving, again>>
      BY Zenon, <1>2, <2>4 DEF StepsInto
    <3>2. Puts(tx, q, Bucket, tx')
      BY Zenon, <3>1, WithFacts
    <3>3. (\A r \in DOMAIN tx : Has(tx', r) /\ tx'[r] = tx[r]) /\ IsBucket(tx', q)
      BY Zenon, <2>4, <3>2 DEF Puts, Has, IsBucket
    <3> HIDE DEF c, q, n, i
    <3>4. Added(tx', c.bucket, c.operate, n + 1)
      BY Zenon, <1>3, <1>4, <2>2, <3>3, AddedBucket
    <3>5. QED
      BY Zenon, <1>7, <2>1, <2>4, <3>1, <3>4
  <2>5. CASE ~AlreadyThere(q) /\ Unwind
    BY Zenon, <1>6, <2>1, <2>5
  <2>6. QED
    BY Zenon, <1>11, <2>3, <2>4, <2>5 DEF AddBucket
<1>12. QED
  BY Zenon, <1>9, <1>10, <1>11

(* An operation of the outermost call, in general. *)
LEMMA OuterOp ==
  ASSUME Inv, RetryInv, Len(calls) = 1, execute_operate_real
  PROVE  RetryInv' /\ RetryDone
<1>1. CASE OnlyAdds(calls[1].operate)
  BY Zenon, <1>1, OuterAdd
<1>2. CASE ~OnlyAdds(calls[1].operate)
  <2>1. ~Idle
    BY Zenon DEF execute_operate_real, Running
  <2>2. FirstAfter(Advanced) /\ \A r, other : FirstAfter(Append(Advanced, Call(r, other)))
    BY Zenon, <2>1, FirstAdvanced
  <2>3. Unwind \/ calls' = Advanced \/ \E r, other : calls' = Append(Advanced, Call(r, other))
    BY Zenon DEF execute_operate_real, RenameKey, AddKey, AddBucket, DeleteKey, Read, StepInto, Becomes, StepsInto
  <2>4. CASE Unwind
    BY Zenon, <1>2, <2>4, StopsRetry DEF Unwind, RetryDone
  <2>5. CASE FirstAfter(calls')
    BY Zenon, <1>2, <2>5 DEF FirstAfter, RetryInv, RetryDone, Adding
  <2>6. QED
    BY Zenon, <2>2, <2>3, <2>4, <2>5
<1>3. QED
  BY Zenon, <1>1, <1>2

LEMMA OneOrMore == \A n \in Nat : 1 \in 1..n => n = 1 \/ n > 1
OBVIOUS

LEMMA OperateRetry ==
  ASSUME Inv, RetryInv, execute_operate_real
  PROVE  RetryInv' /\ RetryDone
<1>1. ~Idle
  BY Zenon DEF execute_operate_real, Running
<1>2. 1 \in 1..Len(calls) /\ Len(calls) \in Nat
  BY Zenon, <1>1, FirstCall DEF FirstOK
<1>3. Len(calls) = 1 \/ Len(calls) > 1
  BY Zenon, <1>2, OneOrMore
<1>4. QED
  BY Zenon, <1>3, OuterOp, InnerOp

(* A list that only adds has its renames, if any, in the lists inside. *)
MovesDeep(n) == n \in Nat /\ Len(moving.old) \in Nat /\ Len(moving.old) > n

LEMMA MovesInside ==
  ASSUME Inv, moving # NoMove, OnlyAdds(calls[1].operate)
  PROVE  MovesDeep(Len(calls[1].bucket) + 1)
<1> DEFINE c == Last(calls)
<1>1. ~Idle /\ RenameOf(c, moving) /\ CallsOK(tx, calls) /\ calls # <<>> /\ Forest(tx)
  BY Zenon DEF Inv, Idle
<1>2. FirstOK(calls[1]) /\ Running1(tx, calls, c)
  BY Zenon, <1>1, FirstCall, LastCall
<1>3. Len(calls[1].bucket) \in Nat /\ Len(calls) \in Nat /\ 1 \in 1..Len(calls)
  BY Zenon, <1>2 DEF FirstOK
<1>4. Len(calls) > 1
  <2>1. SUFFICES ASSUME Len(calls) = 1 PROVE FALSE
    BY Zenon, <1>3, OneOrMore
  <2>2. c = calls[1] /\ c.i - 1 \in 0..Len(c.operate) /\ c.i > 1 /\ c.i \in Nat /\ Len(c.operate) \in Nat
    BY Zenon, <1>1, <1>2, <2>1 DEF Last, FirstOK, RenameOf
  <2>3. c.operate[c.i - 1].op = "RenameKey" /\ OnlyAdds(c.operate)
    BY Zenon, <1>1, <2>2 DEF RenameOf
  <2> HIDE DEF c
  <2>4. c.i - 1 \in 1..Len(c.operate)
    BY <2>2
  <2>5. c.operate[c.i - 1].op \in {"AddKey", "AddBucket"}
    BY Zenon, <2>3, <2>4 DEF OnlyAdds
  <2>6. QED
    BY Zenon, <2>3, <2>5, StringsApart
<1>5. Len(c.bucket) \in Nat /\ Len(calls[1].bucket) < Len(c.bucket)
  BY Zenon, <1>1, <1>4, InnerDepth
<1>6. PICK k \in Keys : moving.old = Append(c.bucket, k)
  BY Zenon, <1>1 DEF RenameOf
<1>7. IsBucket(tx, c.bucket)
  BY Zenon, <1>2 DEF Running1
<1> HIDE DEF c
<1>8. Len(moving.old) = Len(c.bucket) + 1
  BY <1>1, <1>6, <1>7, KeyPath
<1>9. QED
  BY <1>3, <1>5, <1>8 DEF MovesDeep

LEMMA CopyRetry ==
  ASSUME Inv, RetryInv, NEW k \in Keys, copy_bucket_data_recursive(k)
  PROVE  RetryInv' /\ RetryDone
<1> DEFINE q == Append(Last(copies).from, k)
           r == Append(Last(copies).to, k)
           n == Len(calls[1].bucket) + 1
<1>1. copies # <<>> /\ k \in Last(copies).left
  BY Zenon DEF copy_bucket_data_recursive
<1>2. moving # NoMove /\ copies \in Seq(CopySet) /\ Copying(tx, moving, copies) /\ Forest(tx) /\ ~Idle
  BY Zenon, <1>1 DEF Inv
<1>3. Renames(moving)
  BY Zenon, <1>2, MoveRenames
<1>4. NextKey(tx, moving, copies, q, r)
  BY Zenon, <1>1, <1>2, <1>3, NextKeyFacts
<1>5. CopyData(k, q, r) /\ calls' = calls /\ again' = again
  <2>1. ~CannotCopy(q, r)
    BY Zenon, <1>4 DEF NextKey, CannotCopy, IsBucket
  <2>2. QED
    BY Zenon, <2>1 DEF copy_bucket_data_recursive
<1>6. tx' = With(tx, r, tx[q])
  BY Zenon, <1>5 DEF CopyData
<1>7. IsImage(moving, q, r)
  <2>1. q \in Seq(Name) /\ IsPrefix(moving.old, q) /\ r = Image(moving, q)
    BY Zenon, <1>4 DEF NextKey, Below, Path
  <2> HIDE DEF q, r
  <2>2. QED
    BY Zenon, <1>3, <2>1, ImageFacts
<1>8. r \in Path /\ Len(r) = Len(moving.old) + Len(copies) /\ Len(copies) \in Nat
  <2>1. Len(copies) \in Nat
    BY <1>2
  <2>2. QED
    BY Zenon, <1>4, <1>7, <2>1 DEF NextKey, IsImage
<1> HIDE DEF q, r
<1>9. ASSUME OnlyAdds(calls[1].operate) PROVE SameUpTo(tx, tx', n)
  <2>1. MovesDeep(n)
    BY Zenon, <1>2, <1>9, MovesInside
  <2> HIDE DEF n
  <2>2. n \in Nat /\ Len(r) > n
    BY <1>8, <2>1 DEF MovesDeep
  <2>3. QED
    BY Zenon, <1>6, <1>8, <2>2, DeepPut
<1>10. calls'[1] = calls[1] /\ calls' # <<>>
  BY Zenon, <1>2, <1>5 DEF Idle
<1>11. QED
  BY Zenon, <1>2, <1>5, <1>9, <1>10, InnerKeeps

LEMMA DeleteOldRetry ==
  ASSUME Inv, RetryInv, DeleteOld
  PROVE  RetryInv' /\ RetryDone
<1> DEFINE n == Len(calls[1].bucket) + 1
           S == Below(tx, moving.old)
<1>1. moving # NoMove /\ ~Idle /\ Forest(tx) /\ tx' = Without(tx, S) /\ calls' = calls /\ again' = again
  BY Zenon DEF Inv, DeleteOld, delete_bucket
<1>2. Renames(moving)
  BY Zenon, <1>1, MoveRenames
<1>3. ASSUME OnlyAdds(calls[1].operate) PROVE SameUpTo(tx, tx', n)
  <2>1. MovesDeep(n)
    BY Zenon, <1>1, <1>3, MovesInside
  <2>2. n \in Nat
    BY Zenon, <2>1 DEF MovesDeep
  <2>3. ASSUME NEW q \in S PROVE Len(q) \in Nat /\ Len(q) > n
    <3>1. q \in Seq(Name) /\ IsPrefix(moving.old, q) /\ moving.old \in Seq(Name)
      BY Zenon, <1>1, <1>2, <2>3 DEF Below, Forest, Path, Renames
    <3>2. Len(moving.old) <= Len(q) /\ Len(q) \in Nat
      BY <3>1, PrefixMeans
    <3> HIDE DEF n
    <3>3. QED
      BY <2>1, <3>2 DEF MovesDeep
  <2> HIDE DEF n, S
  <2>4. QED
    BY Zenon, <1>1, <2>2, <2>3, DeepCut
<1>4. calls'[1] = calls[1] /\ calls' # <<>>
  BY Zenon, <1>1 DEF Idle
<1>5. QED
  BY Zenon, <1>1, <1>3, <1>4, InnerKeeps

LEMMA CallEndsRetry ==
  ASSUME Inv, RetryInv, Return \/ CopyReturn
  PROVE  RetryInv' /\ RetryDone
<1>1. ~Idle /\ calls # <<>> /\ calls \in Seq(CallSet)
  BY Zenon DEF Inv, Return, CopyReturn, Running, Idle, CallsOK
<1>2. tx' = tx /\ again' = again
  BY Zenon DEF Return, CopyReturn
<1>3. SameUpTo(tx, tx', Len(calls[1].bucket) + 1)
  BY Zenon, <1>2 DEF SameUpTo
<1>4. CASE Return
  <2>1. Len(calls) > 1 /\ calls' = Front(calls)
    BY Zenon, <1>4 DEF Return
  <2>2. Front(calls) \in Seq(CallSet) /\ Len(Front(calls)) = Len(calls) - 1 /\ Len(calls) \in Nat \ {0}
        /\ \A i \in 1..(Len(calls) - 1) : Front(calls)[i] = calls[i]
    BY <1>1, FrontFacts
  <2>3. 1 \in 1..(Len(calls) - 1) /\ Len(Front(calls)) # 0
    BY <2>1, <2>2
  <2>4. Front(calls) # <<>>
    BY <2>3
  <2>5. calls'[1] = calls[1] /\ calls' # <<>>
    BY Zenon, <2>1, <2>2, <2>3, <2>4
  <2>6. QED
    BY Zenon, <1>1, <1>2, <1>3, <2>1, <2>5, InnerKeeps
<1>5. CASE CopyReturn
  <2>1. moving # NoMove /\ calls'[1] = calls[1] /\ calls' # <<>>
    BY Zenon, <1>1, <1>5 DEF CopyReturn, Inv
  <2>2. QED
    BY Zenon, <1>1, <1>2, <1>3, <2>1, InnerKeeps
<1>6. QED
  BY Zenon, <1>4, <1>5

LEMMA ExecuteRetry ==
  ASSUME Inv, RetryInv, NEW p, NEW operate, execute_operate(p, operate)
  PROVE  RetryInv' /\ RetryDone
<1>1. calls' = <<Call(p, operate)>> /\ ~again /\ again' = again
  BY Zenon DEF execute_operate, Inv
<1>2. calls'[1].i - 1 = 0
  BY <1>1 DEF Call
<1>3. Adding(calls[1])'
  BY <1>2 DEF Adding, Added
<1>4. QED
  BY Zenon, <1>1, <1>3 DEF RetryInv, RetryDone

(* At the end of the list the transaction is the database. *)
LEMMA NothingLeft ==
  ASSUME Inv, ~Idle, ~More(calls[1]), Retrying(calls[1])
  PROVE  tx = store
<1> DEFINE c == calls[1]
<1>1. c.i \in Nat /\ Len(c.operate) \in Nat /\ ~(c.i <= Len(c.operate))
  BY Zenon, FirstCall DEF FirstOK, More
<1> HIDE DEF c
<1>2. \A j : j \notin c.i..Len(c.operate)
  BY <1>1
<1>3. DOMAIN tx = DOMAIN store /\ \A q \in DOMAIN tx : tx[q] = store[q]
  BY Zenon, <1>2 DEF Retrying, Agrees, c
<1>4. tx = [q \in DOMAIN tx |-> tx[q]] /\ store = [q \in DOMAIN store |-> store[q]]
  BY Zenon DEF Inv, Forest
<1>5. QED
  BY <1>3, <1>4

LEMMA CommitRetry ==
  ASSUME Inv, RetryInv, Commit
  PROVE  RetryInv' /\ RetryDone
<1> DEFINE c == calls[1]
           d == Call(c.bucket, c.operate)
<1>1. ~Idle /\ Len(calls) = 1 /\ ~More(c) /\ moving = NoMove
  BY Zenon DEF Commit, Running, Last
<1>2. FirstOK(c)
  BY Zenon, <1>1, FirstCall
<1>3. RetryDone
  BY Zenon, <1>1, NothingLeft DEF RetryDone, RetryInv
<1>4. CASE calls' = <<>> /\ ~again'
  BY Zenon, <1>3, <1>4, StopsRetry
<1>5. CASE calls' = <<d>> /\ store' = tx /\ UNCHANGED <<tx, moving>>
  <2>1. calls'[1].i - 1 = 0 /\ calls'[1].bucket = c.bucket /\ calls'[1].operate = c.operate /\ Len(calls') = 1
    BY <1>5 DEF Call
  <2>2. Adding(calls[1])'
    BY <2>1 DEF Adding, Added
  <2>3. c.i - 1 = Len(c.operate)
    <3>1. c.i \in Nat /\ Len(c.operate) \in Nat /\ c.i - 1 \in 0..Len(c.operate) /\ ~(c.i <= Len(c.operate))
      BY Zenon, <1>1, <1>2 DEF FirstOK, More
    <3> HIDE DEF c
    <3>2. QED
      BY <3>1
  <2>4. ASSUME OnlyAdds(c.operate) PROVE Retrying(calls[1])'
    <3>1. Added(tx, c.bucket, c.operate, Len(c.operate))
      BY Zenon, <1>1, <2>3, <2>4 DEF RetryInv, Adding
    <3>2. Added(store', calls'[1].bucket, calls'[1].operate, Len(calls'[1].operate))
      BY Zenon, <1>5, <2>1, <3>1
    <3>3. QED
      BY Zenon, <1>1, <1>5, <2>1, <3>2 DEF Retrying, Agrees
  <2>5. RetryInv'
    BY Zenon, <2>1, <2>2, <2>4 DEF RetryInv
  <2>6. QED
    BY Zenon, <1>3, <2>5
<1>6. QED
  BY Zenon, <1>4, <1>5 DEF Commit, Unwind

LEMMA GlobalRetry ==
  ASSUME Inv, RetryInv, NEW g, extend_create_global_bucket(g)
  PROVE  RetryInv' /\ RetryDone
BY Zenon DEF Inv, RetryInv, RetryDone, extend_create_global_bucket, Idle

LEMMA RetryStep ==
  ASSUME Inv, RetryInv, [Next]_vars
  PROVE  RetryInv' /\ RetryDone
<1>1. CASE UNCHANGED vars
  BY Zenon, <1>1 DEF RetryInv, RetryDone, Adding, Retrying, vars, Idle
<1>2. QED
  BY Zenon, <1>1, GlobalRetry, ExecuteRetry, OperateRetry, CallEndsRetry, CommitRetry, CopyRetry, DeleteOldRetry DEF Next

(* AddKey and AddBucket can be retried, for any keys, values and operation  *)
(* lists: when a list with only these at its outer level is sent again to   *)
(* the same bucket after it was executed, no unwrap of                      *)
(* execute_operate_real fails, and its commit leaves the database as it     *)
(* was, whatever the lists for the buckets inside did the first time.       *)
THEOREM AddsAreRetried == Spec => AddsCanBeRetried
<1>1. Init => RetryInv
  BY Zenon DEF Init, RetryInv, Idle
<1>2. Inv /\ RetryInv /\ [Next]_vars => RetryInv' /\ [RetryDone]_vars
  BY Zenon, RetryStep
<1>3. QED
  BY <1>1, <1>2, InvAlways, PTL DEF Spec, AddsCanBeRetried, RetryDone
=============================================================================
