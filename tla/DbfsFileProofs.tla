--------------------------- MODULE DbfsFileProofs ---------------------------
(***************************************************************************)
(* Proofs about DbfsFile, for any slice size, bounds, files and threads.   *)
(***************************************************************************)
EXTENDS DbfsFile, WellFoundedInduction, TLAPS

(* What a thread has read and not yet acted on. *)
Truncation ==
  [do : {"truncate"}, file : Files, to : 0..MaxSize, size : 0..MaxSize, mode : SUBSET Bit]

CopyingRead ==
  {o \in [do : {"copy read"}, src : Files, from : Nat, dest : Files, to : 0 .. MaxSize - 1,
          len : 0..MaxLen] : o.to + o.len <= MaxSize}

CopyingWrite ==
  {o \in [do : {"copy write"}, dest : Files, to : 0 .. MaxSize - 1, buf : Seq(Byte)] :
     Len(o.buf) <= MaxLen /\ o.to + Len(o.buf) <= MaxSize}

Operation == {Idle} \cup Truncation \cup CopyingRead \cup CopyingWrite

Shape == op \in [Threads -> Operation]

(* A byte that a write has covered is before the end and in a slice with a  *)
(* key.                                                                     *)
CoveredIsStored ==
  \A f \in Files : \A k \in covered[f] : k < size[f] /\ slices[f][k \div SliceSize] # NoSlice

IInv == TypeOK /\ Shape /\ CoveredIsStored

-----------------------------------------------------------------------------
(* Positions and slices.                                                    *)

LEMMA Division ==
  ASSUME NEW S \in Nat \ {0}, NEW k \in Nat
  PROVE  /\ k \div S \in Nat /\ k % S \in 0 .. S - 1
         /\ k = (k \div S) * S + (k % S)
<1> DEFINE q == k \div S
           r == k % S
<1>1. q \in Nat
  OBVIOUS
<1>2. r \in 0 .. S - 1
  OBVIOUS
<1>3. k = S * q + r
  OBVIOUS
<1> HIDE DEF q, r
<1>4. k = q * S + r
  BY <1>1, <1>2, <1>3
<1>5. QED
  BY Zenon, <1>1, <1>2, <1>4, Zenon DEF q, r

LEMMA Monotone ==
  ASSUME NEW S \in Nat \ {0}, NEW k \in Nat, NEW m \in Nat, k <= m
  PROVE  k \div S <= m \div S
OBVIOUS

LEMMA Positions ==
  ASSUME NEW k \in 0..MaxSize
  PROVE  /\ k \div SliceSize \in Index /\ k % SliceSize \in InSlice
         /\ k \div SliceSize \in Nat
         /\ k = (k \div SliceSize) * SliceSize + (k % SliceSize)
<1>1. SliceSize \in Nat \ {0} /\ k \in Nat /\ MaxSize \in Nat /\ k <= MaxSize
  BY FileAssumption
<1>2. k \div SliceSize <= MaxSize \div SliceSize
  BY Zenon, <1>1, Monotone
<1>3. k \div SliceSize \in Nat /\ MaxSize \div SliceSize \in Nat
  BY Zenon, <1>1, Division
<1>4. QED
  BY <1>1, <1>2, <1>3, Division DEF Index, InSlice

LEMMA SliceIsSome == ASSUME NEW s \in Slice PROVE s # NoSlice
<1>1. 0 \in DOMAIN s
  BY FileAssumption DEF Slice, InSlice
<1>2. DOMAIN NoSlice = 1..0
  BY DEF NoSlice
<1>3. QED
  BY <1>1, <1>2

LEMMA Bytes ==
  ASSUME NEW n \in Nat, NEW B, NEW s \in [1..n -> B]
  PROVE  s \in Seq(B) /\ Len(s) = n
OBVIOUS

LEMMA SizeType ==
  ASSUME TypeOK, NEW f \in Files
  PROVE  size[f] \in 0..MaxSize /\ size[f] \in Nat
<1>1. size \in [Files -> 0..MaxSize]
  BY Zenon DEF TypeOK
<1>2. QED
  BY <1>1, FileAssumption

LEMMA OperationKinds ==
  ASSUME NEW o \in Operation
  PROVE  /\ o.do \in {"idle", "truncate", "copy read", "copy write"}
         /\ o.do = "truncate" => o \in Truncation
         /\ o.do = "copy read" => o \in CopyingRead
         /\ o.do = "copy write" => o \in CopyingWrite
<1>1. o = Idle => o.do = "idle"
  BY DEF Idle
<1>2. o \in Truncation => o.do = "truncate"
  BY Zenon DEF Truncation
<1>3. o \in CopyingRead => o.do = "copy read"
  BY Zenon DEF CopyingRead
<1>4. o \in CopyingWrite => o.do = "copy write"
  BY Zenon DEF CopyingWrite
<1>5. o = Idle \/ o \in Truncation \/ o \in CopyingRead \/ o \in CopyingWrite
  BY Zenon DEF Operation
<1>6. /\ "idle" # "truncate" /\ "idle" # "copy read" /\ "idle" # "copy write"
      /\ "truncate" # "copy read" /\ "truncate" # "copy write" /\ "copy read" # "copy write"
  OBVIOUS
<1>7. QED
  BY Zenon, <1>1, <1>2, <1>3, <1>4, <1>5, <1>6

-----------------------------------------------------------------------------
(* Folds over sets of numbers.                                              *)

(* Induction, for a set in the place of a predicate. *)
LEMMA Induction ==
  ASSUME NEW T, 0 \in T, \A n \in Nat : n \in T => n + 1 \in T
  PROVE  \A n \in Nat : n \in T
<1> DEFINE U == Nat \ T
<1>1. SUFFICES ASSUME U # {} PROVE FALSE
  OBVIOUS
<1>2. PICK x \in U : \A y \in U : ~(<<y, x>> \in OpToRel(<, Nat))
  BY Zenon, <1>1, NatLessThanWellFounded, WFMin
<1>3. x \in Nat /\ x \notin T
  BY Zenon, <1>2
<1>4. x # 0
  BY Zenon, <1>3
<1>5. x - 1 \in Nat /\ x - 1 + 1 = x
  BY <1>3, <1>4
<1>6. x - 1 \notin T
  BY Zenon, <1>3, <1>5
<1>7. <<x - 1, x>> \in OpToRel(<, Nat)
  BY <1>3, <1>5 DEF OpToRel
<1>8. QED
  BY Zenon, <1>2, <1>5, <1>6, <1>7

(* The numbers of S below n. *)
Below(S, n) == {x \in S : x < n}

LEMMA LargestIs ==
  ASSUME NEW s, NEW n \in s, s \subseteq Nat, \A j \in s : j <= n
  PROVE  Largest(s) = n
<1>1. \E i \in s : \A j \in s : j <= i
  OBVIOUS
<1>2. Largest(s) \in s /\ \A j \in s : j <= Largest(s)
  BY Zenon, <1>1 DEF Largest
<1> DEFINE m == Largest(s)
<1>3. m \in Nat /\ n \in Nat /\ m <= n /\ n <= m
  BY Zenon, <1>2
<1> HIDE DEF m
<1>4. m = n
  BY <1>3
<1>5. QED
  BY Zenon, <1>4 DEF m

(* The largest number of a set whose numbers are at most n, and the others. *)
LEMMA TakeLargest ==
  ASSUME NEW S, S \subseteq Nat, NEW n \in Nat, NEW s, s \in SUBSET Below(S, n + 1), n \in s
  PROVE  Largest(s) = n /\ s \ {Largest(s)} \in SUBSET Below(S, n) /\ n \in S
<1>1. n \in S /\ s \subseteq Nat /\ (\A j \in s : j <= n) /\ s \ {n} \in SUBSET Below(S, n)
  BY DEF Below
<1>2. Largest(s) = n
  BY Zenon, <1>1, LargestIs
<1>3. QED
  BY Zenon, <1>1, <1>2

LEMMA NotTaken ==
  ASSUME NEW S, S \subseteq Nat, NEW n \in Nat, NEW s, s \in SUBSET Below(S, n + 1), n \notin s
  PROVE  s \in SUBSET Below(S, n)
BY DEF Below

(* h is the fold of step over the subsets of D, from their smallest number  *)
(* to their largest, with values in A.                                      *)
Folds(h, D, A, base, step) ==
  /\ h \in [SUBSET D -> A] /\ h[{}] = base
  /\ \A s \in SUBSET D : s # {} => h[s] = step[<<Largest(s), h[s \ {Largest(s)}]>>]

LEMMA FoldExists ==
  ASSUME NEW S, S \subseteq Nat, NEW N \in Nat, \A x \in S : x < N,
         NEW A, NEW base \in A, NEW step \in [S \X A -> A]
  PROVE  \E h : Folds(h, S, A, base, step)
<1> DEFINE T == {n \in Nat : \E h : Folds(h, Below(S, n), A, base, step)}
<1>1. 0 \in T
  <2>1. Below(S, 0) = {}
    <3>1. \A x \in Nat : ~(x < 0)
      OBVIOUS
    <3>2. QED
      BY Zenon, <3>1 DEF Below
  <2>2. {} \in SUBSET {} /\ \A s \in SUBSET {} : s = {}
    OBVIOUS
  <2>3. Folds([s \in SUBSET {} |-> base], {}, A, base, step)
    BY Zenon, <2>2 DEF Folds
  <2>4. QED
    BY Zenon, <2>1, <2>3
<1>2. ASSUME NEW n \in Nat, n \in T
      PROVE  n + 1 \in T
  <2>1. PICK h : Folds(h, Below(S, n), A, base, step)
    BY Zenon, <1>2
  <2> DEFINE D == Below(S, n)
             E == Below(S, n + 1)
             k == [s \in SUBSET E |-> IF n \in s THEN step[<<n, h[s \ {n}]>>] ELSE h[s]]
  <2>2. h \in [SUBSET D -> A] /\ h[{}] = base
    BY Zenon, <2>1 DEF Folds
  <2>3. \A s \in SUBSET E : n \in s => Largest(s) = n /\ s \ {n} \in SUBSET D /\ n \in S
    BY Zenon, TakeLargest
  <2>4. \A s \in SUBSET E : n \notin s => s \in SUBSET D
    BY Zenon, NotTaken
  <2>5. D \subseteq E /\ n \notin D
    <3>1. \A x \in Nat : (x < n => x < n + 1) /\ ~(n < n)
      OBVIOUS
    <3>2. QED
      BY Zenon, <3>1 DEF Below
  <2> HIDE DEF D, E
  <2>6. k \in [SUBSET E -> A]
    BY Zenon, <2>2, <2>3, <2>4
  <2>7. \A s \in SUBSET D : k[s] = h[s]
    BY Zenon, <2>5
  <2>8. k[{}] = base
    BY Zenon, <2>2, <2>7
  <2>9. ASSUME NEW s \in SUBSET E, s # {}
        PROVE  k[s] = step[<<Largest(s), k[s \ {Largest(s)}]>>]
    <3>1. CASE n \in s
      BY Zenon, <2>3, <2>7, <3>1
    <3>2. CASE n \notin s
      <4>1. s \in SUBSET D /\ s \ {Largest(s)} \in SUBSET D
        BY Zenon, <2>4, <3>2
      <4>2. QED
        BY Zenon, <2>1, <2>7, <2>9, <4>1 DEF Folds, D
    <3>3. QED
      BY Zenon, <3>1, <3>2
  <2>10. Folds(k, E, A, base, step)
    BY Zenon, <2>6, <2>8, <2>9 DEF Folds
  <2>11. n + 1 \in Nat
    OBVIOUS
  <2>12. QED
    BY Zenon, <2>10, <2>11 DEF E
<1> HIDE DEF T
<1>3. N \in T
  BY Zenon, <1>1, <1>2, Induction
<1>4. Below(S, N) = S
  BY Zenon DEF Below
<1>5. QED
  BY Zenon, <1>3, <1>4 DEF T

(* What holds of the empty set, and of a set when it does without its       *)
(* largest number, holds of every set of numbers below N.                   *)
LEMMA SubsetInduction ==
  ASSUME NEW S, S \subseteq Nat, NEW N \in Nat, \A x \in S : x < N, NEW G, {} \in G,
         \A s \in SUBSET S : Largest(s) \in s /\ s \ {Largest(s)} \in G => s \in G
  PROVE  \A s \in SUBSET S : s \in G
<1> DEFINE T == {n \in Nat : SUBSET Below(S, n) \subseteq G}
<1>1. 0 \in T
  <2>1. \A x \in Nat : ~(x < 0)
    OBVIOUS
  <2>2. Below(S, 0) = {}
    BY Zenon, <2>1 DEF Below
  <2>3. \A s \in SUBSET {} : s = {}
    OBVIOUS
  <2>4. QED
    BY Zenon, <2>2, <2>3
<1>2. ASSUME NEW n \in Nat, n \in T
      PROVE  n + 1 \in T
  <2>1. ASSUME NEW s \in SUBSET Below(S, n + 1)
        PROVE  s \in G
    <3>1. CASE n \in s
      <4>1. Largest(s) = n /\ s \ {Largest(s)} \in SUBSET Below(S, n)
        BY Zenon, <3>1, TakeLargest
      <4>2. Largest(s) \in s /\ s \ {Largest(s)} \in G /\ s \in SUBSET S
        BY Zenon, <1>2, <3>1, <4>1 DEF Below
      <4>3. QED
        BY Zenon, <4>2
    <3>2. CASE n \notin s
      BY Zenon, <1>2, <3>2, NotTaken
    <3>3. QED
      BY Zenon, <3>1, <3>2
  <2>2. n + 1 \in Nat
    OBVIOUS
  <2>3. QED
    BY Zenon, <2>1, <2>2
<1> HIDE DEF T
<1>3. N \in T
  BY Zenon, <1>1, <1>2, Induction
<1>4. Below(S, N) = S
  BY Zenon DEF Below
<1>5. QED
  BY Zenon, <1>3, <1>4 DEF T

LEMMA LargestTaken ==
  ASSUME NEW S, S \subseteq Nat, NEW N \in Nat, \A x \in S : x < N,
         NEW s \in SUBSET S, s # {}
  PROVE  Largest(s) \in s
<1> DEFINE G == {u \in SUBSET S : u = {} \/ Largest(u) \in u}
<1>1. \A u \in SUBSET S : Largest(u) \in u /\ u \ {Largest(u)} \in G => u \in G
  BY Zenon
<1>2. {} \in G
  BY Zenon
<1> HIDE DEF G
<1>3. s \in G
  BY Zenon, <1>1, <1>2, SubsetInduction
<1>4. QED
  BY Zenon, <1>3 DEF G

(* Whatever computes step on the values of A does so along the fold. *)
LEMMA FoldOf ==
  ASSUME NEW S, S \subseteq Nat, NEW N \in Nat, \A x \in S : x < N,
         NEW A, NEW base \in A, NEW step \in [S \X A -> A],
         NEW h, h = [s \in SUBSET S |-> h[s]], h[{}] = base,
         \A s \in SUBSET S : Largest(s) \in s /\ h[s \ {Largest(s)}] \in A =>
           h[s] = step[<<Largest(s), h[s \ {Largest(s)}]>>]
  PROVE  Folds(h, S, A, base, step)
<1> DEFINE G == {s \in SUBSET S : h[s] \in A}
<1>1. {} \in G
  BY Zenon
<1>2. ASSUME NEW s \in SUBSET S, Largest(s) \in s, s \ {Largest(s)} \in G
      PROVE  s \in G
  <2>1. h[s] = step[<<Largest(s), h[s \ {Largest(s)}]>>] /\ h[s \ {Largest(s)}] \in A /\ Largest(s) \in S
    BY Zenon, <1>2
  <2>2. QED
    BY Zenon, <2>1
<1> HIDE DEF G
<1>3. \A s \in SUBSET S : s \in G
  BY Zenon, <1>1, <1>2, SubsetInduction
<1>4. \A s \in SUBSET S : h[s] \in A
  BY Zenon, <1>3 DEF G
<1>5. \A s \in SUBSET S : s # {} => Largest(s) \in s
  BY Zenon, LargestTaken
<1>6. QED
  BY Zenon, <1>4, <1>5 DEF Folds

-----------------------------------------------------------------------------
(* What dbfs_common_read returns.                                           *)

LEMMA SliceBytesType ==
  ASSUME TypeOK, NEW f \in Files, NEW off \in Nat, NEW i \in Nat
  PROVE  /\ ValueOffset(i, off) \in Nat /\ SliceBytes(f, i, off) \in Nat
         /\ SliceBytes(f, i, off) = 0 \/ ValueOffset(i, off) + SliceBytes(f, i, off) <= SliceSize
<1> DEFINE p == i * SliceSize
           r == off % SliceSize
<1>1. SliceSize \in Nat /\ size[f] \in Nat /\ p \in Nat /\ r \in Nat
  BY FileAssumption, SizeType, Division
<1> HIDE DEF p, r
<1> DEFINE v == Greater(0, r - p)
           b == Greater(0, Lesser(size[f] - p, SliceSize) - v)
<1>2. v \in Nat
  BY <1>1 DEF Greater
<1> HIDE DEF v
<1>3. b \in Nat /\ (b = 0 \/ v + b <= SliceSize)
  BY <1>1, <1>2 DEF Greater, Lesser
<1>4. ValueOffset(i, off) = v /\ SliceBytes(f, i, off) = b
  BY Zenon DEF ValueOffset, SliceBytes, v, p, r
<1>5. QED
  BY Zenon, <1>2, <1>3, <1>4

HoleStep(f, off, S) == [p \in S \X Nat |-> SliceBytes(f, p[1], off) + p[2]]

LEMMA HoleFold ==
  ASSUME TypeOK, NEW f \in Files, NEW off \in Nat,
         NEW S, S \subseteq Nat, NEW N \in Nat, \A x \in S : x < N
  PROVE  \E h : Folds(h, S, Nat, 0, HoleStep(f, off, S)) /\ HoleBytes(f, off, S) = h[S]
<1> DEFINE step == HoleStep(f, off, S)
           Sum(h) == [s \in SUBSET S |->
                        IF s = {} THEN 0
                        ELSE SliceBytes(f, Largest(s), off) + h[s \ {Largest(s)}]]
           it == CHOOSE h : h = Sum(h)
<1>1. HoleBytes(f, off, S) = it[S]
  BY Zenon DEF HoleBytes, MapThenFoldSet
<1>2. \A i \in S : SliceBytes(f, i, off) \in Nat
  BY Zenon, SliceBytesType
<1>3. \A i \in S, n \in Nat : SliceBytes(f, i, off) + n \in Nat
  BY <1>2
<1>4. step \in [S \X Nat -> Nat] /\ 0 \in Nat
  BY Zenon, <1>3 DEF HoleStep
<1>5. \A i \in S, n \in Nat : step[<<i, n>>] = SliceBytes(f, i, off) + n
  BY Zenon DEF HoleStep
<1> HIDE DEF step
<1>6. PICK k : Folds(k, S, Nat, 0, step)
  BY Zenon, <1>4, FoldExists
<1>7. ASSUME NEW s \in SUBSET S, s # {}
      PROVE  k[s] = SliceBytes(f, Largest(s), off) + k[s \ {Largest(s)}]
  <2>1. Largest(s) \in S /\ s \ {Largest(s)} \in SUBSET S
    BY Zenon, <1>7, LargestTaken
  <2>2. k[s \ {Largest(s)}] \in Nat
    BY Zenon, <1>6, <2>1 DEF Folds
  <2>3. QED
    BY Zenon, <1>5, <1>6, <1>7, <2>1, <2>2 DEF Folds
<1>8. k = Sum(k)
  <2>1. k = [s \in SUBSET S |-> k[s]] /\ k[{}] = 0
    BY Zenon, <1>6 DEF Folds
  <2>2. \A s \in SUBSET S : k[s] = Sum(k)[s]
    BY Zenon, <1>7, <2>1
  <2>3. QED
    BY Zenon, <2>1, <2>2
<1>9. it = Sum(it)
  BY Zenon, <1>8
<1> HIDE DEF it
<1>10. /\ it = [s \in SUBSET S |-> it[s]] /\ it[{}] = 0
       /\ \A s \in SUBSET S : Largest(s) \in s => it[s] = SliceBytes(f, Largest(s), off) + it[s \ {Largest(s)}]
  BY Zenon, <1>9
<1>11. Folds(it, S, Nat, 0, step)
  <2>1. ASSUME NEW s \in SUBSET S, Largest(s) \in s, it[s \ {Largest(s)}] \in Nat
        PROVE  it[s] = step[<<Largest(s), it[s \ {Largest(s)}]>>]
    BY Zenon, <1>5, <1>10, <2>1
  <2>2. 0 \in Nat
    OBVIOUS
  <2>3. QED
    BY Zenon, <1>4, <1>10, <2>1, <2>2, FoldOf
<1>12. QED
  BY Zenon, <1>1, <1>11 DEF step

(* What the loop of a read of len bytes carries from slice to slice. *)
Acc(len) == [next : Nat, buf : {b \in Seq(Byte) : Len(b) <= len}]

LEMMA ZerosType ==
  ASSUME NEW n \in Nat
  PROVE  Zeros(n) \in Seq(Byte) /\ Len(Zeros(n)) = n
<1>1. Zeros(n) \in [1..n -> Byte]
  BY Zenon, FileAssumption DEF Zeros
<1>2. QED
  BY Zenon, <1>1, Bytes

LEMMA ReadSliceType ==
  ASSUME TypeOK, NEW f \in Files, NEW off \in Nat, NEW len \in Nat, NEW acc \in Acc(len),
         NEW i \in Present(f)
  PROVE  ReadSlice(f, off, len, acc, i) \in Acc(len)
<1> DEFINE hole == HoleBytes(f, off, acc.next .. i - 1)
           m == Lesser(len - Len(acc.buf), hole)
           filled == acc.buf \o Zeros(m)
           n == Lesser(len - Len(filled), SliceBytes(f, i, off))
           copied == [k \in 1..n |-> slices[f][i][ValueOffset(i, off) + k - 1]]
<1>1. acc.next \in Nat /\ acc.buf \in Seq(Byte) /\ Len(acc.buf) <= len
  BY Zenon DEF Acc
<1>2. i \in Nat /\ i \in Index /\ slices[f][i] \in Slice
  <2>1. i \in Index /\ slices[f][i] # NoSlice
    BY Zenon DEF Present
  <2>2. slices[f][i] \in Slice
    BY Zenon, <2>1 DEF TypeOK
  <2>3. QED
    BY <2>1, <2>2 DEF Index
<1>3. hole \in Nat
  <2> DEFINE S == acc.next .. i - 1
  <2>1. S \subseteq Nat /\ \A x \in S : x < i
    BY <1>1, <1>2
  <2> HIDE DEF S
  <2>2. PICK h : Folds(h, S, Nat, 0, HoleStep(f, off, S)) /\ HoleBytes(f, off, S) = h[S]
    BY Zenon, <1>2, <2>1, HoleFold
  <2>3. h \in [SUBSET S -> Nat] /\ S \in SUBSET S
    BY Zenon, <2>2 DEF Folds
  <2>4. HoleBytes(f, off, S) \in Nat
    BY Zenon, <2>2, <2>3
  <2>5. QED
    BY Zenon, <2>4 DEF S
<1> HIDE DEF hole
<1>4. m \in Nat /\ Len(acc.buf) + m <= len /\ Len(acc.buf) \in Nat
  <2> DEFINE l == Len(acc.buf)
  <2>1. l \in Nat /\ l <= len
    BY <1>1
  <2> HIDE DEF l
  <2>2. Lesser(len - l, hole) \in Nat /\ l + Lesser(len - l, hole) <= len
    BY <1>3, <2>1 DEF Lesser
  <2>3. QED
    BY Zenon, <2>1, <2>2 DEF l
<1> HIDE DEF m
<1>5. filled \in Seq(Byte) /\ Len(filled) = Len(acc.buf) + m
  BY <1>1, <1>4, ZerosType
<1> HIDE DEF filled
<1>6. n \in Nat /\ Len(filled) + n <= len /\ n <= SliceBytes(f, i, off) /\ Len(filled) \in Nat
  <2> DEFINE l == Len(filled)
             b == SliceBytes(f, i, off)
  <2>1. l \in Nat /\ l <= len
    BY <1>4, <1>5
  <2>2. b \in Nat
    BY Zenon, <1>2, SliceBytesType
  <2> HIDE DEF l, b
  <2>3. Lesser(len - l, b) \in Nat /\ l + Lesser(len - l, b) <= len /\ Lesser(len - l, b) <= b
    BY <2>1, <2>2 DEF Lesser
  <2>4. QED
    BY Zenon, <2>1, <2>3 DEF l, b
<1> HIDE DEF n
<1>7. \A k \in 1..n : ValueOffset(i, off) + k - 1 \in InSlice
  <2> DEFINE v == ValueOffset(i, off)
             b == SliceBytes(f, i, off)
  <2>1. v \in Nat /\ b \in Nat /\ (b = 0 \/ v + b <= SliceSize)
    BY Zenon, <1>2, SliceBytesType
  <2>2. n <= b
    BY Zenon, <1>6
  <2> HIDE DEF v, b
  <2>3. \A k \in 1..n : v + k - 1 \in InSlice
    BY <1>6, <2>1, <2>2, FileAssumption DEF InSlice
  <2>4. QED
    BY Zenon, <2>3 DEF v
<1>8. copied \in [1..n -> Byte]
  BY Zenon, <1>2, <1>7 DEF Slice
<1>9. copied \in Seq(Byte) /\ Len(copied) = n
  BY Zenon, <1>6, <1>8, Bytes
<1> HIDE DEF copied
<1>10. filled \o copied \in Seq(Byte) /\ Len(filled \o copied) <= len
  BY <1>5, <1>6, <1>9
<1>11. ReadSlice(f, off, len, acc, i) =
         [next |-> IF i = acc.next THEN i + 1 ELSE i + 2, buf |-> filled \o copied]
  BY Zenon DEF ReadSlice, filled, copied, n, m, hole
<1>12. (IF i = acc.next THEN i + 1 ELSE i + 2) \in Nat
  BY <1>2
<1>13. \A x \in Nat, b \in Seq(Byte) : Len(b) <= len => [next |-> x, buf |-> b] \in Acc(len)
  BY Zenon DEF Acc
<1>14. QED
  BY Zenon, <1>10, <1>11, <1>12, <1>13

ReadStep(f, off, len, P) ==
  [p \in P \X Acc(len) |-> ReadSlice(f, off, len, p[2], p[1])]

ReadStart(off) == [next |-> off \div SliceSize, buf |-> <<>>]

(* The slices with a key that a read loops over. *)
ReadOver(f, off, len) ==
  Present(f) \cap
    (off \div SliceSize) .. Lesser((off + len) \div SliceSize, size[f] \div SliceSize)

LEMMA PresentBound ==
  ASSUME NEW f \in Files
  PROVE  Present(f) \subseteq Nat /\ \E N \in Nat : \A x \in Present(f) : x < N
<1>1. MaxSize \div SliceSize \in Nat
  BY Zenon, FileAssumption, Division
<1> DEFINE M == MaxSize \div SliceSize
<1> HIDE DEF M
<1>2. Index = 0..M
  BY Zenon DEF Index, M
<1>3. 0..M \subseteq Nat /\ M + 1 \in Nat /\ \A x \in 0..M : x < M + 1
  BY <1>1 DEF M
<1>4. QED
  BY Zenon, <1>2, <1>3 DEF Present

LEMMA ReadFold ==
  ASSUME TypeOK, NEW f \in Files, NEW off \in Nat, NEW len \in Nat
  PROVE  \E h : /\ Folds(h, ReadOver(f, off, len), Acc(len), ReadStart(off),
                        ReadStep(f, off, len, ReadOver(f, off, len)))
                /\ Read(f, off, len) = IF off >= size[f] THEN <<>> ELSE h[ReadOver(f, off, len)].buf
<1> DEFINE S == ReadOver(f, off, len)
           A == Acc(len)
           base == ReadStart(off)
           step == ReadStep(f, off, len, S)
           Loop(h) == [s \in SUBSET S |->
                         IF s = {} THEN base
                         ELSE ReadSlice(f, off, len, h[s \ {Largest(s)}], Largest(s))]
           it == CHOOSE h : h = Loop(h)
<1>1. Read(f, off, len) = IF off >= size[f] THEN <<>> ELSE it[S].buf
  BY Zenon DEF Read, MapThenFoldSet, ReadOver, ReadStart
<1>2. S \subseteq Nat /\ S \subseteq Present(f)
  BY Zenon, PresentBound DEF ReadOver
<1>3. PICK N \in Nat : \A x \in S : x < N
  BY Zenon, <1>2, PresentBound
<1>4. base \in A
  <2>1. off \div SliceSize \in Nat
    BY Zenon, FileAssumption, Division
  <2>2. \A n \in Nat : [next |-> n, buf |-> <<>>] \in Acc(len)
    BY DEF Acc
  <2>3. QED
    BY Zenon, <2>1, <2>2 DEF ReadStart
<1>5. \A i \in S, a \in A : ReadSlice(f, off, len, a, i) \in A
  BY Zenon, <1>2, ReadSliceType
<1> HIDE DEF S, A, base
<1>6. step \in [S \X A -> A]
  BY Zenon, <1>5 DEF ReadStep, A
<1>7. \A i \in S, a \in A : step[<<i, a>>] = ReadSlice(f, off, len, a, i)
  BY Zenon DEF ReadStep, A
<1> HIDE DEF step
<1>8. PICK k : Folds(k, S, A, base, step)
  BY Zenon, <1>2, <1>3, <1>4, <1>6, FoldExists
<1>9. ASSUME NEW s \in SUBSET S, s # {}
      PROVE  k[s] = ReadSlice(f, off, len, k[s \ {Largest(s)}], Largest(s))
  <2>1. Largest(s) \in S /\ s \ {Largest(s)} \in SUBSET S
    BY Zenon, <1>2, <1>3, <1>9, LargestTaken
  <2>2. k[s \ {Largest(s)}] \in A
    BY Zenon, <1>8, <2>1 DEF Folds
  <2>3. QED
    BY Zenon, <1>7, <1>8, <1>9, <2>1, <2>2 DEF Folds
<1>10. k = Loop(k)
  <2>1. k = [s \in SUBSET S |-> k[s]] /\ k[{}] = base
    BY Zenon, <1>8 DEF Folds
  <2>2. \A s \in SUBSET S : k[s] = Loop(k)[s]
    BY Zenon, <1>9, <2>1
  <2>3. QED
    BY Zenon, <2>1, <2>2
<1>11. it = Loop(it)
  BY Zenon, <1>10
<1> HIDE DEF it
<1>12. /\ it = [s \in SUBSET S |-> it[s]] /\ it[{}] = base
       /\ \A s \in SUBSET S : Largest(s) \in s =>
            it[s] = ReadSlice(f, off, len, it[s \ {Largest(s)}], Largest(s))
  BY Zenon, <1>11
<1>13. Folds(it, S, A, base, step)
  BY Zenon, <1>2, <1>3, <1>4, <1>6, <1>7, <1>12, FoldOf
<1>14. QED
  BY Zenon, <1>1, <1>13 DEF step, S, A, base

(* A read returns bytes, and no more than it was asked for. *)
LEMMA ReadType ==
  ASSUME TypeOK, NEW f \in Files, NEW off \in Nat, NEW len \in Nat
  PROVE  Read(f, off, len) \in Seq(Byte) /\ Len(Read(f, off, len)) <= len
<1> DEFINE S == ReadOver(f, off, len)
<1>1. PICK h : /\ Folds(h, S, Acc(len), ReadStart(off), ReadStep(f, off, len, S))
               /\ Read(f, off, len) = IF off >= size[f] THEN <<>> ELSE h[S].buf
  BY Zenon, ReadFold
<1> HIDE DEF S
<1>2. h[S] \in Acc(len)
  <2>1. h \in [SUBSET S -> Acc(len)] /\ S \in SUBSET S
    BY Zenon, <1>1 DEF Folds
  <2>2. QED
    BY Zenon, <2>1
<1>3. h[S].buf \in Seq(Byte) /\ Len(h[S].buf) <= len
  BY Zenon, <1>2 DEF Acc
<1>4. <<>> \in Seq(Byte) /\ Len(<<>>) <= len
  OBVIOUS
<1>5. QED
  BY Zenon, <1>1, <1>3, <1>4

-----------------------------------------------------------------------------
(* What a write does to the slices of file f.                               *)

WriteEffect(f, off, len, buf) ==
  /\ Len(buf) = len
  /\ \A h \in Files \ {f} :
       slices'[h] = slices[h] /\ size'[h] = size[h] /\ covered'[h] = covered[h]
  /\ slices' \in [Files -> [Index -> Slice \cup {NoSlice}]]
  /\ size' = [size EXCEPT ![f] = Greater(size[f], off + len)]
  /\ covered' = [covered EXCEPT ![f] = covered[f] \cup off .. off + len - 1]
  /\ \A k \in off .. off + len - 1 :
       slices'[f][k \div SliceSize] # NoSlice /\ StoredByte(f, k)' = buf[k - off + 1]
  /\ \A k \in (0 .. MaxSize - 1) \ (off .. off + len - 1) :
       /\ slices[f][k \div SliceSize] # NoSlice => slices'[f][k \div SliceSize] # NoSlice
       /\ slices[f][k \div SliceSize] # NoSlice => StoredByte(f, k)' = StoredByte(f, k)
  /\ \A i \in Index :
       slices'[f][i] # NoSlice => slices[f][i] # NoSlice \/ i \in Touched(off, len)

LEMMA WriteFacts ==
  ASSUME TypeOK, NEW f \in Files, NEW off \in 0 .. MaxSize - 1, NEW len \in 0..MaxLen,
         NEW buf \in [1..len -> Byte], off + len <= MaxSize,
         NEW g \in Contents(off, len), Write(f, off, buf, g)
  PROVE  WriteEffect(f, off, len, buf)
<1> DEFINE S == SliceSize
           T == Touched(off, len)
<1>1. S \in Nat \ {0} /\ MaxSize \in Nat /\ MaxLen \in Nat /\ Garbage \subseteq Byte /\ off \in Nat
      /\ len \in Nat
  BY FileAssumption
<1>2. Len(buf) = len
  BY Zenon, <1>1, Bytes
<1>3. \A i \in Index : i \in Nat
  BY DEF Index
<1>4. slices' = [slices EXCEPT ![f] = [i \in Index |->
         IF i \in T THEN SliceWritten(slices[f][i], i, off, buf, g) ELSE slices[f][i]]]
  BY Zenon, <1>2 DEF Write
<1>5. /\ size' = [size EXCEPT ![f] = Greater(size[f], off + len)]
      /\ covered' = [covered EXCEPT ![f] = covered[f] \cup off .. off + len - 1]
  BY Zenon, <1>2 DEF Write, GrownSize
<1>6. \A h \in Files \ {f} :
        slices'[h] = slices[h] /\ size'[h] = size[h] /\ covered'[h] = covered[h]
  BY Zenon, <1>4, <1>5 DEF TypeOK
<1>7. \A i \in Index :
        slices'[f][i] = IF i \in T THEN SliceWritten(slices[f][i], i, off, buf, g)
                        ELSE slices[f][i]
  BY Zenon, <1>4 DEF TypeOK
<1>8. ASSUME NEW i \in Index, NEW p \in InSlice, i \in T
      PROVE  SliceWritten(slices[f][i], i, off, buf, g)[p] =
               IF i * S + p - off \in 0 .. len - 1 THEN buf[i * S + p - off + 1]
               ELSE IF slices[f][i] = NoSlice THEN g[i][p] ELSE slices[f][i][p]
  BY Zenon, <1>2 DEF SliceWritten
<1>9. ASSUME NEW i \in Index, i \in T
      PROVE  SliceWritten(slices[f][i], i, off, buf, g) \in Slice
  <2> DEFINE w == SliceWritten(slices[f][i], i, off, buf, g)
  <2>1. ASSUME NEW p \in InSlice PROVE w[p] \in Byte
    <3>1. CASE i * S + p - off \in 0 .. len - 1
      <4>1. i * S + p - off + 1 \in 1..len
        BY <1>1, <3>1
      <4>2. QED
        BY <1>8, <1>9, <3>1, <4>1
    <3>2. CASE i * S + p - off \notin 0 .. len - 1 /\ slices[f][i] = NoSlice
      <4>1. g[i][p] \in Garbage
        BY Zenon, <1>9 DEF Contents
      <4>2. QED
        BY Zenon, <1>1, <1>8, <1>9, <3>2, <4>1
    <3>3. CASE i * S + p - off \notin 0 .. len - 1 /\ slices[f][i] # NoSlice
      <4>1. slices[f][i] \in Slice
        <5>1. slices[f][i] \in Slice \cup {NoSlice}
          BY ZenonT(60) DEF TypeOK
        <5>2. QED
          BY Zenon, <3>3, <5>1
      <4>2. slices[f][i][p] \in Byte
        BY Zenon, <4>1 DEF Slice
      <4>3. QED
        BY Zenon, <1>8, <1>9, <3>3, <4>2
    <3>4. QED
      BY Zenon, <3>1, <3>2, <3>3
  <2>2. QED
    BY Zenon, <2>1 DEF SliceWritten, Slice
<1>10. slices' \in [Files -> [Index -> Slice \cup {NoSlice}]]
  <2>1. [i \in Index |-> IF i \in T THEN SliceWritten(slices[f][i], i, off, buf, g)
                         ELSE slices[f][i]] \in [Index -> Slice \cup {NoSlice}]
    <3>1. \A i \in Index : slices[f][i] \in Slice \cup {NoSlice}
      BY DEF TypeOK
    <3>2. \A i \in Index :
            (IF i \in T THEN SliceWritten(slices[f][i], i, off, buf, g) ELSE slices[f][i])
            \in Slice \cup {NoSlice}
      BY Zenon, <1>9, <3>1
    <3>3. QED
      BY Zenon, <3>2
  <2>2. QED
    BY Zenon, <1>4, <2>1 DEF TypeOK
<1>11. ASSUME NEW k \in off .. off + len - 1
       PROVE  slices'[f][k \div S] # NoSlice /\ StoredByte(f, k)' = buf[k - off + 1]
  <2> DEFINE i == k \div S
             p == k % S
  <2>1. k \in Nat /\ k \in 0..MaxSize /\ k - off \in 0 .. len - 1
    <3>1. off <= k /\ k <= off + len - 1 /\ k \in Int
      BY <1>1
    <3>2. QED
      BY <1>1, <3>1
  <2>2. i \in Index /\ p \in InSlice /\ k = i * S + p /\ i \in Nat
    BY Zenon, <2>1, Positions, Zenon
  <2> HIDE DEF i, p
  <2>3. i \in T
    <3>1. Greater(off, off + len - 1) = off + len - 1 /\ off + len - 1 \in Nat
      BY <1>1 DEF Greater
    <3>2. off \div S <= i /\ i <= (off + len - 1) \div S
      <4>1. off <= k /\ k <= off + len - 1
        BY <1>1, <2>1
      <4>2. QED
        BY Zenon, <1>1, <2>1, <3>1, <4>1, Monotone DEF i
    <3>3. off \div S \in Nat /\ (off + len - 1) \div S \in Nat
      BY Zenon, <1>1, <3>1, Division
    <3>4. QED
      BY <2>2, <3>1, <3>2, <3>3 DEF Touched
  <2>4. slices'[f][i] = SliceWritten(slices[f][i], i, off, buf, g)
    BY Zenon, <1>7, <2>2, <2>3
  <2>5. slices'[f][i] # NoSlice
    BY Zenon, <1>9, <2>2, <2>3, <2>4, SliceIsSome
  <2>6. slices'[f][i][p] = buf[k - off + 1]
    <3>1. i * S + p - off = k - off
      <4> DEFINE a == i * S
      <4>1. a \in Int /\ p \in Int /\ k = a + p
        BY <1>1, <2>2 DEF InSlice
      <4> HIDE DEF a
      <4>2. a + p - off = k - off
        BY <1>1, <4>1
      <4>3. QED
        BY Zenon, <4>2 DEF a
    <3>2. QED
      BY Zenon, <1>8, <2>1, <2>2, <2>3, <2>4, <3>1
  <2>7. QED
    BY Zenon, <2>5, <2>6 DEF StoredByte, i, p
<1>12. ASSUME NEW k \in (0 .. MaxSize - 1) \ (off .. off + len - 1)
       PROVE  /\ slices[f][k \div S] # NoSlice => slices'[f][k \div S] # NoSlice
              /\ slices[f][k \div S] # NoSlice => StoredByte(f, k)' = StoredByte(f, k)
  <2> DEFINE i == k \div S
             p == k % S
  <2>1. k \in Nat /\ k \in 0..MaxSize /\ k - off \notin 0 .. len - 1
    <3>1. k \in Nat /\ k <= MaxSize - 1 /\ ~(off <= k /\ k <= off + len - 1)
      BY <1>1
    <3>2. QED
      BY <1>1, <3>1
  <2>2. i \in Index /\ p \in InSlice /\ k = i * S + p /\ i \in Nat
    BY Zenon, <2>1, Positions, Zenon
  <2> HIDE DEF i, p
  <2>3. CASE i \notin T
    <3>1. slices'[f][i] = slices[f][i]
      BY Zenon, <1>7, <2>2, <2>3
    <3>2. QED
      BY Zenon, <3>1 DEF StoredByte, i, p
  <2>4. CASE i \in T
    <3>1. slices'[f][i] = SliceWritten(slices[f][i], i, off, buf, g)
      BY Zenon, <1>7, <2>2, <2>4
    <3>2. slices'[f][i] # NoSlice
      BY Zenon, <1>9, <2>2, <2>4, <3>1, SliceIsSome
    <3>3. i * S + p - off = k - off
      <4> DEFINE a == i * S
      <4>1. a \in Int /\ p \in Int /\ k = a + p
        BY <1>1, <2>2 DEF InSlice
      <4> HIDE DEF a
      <4>2. a + p - off = k - off
        BY <1>1, <4>1
      <4>3. QED
        BY Zenon, <4>2 DEF a
    <3>4. slices'[f][i][p] = IF slices[f][i] = NoSlice THEN g[i][p] ELSE slices[f][i][p]
      BY Zenon, <1>8, <2>1, <2>2, <2>4, <3>1, <3>3
    <3>5. QED
      BY Zenon, <3>2, <3>4 DEF StoredByte, i, p
  <2>5. QED
    BY Zenon, <2>3, <2>4
<1>13. \A i \in Index :
         slices'[f][i] # NoSlice => slices[f][i] # NoSlice \/ i \in Touched(off, len)
  BY Zenon, <1>7
<1>14. QED
  BY Zenon, <1>2, <1>5, <1>6, <1>10, <1>11, <1>12, <1>13 DEF WriteEffect

(* What a truncate to n leaves of the slices of file f, when it believes    *)
(* that the last one is current.                                            *)
CutEffect(f, n, current, s) ==
  /\ s \in [Index -> Slice \cup {NoSlice}]
  /\ \A k \in 0 .. n - 1 :
       LET i == k \div SliceSize
       IN /\ slices[f][i] = NoSlice <=> s[i] = NoSlice
          /\ slices[f][i] # NoSlice => s[i][k % SliceSize] = slices[f][i][k % SliceSize]
  /\ \A k \in n .. MaxSize - 1 :
       LET i == k \div SliceSize
       IN i <= current => s[i] = NoSlice \/ s[i][k % SliceSize] = 0
  /\ \A i \in Index :
       s[i] # NoSlice => slices[f][i] # NoSlice /\ (i <= n \div SliceSize \/ i > current)

LEMMA CutFacts ==
  ASSUME TypeOK, NEW f \in Files, NEW n \in 0..MaxSize, NEW current \in Nat
  PROVE  CutEffect(f, n, current,
                   CutSlices(slices[f], n \div SliceSize, current, n % SliceSize))
<1> DEFINE S == SliceSize
           start == n \div S
           offset == n % S
           s == CutSlices(slices[f], start, current, offset)
           cut(i) == [p \in InSlice |-> IF p >= offset THEN 0 ELSE slices[f][i][p]]
<1>1. S \in Nat \ {0} /\ MaxSize \in Nat /\ 0 \in Byte /\ n \in Nat
  BY FileAssumption
<1>2. start \in Index /\ offset \in InSlice /\ start \in Nat /\ n = start * S + offset
  BY Zenon, Positions, Zenon
<1>3. \A i \in Index : slices[f][i] \in Slice \cup {NoSlice}
  BY Zenon DEF TypeOK
<1> HIDE DEF start, offset
<1>4. \A i \in Index :
        s[i] = IF i \in start + 1 .. current THEN NoSlice
               ELSE IF i = start /\ slices[f][i] # NoSlice THEN cut(i) ELSE slices[f][i]
  BY Zenon DEF CutSlices
<1>5. ASSUME NEW i \in Index, slices[f][i] # NoSlice PROVE cut(i) \in Slice
  <2>1. slices[f][i] \in Slice
    BY Zenon, <1>3, <1>5
  <2>2. \A p \in InSlice : slices[f][i][p] \in Byte
    BY Zenon, <2>1 DEF Slice
  <2>3. QED
    BY Zenon, <1>1, <2>2 DEF Slice
<1>6. s \in [Index -> Slice \cup {NoSlice}]
  <2>1. \A i \in Index : s[i] \in Slice \cup {NoSlice}
    BY Zenon, <1>3, <1>4, <1>5
  <2>2. QED
    BY Zenon, <2>1 DEF CutSlices
<1>7. ASSUME NEW k \in 0 .. n - 1
      PROVE  /\ slices[f][k \div S] = NoSlice <=> s[k \div S] = NoSlice
             /\ slices[f][k \div S] # NoSlice => s[k \div S][k % S] = slices[f][k \div S][k % S]
  <2> DEFINE i == k \div S
             p == k % S
  <2>1. k \in 0..MaxSize /\ k \in Nat /\ k < n
    BY <1>1
  <2>2. i \in Index /\ p \in InSlice /\ k = i * S + p /\ i \in Nat
    BY Zenon, <2>1, Positions, Zenon
  <2>3. i <= start
    BY <1>1, <2>1, Monotone DEF start
  <2> HIDE DEF i, p, s
  <2>4. i \notin start + 1 .. current
    BY <1>2, <2>2, <2>3
  <2>5. CASE ~(i = start /\ slices[f][i] # NoSlice)
    <3>1. s[i] = slices[f][i]
      BY Zenon, <1>4, <2>2, <2>4, <2>5
    <3>2. QED
      BY Zenon, <3>1 DEF i, p
  <2>6. CASE i = start /\ slices[f][i] # NoSlice
    <3>1. s[i] = cut(i)
      BY Zenon, <1>4, <2>2, <2>4, <2>6
    <3>2. s[i] # NoSlice
      BY Zenon, <1>5, <2>2, <2>6, <3>1, SliceIsSome
    <3>3. p < offset
      <4> DEFINE a == i * S
      <4>1. a \in Int /\ p \in Int /\ offset \in Int /\ k = a + p /\ n = a + offset
        BY <1>1, <1>2, <2>2, <2>6 DEF InSlice
      <4> HIDE DEF a
      <4>2. QED
        BY <2>1, <4>1
    <3>4. s[i][p] = slices[f][i][p]
      BY <1>2, <2>2, <3>1, <3>3 DEF InSlice
    <3>5. QED
      BY Zenon, <2>6, <3>2, <3>4 DEF i, p
  <2>7. QED
    BY Zenon, <2>5, <2>6
<1>8. ASSUME NEW k \in n .. MaxSize - 1, k \div S <= current
      PROVE  s[k \div S] = NoSlice \/ s[k \div S][k % S] = 0
  <2> DEFINE i == k \div S
             p == k % S
  <2>1. k \in 0..MaxSize /\ k \in Nat /\ n <= k
    BY <1>1
  <2>2. i \in Index /\ p \in InSlice /\ k = i * S + p /\ i \in Nat
    BY Zenon, <2>1, Positions, Zenon
  <2>3. start <= i
    BY Zenon, <1>1, <2>1, Monotone DEF start
  <2>4. i <= current
    BY Zenon, <1>8
  <2> HIDE DEF i, p, s
  <2>5. CASE i = start /\ slices[f][i] # NoSlice
    <3>1. s[i] = cut(i)
      BY <1>2, <1>4, <2>2, <2>5
    <3>2. p >= offset
      <4> DEFINE a == i * S
      <4>1. a \in Int /\ p \in Int /\ offset \in Int /\ k = a + p /\ n = a + offset
        BY <1>1, <1>2, <2>2, <2>5 DEF InSlice
      <4> HIDE DEF a
      <4>2. QED
        BY <2>1, <4>1
    <3>3. QED
      BY Zenon, <2>2, <3>1, <3>2 DEF i, p
  <2>6. CASE i = start /\ slices[f][i] = NoSlice
    BY Zenon, <1>2, <1>4, <2>2, <2>6 DEF i
  <2>7. CASE i > start
    <3>1. i \in start + 1 .. current
      BY <1>2, <2>2, <2>4, <2>7
    <3>2. QED
      BY Zenon, <1>4, <2>2, <3>1 DEF i
  <2>8. QED
    BY <1>2, <2>2, <2>3, <2>5, <2>6, <2>7
<1>9. ASSUME NEW i \in Index, s[i] # NoSlice
      PROVE  slices[f][i] # NoSlice /\ (i <= start \/ i > current)
  <2>1. i \in Nat
    BY DEF Index
  <2>2. i \notin start + 1 .. current
    BY Zenon, <1>4, <1>9
  <2>3. i <= start \/ i > current
    BY <1>2, <2>1, <2>2
  <2>4. slices[f][i] # NoSlice
    <3> HIDE DEF s
    <3>1. QED
      BY Zenon, <1>4, <1>9, <2>2
  <2>5. QED
    BY Zenon, <2>3, <2>4
<1>10. QED
  BY Zenon, <1>6, <1>7, <1>8, <1>9, Zenon DEF start, offset, CutEffect

-----------------------------------------------------------------------------
(* Each step preserves the invariant and is a step of ByteFile, on the      *)
(* bytes that writes have covered.                                          *)

Refines == WF!Next \/ UNCHANGED [f \in Files |-> CoveredContent(f)]

LEMMA CoveredIsSeq ==
  ASSUME IInv, NEW f \in Files
  PROVE  Len(CoveredContent(f)) = size[f]
<1>1. size[f] \in Nat
  BY Zenon, SizeType DEF IInv
<1>2. CoveredContent(f) \in [1..size[f] -> {CoveredContent(f)[k] : k \in 1..size[f]}]
  BY Zenon DEF CoveredContent
<1>3. QED
  BY Zenon, <1>1, <1>2, Bytes

LEMMA WriteStep ==
  ASSUME IInv, NEW f \in Files, NEW off \in 0 .. MaxSize - 1, NEW len \in 0..MaxLen,
         NEW buf \in [1..len -> Byte], off + len <= MaxSize,
         NEW g \in Contents(off, len), Write(f, off, buf, g), Shape'
  PROVE  IInv' /\ WF!Write(f, off, buf)
<1> DEFINE end == off + len
           C == CoveredContent(f)
           n == Greater(size[f], end)
<1>1. MaxSize \in Nat /\ MaxLen \in Nat /\ off \in Nat /\ len \in Nat /\ size[f] \in 0..MaxSize
      /\ TypeOK
  BY FileAssumption, SizeType DEF IInv
<1>2. Len(buf) = len
  BY Zenon, <1>1, Bytes
<1>3. end <= MaxSize /\ mode' = mode /\ disk_size' = disk_size
  BY Zenon DEF Write
<1>4. \A t \in Threads : op'[t].do \in {"idle", "truncate", "copy read", "copy write"}
  BY Zenon, OperationKinds DEF Shape
<1>a. WriteEffect(f, off, len, buf)
  BY Zenon, <1>1, WriteFacts
<1>5. /\ \A h \in Files \ {f} :
           slices'[h] = slices[h] /\ size'[h] = size[h] /\ covered'[h] = covered[h]
      /\ slices' \in [Files -> [Index -> Slice \cup {NoSlice}]]
      /\ size' = [size EXCEPT ![f] = n]
      /\ covered' = [covered EXCEPT ![f] = covered[f] \cup off .. end - 1]
  BY <1>a DEF WriteEffect
<1>6. /\ \A k \in off .. end - 1 :
           slices'[f][k \div SliceSize] # NoSlice /\ StoredByte(f, k)' = buf[k - off + 1]
      /\ \A k \in (0 .. MaxSize - 1) \ (off .. end - 1) :
           slices[f][k \div SliceSize] # NoSlice =>
             /\ slices'[f][k \div SliceSize] # NoSlice
             /\ StoredByte(f, k)' = StoredByte(f, k)
  BY <1>a DEF WriteEffect
<1>7. n \in 0..MaxSize /\ n >= end /\ n >= size[f] /\ end \in Nat
  BY <1>1, <1>3 DEF Greater
<1>8. size'[f] = n /\ covered'[f] = covered[f] \cup off .. end - 1
  BY Zenon, <1>5 DEF IInv, TypeOK
<1>9. covered[f] \subseteq 0 .. MaxSize - 1
  BY Zenon, <1>1 DEF TypeOK
<1> HIDE DEF n, end
<1>10. TypeOK'
  <2>1. size' \in [Files -> 0..MaxSize]
    BY Zenon, <1>1, <1>5, <1>7 DEF TypeOK
  <2>2. covered[f] \cup off .. end - 1 \in SUBSET (0 .. MaxSize - 1)
    BY <1>1, <1>3, <1>7, <1>9
  <2>3. covered' \in [Files -> SUBSET (0 .. MaxSize - 1)]
    BY Zenon, <1>1, <1>5, <2>2 DEF TypeOK
  <2>4. QED
    BY Zenon, <1>1, <1>3, <1>4, <1>5, <2>1, <2>3 DEF TypeOK
<1>11. CoveredIsStored'
  <2>1. SUFFICES ASSUME NEW h \in Files, NEW k \in covered'[h]
                 PROVE  k < size'[h] /\ slices'[h][k \div SliceSize] # NoSlice
    BY Zenon DEF CoveredIsStored
  <2>2. CASE h # f
    BY Zenon, <1>5, <2>2 DEF IInv, CoveredIsStored
  <2>3. CASE h = f /\ k \in off .. end - 1
    BY <1>1, <1>6, <1>7, <1>8, <2>3
  <2>4. CASE h = f /\ k \in covered[f] \ (off .. end - 1)
    <3>1. k \in 0 .. MaxSize - 1 /\ k < size[f] /\ slices[f][k \div SliceSize] # NoSlice
      BY Zenon, <1>9, <2>4 DEF IInv, CoveredIsStored
    <3>2. k < n
      BY <1>1, <1>7, <3>1
    <3>3. QED
      BY Zenon, <1>6, <1>8, <2>4, <3>1, <3>2
  <2>5. QED
    BY Zenon, <1>8, <2>2, <2>3, <2>4
<1>13. Len(C) = size[f]
  BY Zenon, CoveredIsSeq
<1>14. WF!Written(C, off, buf) =
         [k \in 1..n |-> IF k > off /\ k <= end THEN buf[k - off] ELSE WF!ByteAt(C, k)]
  BY <1>1, <1>2, <1>7, <1>13 DEF WF!Written, n, end, Greater
<1>15. ASSUME NEW k \in 1..n
       PROVE  (IF k - 1 \in covered'[f] THEN StoredByte(f, k - 1)' ELSE Unwritten)
              = IF k > off /\ k <= end THEN buf[k - off] ELSE WF!ByteAt(C, k)
  <2>1. k \in Nat /\ k - 1 \in 0 .. MaxSize - 1
    BY <1>1, <1>7
  <2>2. CASE k > off /\ k <= end
    <3>1. k - 1 \in off .. end - 1 /\ (k - 1) - off + 1 = k - off
      BY <1>1, <1>7, <2>1, <2>2
    <3>2. QED
      BY Zenon, <1>6, <1>8, <2>2, <3>1
  <2>3. CASE ~(k > off /\ k <= end)
    <3>1. k - 1 \notin off .. end - 1
      BY <1>1, <1>7, <2>1, <2>3
    <3>2. CASE k - 1 \in covered[f]
      <4>1. k - 1 < size[f] /\ slices[f][(k - 1) \div SliceSize] # NoSlice
        BY Zenon, <3>2 DEF IInv, CoveredIsStored
      <4>2. k \in 1..size[f]
        BY <1>1, <2>1, <4>1
      <4>3. C[k] = StoredByte(f, k - 1)
        BY Zenon, <3>2, <4>2 DEF CoveredContent
      <4>4. StoredByte(f, k - 1)' = StoredByte(f, k - 1)
        BY Zenon, <1>6, <2>1, <3>1, <4>1
      <4>5. WF!ByteAt(C, k) = C[k]
        BY <1>1, <1>13, <4>2 DEF WF!ByteAt
      <4>6. QED
        BY Zenon, <1>8, <2>3, <3>2, <4>3, <4>4, <4>5
    <3>3. CASE k - 1 \notin covered[f]
      <4>1. k \in 1..size[f] => C[k] = Unwritten
        BY Zenon, <3>3 DEF CoveredContent
      <4>2. WF!ByteAt(C, k) = Unwritten
        BY <1>1, <1>13, <2>1, <4>1 DEF WF!ByteAt
      <4>3. QED
        BY Zenon, <1>8, <2>3, <3>1, <3>3, <4>2
    <3>4. QED
      BY Zenon, <3>2, <3>3
  <2>4. QED
    BY Zenon, <2>2, <2>3
<1>16. CoveredContent(f)' = WF!Written(C, off, buf)
  BY Zenon, <1>8, <1>14, <1>15 DEF CoveredContent
<1>17. \A h \in Files \ {f} : CoveredContent(h)' = CoveredContent(h)
  BY Zenon, <1>5 DEF CoveredContent, StoredByte
<1>18. WF!Write(f, off, buf)
  BY Zenon, <1>16, <1>17 DEF WF!Write
<1>19. QED
  BY Zenon, <1>10, <1>11, <1>18 DEF IInv

LEMMA WriteFileStep ==
  ASSUME IInv, NEW t \in Threads, NEW f \in Files, NEW off \in 0 .. MaxSize - 1,
         NEW len \in 1..MaxLen, NEW buf \in [1..len -> Byte], WriteFile(t, f, off, buf)
  PROVE  IInv' /\ WF!Write(f, off, buf)
<1>1. len \in Nat /\ len \in 0..MaxLen
  BY FileAssumption
<1>2. Len(buf) = len
  BY Zenon, <1>1, Bytes
<1>3. off + len <= MaxSize /\ op' = op
  BY Zenon, <1>2 DEF WriteFile
<1>4. PICK g \in Contents(off, len) : Write(f, off, buf, g)
  BY Zenon, <1>2 DEF WriteFile
<1>5. Shape'
  BY Zenon, <1>3 DEF IInv, Shape
<1>6. QED
  BY Zenon, <1>1, <1>3, <1>4, <1>5, WriteStep

(* A change of the size of f to n that keeps the bytes before n.            *)
LEMMA ResizeStep ==
  ASSUME IInv, NEW f \in Files, NEW n \in 0..MaxSize,
         size' = [size EXCEPT ![f] = n],
         slices' \in [Files -> [Index -> Slice \cup {NoSlice}]],
         covered' = [covered EXCEPT ![f] = covered[f] \cap 0 .. n - 1],
         \A h \in Files \ {f} : slices'[h] = slices[h],
         \A k \in 0 .. n - 1 :
           slices[f][k \div SliceSize] # NoSlice =>
             slices'[f][k \div SliceSize] # NoSlice /\ StoredByte(f, k)' = StoredByte(f, k)
  PROVE  /\ size' \in [Files -> 0..MaxSize]
         /\ covered' \in [Files -> SUBSET (0 .. MaxSize - 1)]
         /\ CoveredIsStored' /\ WF!Resize(f, n)
<1> DEFINE C == CoveredContent(f)
<1>1. TypeOK /\ size[f] \in Nat /\ n \in Nat
  BY FileAssumption, SizeType DEF IInv
<1>2. size' \in [Files -> 0..MaxSize] /\ covered' \in [Files -> SUBSET (0 .. MaxSize - 1)]
  BY Zenon, <1>1 DEF TypeOK
<1>3. /\ size'[f] = n /\ covered'[f] = covered[f] \cap 0 .. n - 1
      /\ \A h \in Files \ {f} : size'[h] = size[h] /\ covered'[h] = covered[h]
  BY Zenon, <1>1 DEF TypeOK
<1>4. CoveredIsStored'
  <2>1. SUFFICES ASSUME NEW h \in Files, NEW k \in covered'[h]
                 PROVE  k < size'[h] /\ slices'[h][k \div SliceSize] # NoSlice
    BY Zenon DEF CoveredIsStored
  <2>2. CASE h # f
    BY <1>3, <2>2 DEF IInv, CoveredIsStored
  <2>3. CASE h = f
    <3>1. k \in covered[f] /\ k \in 0 .. n - 1
      BY Zenon, <1>3, <2>3
    <3>2. slices[f][k \div SliceSize] # NoSlice
      BY Zenon, <3>1 DEF IInv, CoveredIsStored
    <3>3. k < n
      BY <1>1, <3>1
    <3>4. QED
      BY Zenon, <1>3, <2>3, <3>1, <3>2, <3>3
  <2>4. QED
    BY Zenon, <2>2, <2>3
<1>5. Len(C) = size[f]
  BY Zenon, CoveredIsSeq
<1>6. ASSUME NEW k \in 1..n
      PROVE  (IF k - 1 \in covered'[f] THEN StoredByte(f, k - 1)' ELSE Unwritten)
             = WF!ByteAt(C, k)
  <2>1. k \in Nat /\ k - 1 \in 0 .. n - 1
    BY <1>1
  <2>2. CASE k - 1 \in covered[f]
    <3>1. k - 1 < size[f] /\ slices[f][(k - 1) \div SliceSize] # NoSlice
      BY Zenon, <2>2 DEF IInv, CoveredIsStored
    <3>2. k \in 1..size[f] /\ k <= Len(C)
      BY <1>1, <1>5, <2>1, <3>1
    <3>3. C[k] = StoredByte(f, k - 1)
      BY Zenon, <2>2, <3>2 DEF CoveredContent
    <3>4. StoredByte(f, k - 1)' = StoredByte(f, k - 1)
      BY Zenon, <2>1, <3>1
    <3>5. QED
      BY Zenon, <1>3, <2>1, <2>2, <3>2, <3>3, <3>4 DEF WF!ByteAt
  <2>3. CASE k - 1 \notin covered[f]
    <3>1. k \in 1..size[f] => C[k] = Unwritten
      BY Zenon, <2>3 DEF CoveredContent
    <3>2. WF!ByteAt(C, k) = Unwritten
      BY <1>1, <1>5, <2>1, <3>1 DEF WF!ByteAt
    <3>3. QED
      BY Zenon, <1>3, <2>3, <3>2
  <2>4. QED
    BY Zenon, <2>2, <2>3
<1>7. CoveredContent(f)' = WF!Resized(C, n)
  BY Zenon, <1>3, <1>6 DEF CoveredContent, WF!Resized
<1>8. \A h \in Files \ {f} : CoveredContent(h)' = CoveredContent(h)
  BY <1>3 DEF CoveredContent, StoredByte
<1>9. WF!Resize(f, n)
  BY Zenon, <1>7, <1>8 DEF WF!Resize
<1>10. QED
  BY Zenon, <1>2, <1>4, <1>9

LEMMA SameFiles ==
  ASSUME IInv, slices' = slices, size' = size, covered' = covered, mode' = mode,
         disk_size' = disk_size, Shape'
  PROVE  IInv' /\ UNCHANGED [f \in Files |-> CoveredContent(f)]
<1>1. \A t \in Threads : op'[t].do \in {"idle", "truncate", "copy read", "copy write"}
  BY Zenon, OperationKinds DEF Shape
<1>2. TypeOK'
  BY Zenon, <1>1 DEF IInv, TypeOK
<1>3. CoveredIsStored'
  BY Zenon DEF IInv, CoveredIsStored
<1>4. QED
  BY Zenon, <1>2, <1>3 DEF IInv, CoveredContent, StoredByte

LEMMA FallocateStep ==
  ASSUME IInv, NEW t \in Threads, NEW f \in Files, NEW off \in 0 .. MaxSize - 1,
         NEW len \in 1..MaxLen, NEW keep \in BOOLEAN, Fallocate(t, f, off, len, keep)
  PROVE  IInv' /\ (UNCHANGED [h \in Files |-> CoveredContent(h)]
                   \/ \E n \in 0..MaxSize : WF!Resize(f, n))
<1> DEFINE n == Greater(size[f], off + len)
<1>0. TypeOK
  BY Zenon DEF IInv
<1>1. /\ TypeOK /\ size[f] \in 0..MaxSize /\ size[f] \in Nat /\ MaxSize \in Nat
      /\ off \in Nat /\ len \in Nat /\ disk_size \in Nat
  <2>1. disk_size \in Nat
    BY Zenon, <1>0 DEF TypeOK
  <2>2. QED
    BY <1>0, <2>1, FileAssumption, SizeType
<1>2. slices' = slices /\ mode' = mode /\ op' = op /\ covered' = covered /\ off + len <= MaxSize
  BY Zenon DEF Fallocate
<1>3. disk_size' \in Nat
  BY <1>1 DEF Fallocate, EnoughSpace, Greater
<1>4. Shape' /\ mode' \in [Files -> SUBSET Bit]
      /\ \A u \in Threads : op'[u].do \in {"idle", "truncate", "copy read", "copy write"}
  BY Zenon, <1>1, <1>2 DEF IInv, Shape, TypeOK
<1>5. CASE keep
  <2>1. size' = size
    BY Zenon, <1>5 DEF Fallocate
  <2>2. TypeOK' /\ CoveredIsStored'
    BY Zenon, <1>1, <1>2, <1>3, <2>1 DEF IInv, TypeOK, CoveredIsStored
  <2>3. QED
    BY Zenon, <1>2, <1>4, <2>1, <2>2 DEF IInv, CoveredContent, StoredByte
<1>6. CASE ~keep
  <2>1. n \in 0..MaxSize /\ n >= size[f]
    BY <1>1, <1>2 DEF Greater
  <2>2. size' = [size EXCEPT ![f] = n]
    BY Zenon, <1>6 DEF Fallocate, GrownSize
  <2> HIDE DEF n
  <2>3. \A k \in covered[f] : k \in 0 .. MaxSize - 1 /\ k < size[f]
    BY Zenon, <1>1 DEF IInv, CoveredIsStored, TypeOK
  <2>4. covered[f] \cap 0 .. n - 1 = covered[f]
    BY <1>1, <2>1, <2>3
  <2>5. covered' = [covered EXCEPT ![f] = covered[f] \cap 0 .. n - 1]
    BY Zenon, <1>1, <1>2, <2>4 DEF TypeOK
  <2>6. \A k \in 0 .. n - 1 : StoredByte(f, k)' = StoredByte(f, k)
    BY Zenon, <1>2 DEF StoredByte
  <2>7. slices' \in [Files -> [Index -> Slice \cup {NoSlice}]]
    BY Zenon, <1>1, <1>2 DEF TypeOK
  <2>8. /\ size' \in [Files -> 0..MaxSize]
        /\ covered' \in [Files -> SUBSET (0 .. MaxSize - 1)]
        /\ CoveredIsStored' /\ WF!Resize(f, n)
    BY Zenon, <1>2, <2>1, <2>2, <2>5, <2>6, <2>7, ResizeStep
  <2>9. TypeOK'
    BY Zenon, <1>3, <1>4, <2>7, <2>8 DEF TypeOK
  <2>10. QED
    BY Zenon, <1>4, <2>1, <2>8, <2>9 DEF IInv
<1>7. QED
  BY Zenon, <1>5, <1>6

LEMMA TruncateAttrStep ==
  ASSUME IInv, NEW t \in Threads, NEW f \in Files, NEW n \in 0..MaxSize, TruncateAttr(t, f, n)
  PROVE  IInv' /\ UNCHANGED [h \in Files |-> CoveredContent(h)]
<1> DEFINE o == [do |-> "truncate", file |-> f, to |-> n, size |-> size[f], mode |-> mode[f]]
<1>1. TypeOK /\ size[f] \in 0..MaxSize
  BY Zenon, SizeType DEF IInv
<1>2. mode[f] \in SUBSET Bit
  BY Zenon, <1>1 DEF TypeOK
<1>3. o \in Truncation
  BY Zenon, <1>1, <1>2 DEF Truncation
<1>4. op' = [op EXCEPT ![t] = o]
  BY Zenon DEF TruncateAttr
<1>5. Shape'
  BY Zenon, <1>3, <1>4 DEF IInv, Shape, Operation
<1>6. QED
  BY Zenon, <1>5, SameFiles DEF TruncateAttr

LEMMA TruncateTxStep ==
  ASSUME IInv, NEW t \in Threads, TruncateTx(t)
  PROVE  IInv' /\ (UNCHANGED [h \in Files |-> CoveredContent(h)]
                   \/ \E f \in Files, n \in 0..MaxSize : WF!Resize(f, n))
<1>1. op[t] \in Truncation
  <2>1. op[t].do = "truncate"
    BY Zenon DEF TruncateTx
  <2>2. QED
    BY Zenon, <2>1, OperationKinds DEF IInv, Shape
<1>2. PICK f \in Files, n \in 0..MaxSize, z \in 0..MaxSize, m \in SUBSET Bit :
        f = op[t].file /\ n = op[t].to /\ z = op[t].size /\ m = op[t].mode
  BY Zenon, <1>1 DEF Truncation
<1> DEFINE start == n \div SliceSize
           current == z \div SliceSize
           gap == Greater(0, n - z)
           cut == CutSlices(slices[f], start, current, n % SliceSize)
<1>3. TypeOK /\ n \in Nat /\ z \in Nat /\ SliceSize \in Nat \ {0}
  BY FileAssumption DEF IInv
<1>4. disk_size \in Nat
  BY Zenon, <1>3 DEF TypeOK
<1>5. Shape'
  BY Zenon DEF TruncateTx, IInv, Shape, Operation
<1>6. start \in Nat /\ current \in Nat
  BY Zenon, <1>3, Division
<1>7. gap \in Nat
  BY <1>3 DEF Greater
<1>8. CASE UNCHANGED <<slices, size, mode, disk_size, covered>>
  BY Zenon, <1>5, <1>8, SameFiles
<1>9. CASE /\ \/ /\ EnoughSpace(gap) /\ disk_size' = disk_size - gap
                 /\ UNCHANGED slices
              \/ /\ current >= start
                 /\ slices' = [slices EXCEPT ![f] = cut]
                 /\ disk_size' = disk_size + (current - start) * SliceSize
           /\ size' = [size EXCEPT ![f] = n]
           /\ mode' = [mode EXCEPT ![f] = clear_suid_sgid(m)]
           /\ covered' = [covered EXCEPT ![f] = covered[f] \cap 0 .. n - 1]
  <2>1. disk_size' \in Nat
    <3>1. CASE EnoughSpace(gap) /\ disk_size' = disk_size - gap
      BY <1>4, <1>7, <3>1 DEF EnoughSpace
    <3>2. CASE current >= start /\ disk_size' = disk_size + (current - start) * SliceSize
      <4> DEFINE d == current - start
      <4>1. d \in Nat
        BY <1>6, <3>2
      <4> HIDE DEF d
      <4>2. d * SliceSize \in Nat
        BY <1>3, <4>1
      <4>3. QED
        BY <1>4, <3>2, <4>2 DEF d
    <3>3. QED
      BY Zenon, <1>9, <3>1, <3>2
  <2>a. CutEffect(f, n, current, cut)
    BY Zenon, <1>3, <1>6, CutFacts
  <2>2. /\ cut \in [Index -> Slice \cup {NoSlice}]
        /\ \A k \in 0 .. n - 1 :
             /\ slices[f][k \div SliceSize] = NoSlice <=> cut[k \div SliceSize] = NoSlice
             /\ slices[f][k \div SliceSize] # NoSlice =>
                  cut[k \div SliceSize][k % SliceSize] = slices[f][k \div SliceSize][k % SliceSize]
    BY Zenon, <2>a DEF CutEffect
  <2> HIDE DEF cut, gap, start, current
  <2>3. slices' \in [Files -> [Index -> Slice \cup {NoSlice}]]
        /\ slices'[f] \in {slices[f], cut}
        /\ \A h \in Files \ {f} : slices'[h] = slices[h]
    BY Zenon, <1>3, <1>9, <2>2 DEF TypeOK
  <2>4. \A k \in 0 .. n - 1 :
          slices[f][k \div SliceSize] # NoSlice =>
            slices'[f][k \div SliceSize] # NoSlice /\ StoredByte(f, k)' = StoredByte(f, k)
    BY Zenon, <2>2, <2>3 DEF StoredByte
  <2>5. clear_suid_sgid(m) \in SUBSET Bit
    BY Zenon DEF clear_suid_sgid
  <2>6. mode' \in [Files -> SUBSET Bit]
    BY Zenon, <1>3, <1>9, <2>5 DEF TypeOK
  <2>7. /\ size' \in [Files -> 0..MaxSize]
        /\ covered' \in [Files -> SUBSET (0 .. MaxSize - 1)]
        /\ CoveredIsStored' /\ WF!Resize(f, n)
    BY Zenon, <1>9, <2>3, <2>4, ResizeStep
  <2>8. \A u \in Threads : op'[u].do \in {"idle", "truncate", "copy read", "copy write"}
    BY Zenon, <1>5, OperationKinds DEF Shape
  <2>9. TypeOK'
    BY Zenon, <2>1, <2>3, <2>6, <2>7, <2>8 DEF TypeOK
  <2>10. QED
    BY Zenon, <1>5, <2>7, <2>9 DEF IInv
<1>10. QED
  BY Zenon, <1>2, <1>8, <1>9 DEF TruncateTx

-----------------------------------------------------------------------------
(* A write of nothing, by a copy that met a hole at the end of its range:   *)
(* the file may still grow to where it was to begin.                        *)
LEMMA WroteNothing ==
  ASSUME IInv, NEW f \in Files, NEW off \in 0 .. MaxSize - 1, WF!Write(f, off, <<>>)
  PROVE  \E n \in 0..MaxSize : WF!Resize(f, n)
<1> DEFINE C == CoveredContent(f)
           n == Greater(size[f], off)
<1>1. off \in Nat /\ size[f] \in Nat /\ size[f] \in 0..MaxSize /\ MaxSize \in Nat
  BY FileAssumption, SizeType DEF IInv
<1>2. n \in 0..MaxSize
  BY <1>1 DEF Greater
<1>3. Len(C) = size[f]
  BY Zenon, CoveredIsSeq
<1>4. WF!Written(C, off, <<>>) = WF!Resized(C, n)
  BY <1>1, <1>3 DEF WF!Written, WF!Resized, Greater
<1>5. WF!Resize(f, n)
  BY Zenon, <1>4 DEF WF!Write, WF!Resize
<1>6. QED
  BY Zenon, <1>2, <1>5

LEMMA CopySizeStep ==
  ASSUME IInv, NEW t \in Threads, NEW src \in Files, NEW from \in 0 .. MaxSize - 1,
         NEW len \in 1..MaxLen, NEW dest \in Files, NEW to \in 0 .. MaxSize - len,
         CopySize(t, src, from, dest, to, len)
  PROVE  IInv' /\ UNCHANGED [h \in Files |-> CoveredContent(h)]
<1> DEFINE l == Lesser(size[src] - from, len)
           o == [do |-> "copy read", src |-> src, from |-> from, dest |-> dest, to |-> to, len |-> l]
<1>1. /\ size[src] \in Nat /\ from \in Nat /\ len \in Nat /\ to \in Nat /\ MaxSize \in Nat
      /\ MaxLen \in Nat /\ from < size[src] /\ size[src] <= MaxSize
  <2>1. from < size[src] /\ TypeOK
    BY Zenon DEF CopySize, IInv
  <2>2. size[src] \in 0..MaxSize
    BY Zenon, <2>1, SizeType
  <2>3. QED
    BY <2>1, <2>2, FileAssumption
<1>2. l \in 0..MaxLen /\ to + l <= MaxSize /\ to \in 0 .. MaxSize - 1
  BY <1>1 DEF Lesser
<1>3. op' = [op EXCEPT ![t] = o]
  BY Zenon DEF CopySize
<1> HIDE DEF l
<1>4. o \in CopyingRead
  BY Zenon, <1>1, <1>2 DEF CopyingRead
<1> HIDE DEF o
<1>5. Shape'
  BY Zenon, <1>3, <1>4 DEF IInv, Shape, Operation
<1>6. QED
  BY Zenon, <1>5, SameFiles DEF CopySize

LEMMA CopyReadStep ==
  ASSUME IInv, NEW t \in Threads, CopyRead(t)
  PROVE  IInv' /\ UNCHANGED [h \in Files |-> CoveredContent(h)]
<1>1. op[t] \in CopyingRead
  BY Zenon, OperationKinds DEF CopyRead, IInv, Shape
<1>2. PICK src \in Files, from \in Nat, dest \in Files, to \in 0 .. MaxSize - 1, len \in 0..MaxLen :
        /\ src = op[t].src /\ from = op[t].from /\ dest = op[t].dest /\ to = op[t].to
        /\ len = op[t].len /\ to + len <= MaxSize
  BY Zenon, <1>1 DEF CopyingRead
<1> DEFINE buf == Read(src, from, len)
           o == [do |-> "copy write", dest |-> dest, to |-> to, buf |-> buf]
<1>3. len \in Nat /\ to \in Nat /\ MaxSize \in Nat /\ MaxLen \in Nat /\ len <= MaxLen /\ TypeOK
  BY FileAssumption DEF IInv
<1>4. buf \in Seq(Byte) /\ Len(buf) <= len
  BY Zenon, <1>3, ReadType
<1>5. op' = [op EXCEPT ![t] = o]
  BY Zenon, <1>2 DEF CopyRead
<1> HIDE DEF buf
<1>6. Len(buf) <= MaxLen /\ to + Len(buf) <= MaxSize
  <2> DEFINE l == Len(buf)
  <2>1. l \in Nat
    BY <1>4
  <2> HIDE DEF l
  <2>2. l <= len
    BY Zenon, <1>4 DEF l
  <2>3. l <= MaxLen /\ to + l <= MaxSize
    BY <1>2, <1>3, <2>1, <2>2
  <2>4. QED
    BY Zenon, <2>3 DEF l
<1>7. o \in CopyingWrite
  BY Zenon, <1>4, <1>6 DEF CopyingWrite
<1> HIDE DEF o
<1>8. Shape'
  BY Zenon, <1>5, <1>7 DEF IInv, Shape, Operation
<1>9. QED
  BY Zenon, <1>8, SameFiles DEF CopyRead

(* The write of a copy. *)
LEMMA CopyWrites ==
  ASSUME IInv, NEW t \in Threads, CopyWrite(t)
  PROVE  \E f \in Files, off \in 0 .. MaxSize - 1, len \in 0..MaxLen :
           \E buf \in [1..len -> Byte], g \in Contents(off, len) :
             /\ Len(buf) = len /\ off + len <= MaxSize /\ Write(f, off, buf, g)
             /\ op[t].do = "copy write" /\ op' = [op EXCEPT ![t] = Idle]
<1>1. op[t] \in CopyingWrite
  BY Zenon, OperationKinds DEF CopyWrite, IInv, Shape
<1>2. PICK f \in Files, off \in 0 .. MaxSize - 1, buf \in Seq(Byte) :
        /\ f = op[t].dest /\ off = op[t].to /\ buf = op[t].buf
        /\ Len(buf) <= MaxLen /\ off + Len(buf) <= MaxSize
  BY Zenon, <1>1 DEF CopyingWrite
<1>3. Len(buf) \in 0..MaxLen /\ buf \in [1..Len(buf) -> Byte]
  BY <1>2, FileAssumption
<1>4. PICK g \in Contents(off, Len(buf)) : Write(f, off, buf, g)
  BY Zenon, <1>2 DEF CopyWrite
<1>5. op[t].do = "copy write" /\ op' = [op EXCEPT ![t] = Idle]
  BY Zenon DEF CopyWrite
<1>6. QED
  BY Zenon, <1>2, <1>3, <1>4, <1>5

LEMMA CopyWriteStep ==
  ASSUME IInv, NEW t \in Threads, CopyWrite(t)
  PROVE  IInv' /\ Refines
<1>1. PICK f \in Files, off \in 0 .. MaxSize - 1, len \in 0..MaxLen :
        \E buf \in [1..len -> Byte], g \in Contents(off, len) :
          /\ Len(buf) = len /\ off + len <= MaxSize /\ Write(f, off, buf, g)
          /\ op[t].do = "copy write" /\ op' = [op EXCEPT ![t] = Idle]
  BY Zenon, CopyWrites
<1>2. PICK buf \in [1..len -> Byte], g \in Contents(off, len) :
        Len(buf) = len /\ off + len <= MaxSize /\ Write(f, off, buf, g)
  BY Zenon, <1>1
<1>3. Shape'
  BY Zenon, <1>1 DEF IInv, Shape, Operation
<1>4. IInv' /\ WF!Write(f, off, buf)
  BY Zenon, <1>2, <1>3, WriteStep
<1>5. CASE len = 0
  <2>1. buf = <<>>
    BY <1>5
  <2>2. \E n \in 0..MaxSize : WF!Resize(f, n)
    BY Zenon, <1>4, <2>1, WroteNothing
  <2>3. QED
    BY Zenon, <1>4, <2>2 DEF Refines, WF!Next
<1>6. CASE len # 0
  <2>1. len \in 1..MaxLen
    BY <1>6, FileAssumption
  <2>2. QED
    BY Zenon, <1>4, <2>1 DEF Refines, WF!Next
<1>7. QED
  BY Zenon, <1>5, <1>6

LEMMA InitFacts == Init => IInv /\ WF!Init
<1> SUFFICES ASSUME Init PROVE IInv /\ WF!Init
  OBVIOUS
<1>1. TypeOK
  <2>1. slices \in [Files -> [Index -> Slice \cup {NoSlice}]]
    BY Zenon DEF Init
  <2>2. size \in [Files -> 0..MaxSize] /\ mode \in [Files -> SUBSET Bit] /\ disk_size \in Nat
    BY FileAssumption DEF Init
  <2>3. covered \in [Files -> SUBSET (0 .. MaxSize - 1)]
    BY Zenon DEF Init
  <2>4. \A t \in Threads : op[t].do \in {"idle", "truncate", "copy read", "copy write"}
    BY Zenon DEF Init, Idle
  <2>5. QED
    BY Zenon, <2>1, <2>2, <2>3, <2>4 DEF TypeOK
<1>2. Shape /\ CoveredIsStored
  BY Zenon DEF Init, Shape, Operation, CoveredIsStored
<1>3. \A f \in Files : CoveredContent(f) = <<>>
  BY DEF Init, CoveredContent
<1>4. QED
  BY Zenon, <1>1, <1>2, <1>3 DEF IInv, WF!Init

LEMMA NextFacts ==
  ASSUME IInv, [Next]_vars
  PROVE  IInv' /\ Refines
<1>1. CASE UNCHANGED vars
  <2>1. Shape'
    BY Zenon, <1>1 DEF vars, IInv, Shape
  <2>2. QED
    BY Zenon, <1>1, <2>1, SameFiles DEF vars, Refines
<1>2. ASSUME NEW t \in Threads, NEW f \in Files, NEW off \in 0 .. MaxSize - 1, NEW len \in 1..MaxLen,
             \/ \E buf \in [1..len -> Byte] : WriteFile(t, f, off, buf)
             \/ \E keep \in BOOLEAN : Fallocate(t, f, off, len, keep)
             \/ \E dest \in Files, to \in 0 .. MaxSize - len :
                  CopySize(t, f, off, dest, to, len)
      PROVE  IInv' /\ Refines
  <2>1. CASE \E buf \in [1..len -> Byte] : WriteFile(t, f, off, buf)
    BY Zenon, <2>1, WriteFileStep DEF Refines, WF!Next
  <2>2. CASE \E keep \in BOOLEAN : Fallocate(t, f, off, len, keep)
    BY Zenon, <2>2, FallocateStep DEF Refines, WF!Next
  <2>3. CASE \E dest \in Files, to \in 0 .. MaxSize - len : CopySize(t, f, off, dest, to, len)
    BY Zenon, <2>3, CopySizeStep DEF Refines
  <2>4. QED
    BY Zenon, <1>2, <2>1, <2>2, <2>3
<1>3. ASSUME NEW t \in Threads, NEW f \in Files, NEW n \in 0..MaxSize, TruncateAttr(t, f, n)
      PROVE  IInv' /\ Refines
  BY Zenon, <1>3, TruncateAttrStep DEF Refines
<1>4. ASSUME NEW t \in Threads, TruncateTx(t)
      PROVE  IInv' /\ Refines
  BY Zenon, <1>4, TruncateTxStep DEF Refines, WF!Next
<1>5. ASSUME NEW t \in Threads, CopyRead(t) \/ CopyWrite(t)
      PROVE  IInv' /\ Refines
  BY Zenon, <1>5, CopyReadStep, CopyWriteStep DEF Refines
<1>6. QED
  BY Zenon, <1>1, <1>2, <1>3, <1>4, <1>5 DEF Next

LEMMA Inductive == Spec => []IInv
<1>1. Init => IInv
  BY Zenon, InitFacts
<1>2. IInv /\ [Next]_vars => IInv'
  BY Zenon, NextFacts
<1>3. QED
  BY <1>1, <1>2, PTL DEF Spec

(* Whatever threads write, truncate, allocate and copy, sizes stay in their *)
(* bound, every slice is whole and disk_size does not go below zero.        *)
THEOREM FileTypeCorrect == Spec => []TypeOK
<1>1. IInv => TypeOK
  BY Zenon DEF IInv
<1>2. QED
  BY Inductive, <1>1, PTL

(* dbfs_common_write, dbfs_common_truncate and dbfs_common_copy_file_range  *)
(* keep the bytes that writes have covered, for every slice size, with any  *)
(* number of threads that interleave their transactions and whatever the    *)
(* slice buffers hold.                                                      *)
THEOREM WrittenBytesAreKept == Spec => KeepsWrittenBytes
<1>1. Init => WF!Init
  BY Zenon, InitFacts
<1>2. IInv /\ [Next]_vars => [WF!Next]_([f \in Files |-> CoveredContent(f)])
  BY Zenon, NextFacts DEF Refines
<1>3. QED
  BY Inductive, <1>1, <1>2, PTL DEF Spec, KeepsWrittenBytes, WF!Spec

-----------------------------------------------------------------------------
(* One thread, as under FUSE: what a truncate has read is still so when it  *)
(* acts, and there is nothing behind the end of a file.                     *)

OneThread == \A t, u \in Threads : t = u

(* A step that stores a slice for the first time leaves zeros where no      *)
(* write has covered it.  It does when the write covers the whole slice,    *)
(* whatever the buffer held, and when what the buffer held was zeros.       *)
CleanStep ==
  \A f \in Files, k \in 0 .. MaxSize - 1 :
    LET i == k \div SliceSize
    IN slices[f][i] = NoSlice /\ slices'[f][i] # NoSlice /\ k \notin covered'[f]
       => slices'[f][i][k % SliceSize] = 0

TruncateIsUpToDate ==
  \A t \in Threads : op[t].do = "truncate" => op[t].size = size[op[t].file]

OneInv == TruncateIsUpToDate /\ NoSliceBeyondEnd

ZerosBehindEnd ==
  \A f \in Files : \A k \in size[f] .. MaxSize - 1 : StoredByte(f, k) = 0

RefinesBytes == BF!Next \/ UNCHANGED [f \in Files |-> Content(f)]

(* A clean step, and what it keeps. *)
Clean == CleanStep /\ ZerosBehindEnd
AsBytes == ZerosBehindEnd' /\ RefinesBytes

LEMMA ContentIsSeq ==
  ASSUME TypeOK, NEW f \in Files
  PROVE  Len(Content(f)) = size[f]
<1>1. size[f] \in Nat
  BY Zenon, SizeType
<1>2. Content(f) \in [1..size[f] -> {Content(f)[k] : k \in 1..size[f]}]
  BY Zenon DEF Content
<1>3. QED
  BY Zenon, <1>1, <1>2, Bytes

(* The slices up to the one of position k begin before k. *)
LEMMA BeginBefore ==
  ASSUME NEW S \in Nat \ {0}, NEW i \in Nat, NEW k \in Nat
  PROVE  i <= k \div S <=> i * S <= k
OBVIOUS

LEMMA WriteOne ==
  ASSUME IInv, OneInv, NEW f \in Files, NEW off \in 0 .. MaxSize - 1,
         NEW len \in 0..MaxLen, NEW buf \in [1..len -> Byte], off + len <= MaxSize,
         NEW g \in Contents(off, len), Write(f, off, buf, g), TruncateIsUpToDate'
  PROVE  OneInv' /\ (Clean => ZerosBehindEnd' /\ BF!Write(f, off, buf))
<1> DEFINE end == off + len
           C == Content(f)
           n == Greater(size[f], end)
<1>1. MaxSize \in Nat /\ MaxLen \in Nat /\ off \in Nat /\ len \in Nat /\ size[f] \in 0..MaxSize
      /\ TypeOK /\ size[f] \in Nat /\ SliceSize \in Nat \ {0}
  BY FileAssumption, SizeType DEF IInv
<1>2. Len(buf) = len
  BY Zenon, <1>1, Bytes
<1>3. end <= MaxSize
  OBVIOUS
<1>a. WriteEffect(f, off, len, buf)
  BY Zenon, <1>1, WriteFacts
<1>5. /\ \A h \in Files \ {f} : slices'[h] = slices[h] /\ size'[h] = size[h]
      /\ size' = [size EXCEPT ![f] = n]
  BY Zenon, <1>a DEF WriteEffect
<1>6. /\ \A k \in off .. end - 1 : StoredByte(f, k)' = buf[k - off + 1]
      /\ \A k \in (0 .. MaxSize - 1) \ (off .. end - 1) :
           slices[f][k \div SliceSize] # NoSlice => StoredByte(f, k)' = StoredByte(f, k)
      /\ \A i \in Index :
           slices'[f][i] # NoSlice => slices[f][i] # NoSlice \/ i \in Touched(off, len)
      /\ covered' = [covered EXCEPT ![f] = covered[f] \cup off .. end - 1]
  BY <1>a DEF WriteEffect
<1>9. ASSUME Clean, NEW k \in (0 .. MaxSize - 1) \ (off .. end - 1)
      PROVE  StoredByte(f, k)' = StoredByte(f, k)
  <2>1. CASE slices[f][k \div SliceSize] # NoSlice
    BY Zenon, <1>6, <2>1
  <2>2. CASE slices[f][k \div SliceSize] = NoSlice
    <3>1. k \notin covered[f]
      BY Zenon, <2>2 DEF IInv, CoveredIsStored
    <3>2. covered'[f] = covered[f] \cup off .. end - 1
      BY Zenon, <1>1, <1>6 DEF TypeOK
    <3>3. slices'[f][k \div SliceSize] # NoSlice => slices'[f][k \div SliceSize][k % SliceSize] = 0
      BY Zenon, <1>9, <2>2, <3>1, <3>2 DEF Clean, CleanStep
    <3>4. QED
      BY Zenon, <2>2, <3>3 DEF StoredByte
  <2>3. QED
    BY Zenon, <2>1, <2>2
<1>7. n \in 0..MaxSize /\ n >= end /\ n >= size[f] /\ end \in Nat
  BY <1>1, <1>3 DEF Greater
<1>8. size'[f] = n
  BY Zenon, <1>1, <1>5 DEF TypeOK
<1> HIDE DEF n, end
<1>10. NoSliceBeyondEnd'
  <2>1. SUFFICES ASSUME NEW h \in Files, NEW i \in Index, slices'[h][i] # NoSlice
                 PROVE  i * SliceSize <= size'[h]
    BY Zenon DEF NoSliceBeyondEnd, Present
  <2>2. i \in Nat
    BY DEF Index
  <2>3. i * SliceSize \in Nat
    BY <1>1, <2>2
  <2>4. CASE slices[h][i] # NoSlice
    <3>1. i * SliceSize <= size[h]
      BY Zenon, <2>4 DEF OneInv, NoSliceBeyondEnd, Present
    <3>2. QED
      <4> DEFINE a == i * SliceSize
      <4>1. a \in Nat /\ a <= size[h]
        BY Zenon, <2>3, <3>1
      <4> HIDE DEF a
      <4>2. CASE h = f
        <5>1. a <= n
          BY <1>1, <1>7, <4>1, <4>2
        <5>2. QED
          BY Zenon, <1>8, <4>2, <5>1 DEF a
      <4>3. CASE h # f
        BY Zenon, <1>5, <4>1, <4>3 DEF a
      <4>4. QED
        BY Zenon, <4>2, <4>3
  <2>5. CASE h = f /\ i \in Touched(off, len)
    <3> DEFINE e == Greater(off, off + len - 1)
    <3>1. e \in Nat /\ e <= end
      BY <1>1 DEF end, Greater
    <3>2. i <= e \div SliceSize
      BY <2>5 DEF Touched
    <3> HIDE DEF e
    <3>3. i * SliceSize <= e
      BY Zenon, <1>1, <2>2, <3>1, <3>2, BeginBefore
    <3>4. QED
      <4> DEFINE a == i * SliceSize
      <4>1. a \in Nat /\ a <= e
        BY Zenon, <2>3, <3>3
      <4> HIDE DEF a
      <4>2. a <= n
        BY <1>7, <3>1, <4>1
      <4>3. QED
        BY Zenon, <1>8, <2>5, <4>2 DEF a
  <2>6. QED
    BY Zenon, <1>5, <1>6, <2>1, <2>4, <2>5
<1>11. Clean => \A k \in size[f] .. MaxSize - 1 : StoredByte(f, k) = 0
  BY Zenon DEF Clean, ZerosBehindEnd
<1>12. Clean => ZerosBehindEnd'
  <2>1. SUFFICES ASSUME Clean, NEW h \in Files, NEW k \in size'[h] .. MaxSize - 1
                 PROVE  StoredByte(h, k)' = 0
    BY Zenon DEF ZerosBehindEnd
  <2>2. CASE h # f
    BY <1>5, <2>1, <2>2 DEF Clean, ZerosBehindEnd, StoredByte
  <2>3. CASE h = f
    <3>1. k \in (0 .. MaxSize - 1) \ (off .. end - 1) /\ k \in size[f] .. MaxSize - 1
      BY <1>1, <1>7, <1>8, <2>3
    <3>2. QED
      BY Zenon, <1>9, <1>11, <2>1, <2>3, <3>1
  <2>4. QED
    BY Zenon, <2>2, <2>3
<1>13. Clean => BF!Write(f, off, buf)
  <2> SUFFICES ASSUME Clean PROVE BF!Write(f, off, buf)
    OBVIOUS
  <2>1. Len(C) = size[f]
    BY Zenon, <1>1, ContentIsSeq
  <2>2. BF!Written(C, off, buf) =
          [k \in 1..n |-> IF k > off /\ k <= end THEN buf[k - off] ELSE BF!ByteAt(C, k)]
    BY <1>1, <1>2, <1>7, <2>1 DEF BF!Written, n, end, Greater
  <2>3. ASSUME NEW k \in 1..n
        PROVE  StoredByte(f, k - 1)'
               = IF k > off /\ k <= end THEN buf[k - off] ELSE BF!ByteAt(C, k)
    <3>1. k \in Nat /\ k - 1 \in 0 .. MaxSize - 1
      BY <1>1, <1>7
    <3>2. CASE k > off /\ k <= end
      <4>1. k - 1 \in off .. end - 1 /\ (k - 1) - off + 1 = k - off
        BY <1>1, <1>7, <3>1, <3>2
      <4>2. QED
        BY Zenon, <1>6, <3>2, <4>1
    <3>3. CASE ~(k > off /\ k <= end)
      <4>1. k - 1 \notin off .. end - 1
        BY <1>1, <1>7, <3>1, <3>3
      <4>2. StoredByte(f, k - 1)' = StoredByte(f, k - 1)
        BY Zenon, <1>9, <3>1, <4>1
      <4>3. CASE k <= size[f]
        <5>1. C[k] = StoredByte(f, k - 1)
          BY <1>1, <3>1, <4>3 DEF Content
        <5>2. QED
          BY Zenon, <2>1, <3>3, <4>2, <4>3, <5>1 DEF BF!ByteAt
      <4>4. CASE ~(k <= size[f])
        <5>1. k - 1 \in size[f] .. MaxSize - 1
          BY <1>1, <3>1, <4>4
        <5>2. StoredByte(f, k - 1) = 0
          BY Zenon, <1>11, <5>1
        <5>3. QED
          BY Zenon, <2>1, <3>3, <4>2, <4>4, <5>2 DEF BF!ByteAt
      <4>5. QED
        BY Zenon, <4>3, <4>4
    <3>4. QED
      BY Zenon, <3>2, <3>3
  <2>4. Content(f)' = BF!Written(C, off, buf)
    BY Zenon, <1>8, <2>2, <2>3 DEF Content
  <2>5. \A h \in Files \ {f} : Content(h)' = Content(h)
    BY Zenon, <1>5 DEF Content, StoredByte
  <2>6. QED
    BY Zenon, <2>4, <2>5 DEF BF!Write
<1>14. QED
  BY Zenon, <1>10, <1>12, <1>13 DEF OneInv

LEMMA WriteFileOne ==
  ASSUME IInv, OneInv, OneThread, NEW t \in Threads, NEW f \in Files, NEW off \in 0 .. MaxSize - 1,
         NEW len \in 1..MaxLen, NEW buf \in [1..len -> Byte], WriteFile(t, f, off, buf)
  PROVE  OneInv' /\ (Clean => ZerosBehindEnd' /\ BF!Write(f, off, buf))
<1>1. len \in Nat /\ len \in 0..MaxLen
  BY FileAssumption
<1>2. Len(buf) = len
  BY Zenon, <1>1, Bytes
<1>3. off + len <= MaxSize /\ op' = op /\ op[t] = Idle
  BY Zenon, <1>2 DEF WriteFile
<1>4. PICK g \in Contents(off, len) : Write(f, off, buf, g)
  BY Zenon, <1>2 DEF WriteFile
<1>5. TruncateIsUpToDate'
  BY <1>3 DEF OneThread, TruncateIsUpToDate, Idle
<1>6. QED
  BY Zenon, <1>1, <1>3, <1>4, <1>5, WriteOne

(* A thread that copies does not truncate. *)
LEMMA CopyingOne ==
  ASSUME IInv, OneThread, NEW t \in Threads, CopyRead(t) \/ CopyWrite(t)
  PROVE  TruncateIsUpToDate'
<1>1. op \in [Threads -> Operation] /\ \A u \in Threads : u = t
  BY Zenon DEF IInv, Shape, OneThread
<1>2. op'[t].do \in {"copy write", "idle"}
  <2>1. CASE CopyRead(t)
    BY Zenon, <1>1, <2>1 DEF CopyRead
  <2>2. CASE CopyWrite(t)
    BY Zenon, <1>1, <2>2 DEF CopyWrite, Idle
  <2>3. QED
    BY Zenon, <2>1, <2>2
<1>3. QED
  BY Zenon, <1>1, <1>2 DEF TruncateIsUpToDate

LEMMA CopyWriteOne ==
  ASSUME IInv, OneInv, OneThread, NEW t \in Threads, CopyWrite(t)
  PROVE  OneInv' /\ (Clean => AsBytes)
<1>1. PICK f \in Files, off \in 0 .. MaxSize - 1, len \in 0..MaxLen :
        \E buf \in [1..len -> Byte], g \in Contents(off, len) :
          /\ Len(buf) = len /\ off + len <= MaxSize /\ Write(f, off, buf, g)
          /\ op[t].do = "copy write" /\ op' = [op EXCEPT ![t] = Idle]
  BY Zenon, CopyWrites
<1>2. PICK buf \in [1..len -> Byte], g \in Contents(off, len) :
        Len(buf) = len /\ off + len <= MaxSize /\ Write(f, off, buf, g)
  BY Zenon, <1>1
<1>3. TruncateIsUpToDate'
  BY Zenon, CopyingOne
<1>4. OneInv' /\ (Clean => ZerosBehindEnd' /\ BF!Write(f, off, buf))
  BY Zenon, <1>2, <1>3, WriteOne
<1>5. CASE len = 0
  <2> DEFINE C == Content(f)
             n == Greater(size[f], off)
  <2>1. off \in Nat /\ size[f] \in Nat /\ size[f] \in 0..MaxSize /\ MaxSize \in Nat
    BY FileAssumption, SizeType DEF IInv
  <2>2. n \in 0..MaxSize /\ buf = <<>>
    BY <1>5, <2>1 DEF Greater
  <2>3. Len(C) = size[f]
    BY Zenon, ContentIsSeq DEF IInv
  <2>4. BF!Written(C, off, <<>>) = BF!Resized(C, n)
    BY <2>1, <2>3 DEF BF!Written, BF!Resized, Greater
  <2>5. Clean => BF!Resize(f, n)
    BY Zenon, <1>4, <2>2, <2>4 DEF BF!Write, BF!Resize
  <2>6. QED
    BY Zenon, <1>4, <2>2, <2>5 DEF AsBytes, RefinesBytes, BF!Next
<1>6. CASE len # 0
  <2>1. len \in 1..MaxLen
    BY <1>6, FileAssumption
  <2>2. QED
    BY Zenon, <1>4, <2>1 DEF AsBytes, RefinesBytes, BF!Next
<1>7. QED
  BY Zenon, <1>5, <1>6

LEMMA ResizeOne ==
  ASSUME TypeOK, ZerosBehindEnd, NEW f \in Files, NEW n \in 0..MaxSize,
         size' = [size EXCEPT ![f] = n],
         \A h \in Files \ {f} : slices'[h] = slices[h],
         \A k \in 0 .. n - 1 : StoredByte(f, k)' = StoredByte(f, k)
  PROVE  BF!Resize(f, n)
<1> DEFINE C == Content(f)
<1>1. size[f] \in Nat /\ n \in Nat /\ MaxSize \in Nat /\ size[f] <= MaxSize
  BY FileAssumption, SizeType
<1>2. size'[f] = n /\ \A h \in Files \ {f} : size'[h] = size[h]
  BY Zenon DEF TypeOK
<1>3. Len(C) = size[f]
  BY Zenon, ContentIsSeq
<1>4. ASSUME NEW k \in 1..n PROVE StoredByte(f, k - 1)' = BF!ByteAt(C, k)
  <2>1. k \in Nat /\ k - 1 \in 0 .. n - 1
    BY <1>1
  <2>2. StoredByte(f, k - 1)' = StoredByte(f, k - 1)
    BY Zenon, <2>1
  <2>3. CASE k <= size[f]
    <3>1. C[k] = StoredByte(f, k - 1)
      BY <1>1, <2>1, <2>3 DEF Content
    <3>2. QED
      BY Zenon, <1>3, <2>2, <2>3, <3>1 DEF BF!ByteAt
  <2>4. CASE ~(k <= size[f])
    <3>1. k - 1 \in size[f] .. MaxSize - 1
      BY <1>1, <2>1, <2>4
    <3>2. StoredByte(f, k - 1) = 0
      BY Zenon, <3>1 DEF ZerosBehindEnd
    <3>3. QED
      BY Zenon, <1>3, <2>2, <2>4, <3>2 DEF BF!ByteAt
  <2>5. QED
    BY Zenon, <2>3, <2>4
<1>5. Content(f)' = BF!Resized(C, n)
  BY Zenon, <1>2, <1>4 DEF Content, BF!Resized
<1>6. \A h \in Files \ {f} : Content(h)' = Content(h)
  BY Zenon, <1>2 DEF Content, StoredByte
<1>7. QED
  BY Zenon, <1>5, <1>6 DEF BF!Resize

LEMMA SameOne ==
  ASSUME OneInv, slices' = slices, size' = size, TruncateIsUpToDate'
  PROVE  OneInv' /\ (Clean => AsBytes)
<1>1. NoSliceBeyondEnd' /\ (ZerosBehindEnd => ZerosBehindEnd')
  BY Zenon DEF OneInv, NoSliceBeyondEnd, ZerosBehindEnd, Present, StoredByte
<1>2. UNCHANGED [f \in Files |-> Content(f)]
  BY Zenon DEF Content, StoredByte
<1>3. QED
  BY Zenon, <1>1, <1>2 DEF OneInv, Clean, AsBytes, RefinesBytes

LEMMA FallocateOne ==
  ASSUME IInv, OneInv, OneThread, NEW t \in Threads, NEW f \in Files, NEW off \in 0 .. MaxSize - 1,
         NEW len \in 1..MaxLen, NEW keep \in BOOLEAN, Fallocate(t, f, off, len, keep)
  PROVE  OneInv' /\ (Clean => AsBytes)
<1> DEFINE n == Greater(size[f], off + len)
<1>1. /\ TypeOK /\ size[f] \in 0..MaxSize /\ size[f] \in Nat /\ MaxSize \in Nat
      /\ off \in Nat /\ len \in Nat /\ SliceSize \in Nat \ {0}
  BY FileAssumption, SizeType DEF IInv
<1>2. slices' = slices /\ op' = op /\ op[t] = Idle /\ off + len <= MaxSize
  BY Zenon DEF Fallocate
<1>3. TruncateIsUpToDate'
  BY <1>2 DEF OneThread, TruncateIsUpToDate, Idle
<1>4. CASE keep
  BY Zenon, <1>2, <1>3, <1>4, SameOne DEF Fallocate
<1>5. CASE ~keep
  <2>1. n \in 0..MaxSize /\ n >= size[f]
    BY <1>1, <1>2 DEF Greater
  <2>2. size' = [size EXCEPT ![f] = n]
    BY Zenon, <1>5 DEF Fallocate, GrownSize
  <2> HIDE DEF n
  <2>3. \A h \in Files : size'[h] \in Nat /\ size[h] \in Nat /\ size'[h] >= size[h]
    <3>1. \A h \in Files : size[h] \in Nat
      BY Zenon, <1>1, SizeType
    <3>2. size'[f] = n /\ \A h \in Files \ {f} : size'[h] = size[h]
      BY Zenon, <1>1, <2>2 DEF TypeOK
    <3>3. QED
      <4>1. ASSUME NEW h \in Files PROVE size'[h] \in Nat /\ size'[h] >= size[h]
        <5>1. CASE h = f
          BY <1>1, <2>1, <3>2, <5>1
        <5>2. CASE h # f
          BY <3>1, <3>2, <5>2
        <5>3. QED
          BY Zenon, <5>1, <5>2
      <4>2. QED
        BY Zenon, <3>1, <4>1
  <2>4. NoSliceBeyondEnd'
    <3>1. SUFFICES ASSUME NEW h \in Files, NEW i \in Present(h) PROVE i * SliceSize <= size'[h]
      BY Zenon, <1>2 DEF NoSliceBeyondEnd, Present
    <3>2. i \in Nat /\ i * SliceSize <= size[h]
      BY DEF OneInv, NoSliceBeyondEnd, Present, Index
    <3>3. i * SliceSize \in Nat
      BY <1>1, <3>2
    <3>4. QED
      BY <2>3, <3>2, <3>3
  <2>5. ZerosBehindEnd => ZerosBehindEnd'
    <3>1. \A h \in Files : size'[h] .. MaxSize - 1 \subseteq size[h] .. MaxSize - 1
      BY <1>1, <2>3
    <3>2. QED
      BY Zenon, <1>2, <3>1 DEF ZerosBehindEnd, StoredByte
  <2>6. \A k \in 0 .. n - 1 : StoredByte(f, k)' = StoredByte(f, k)
    BY Zenon, <1>2 DEF StoredByte
  <2>7. ZerosBehindEnd => BF!Resize(f, n)
    BY Zenon, <1>1, <1>2, <2>1, <2>2, <2>6, ResizeOne
  <2>8. QED
    BY Zenon, <1>3, <2>1, <2>4, <2>5, <2>7 DEF OneInv, Clean, AsBytes, RefinesBytes, BF!Next
<1>6. QED
  BY Zenon, <1>4, <1>5

LEMMA TruncateAttrOne ==
  ASSUME IInv, OneInv, OneThread, NEW t \in Threads, NEW f \in Files, NEW n \in 0..MaxSize,
         TruncateAttr(t, f, n)
  PROVE  OneInv' /\ (Clean => AsBytes)
<1> DEFINE o == [do |-> "truncate", file |-> f, to |-> n, size |-> size[f], mode |-> mode[f]]
<1>1. op' = [op EXCEPT ![t] = o] /\ slices' = slices /\ size' = size
  BY Zenon DEF TruncateAttr
<1>2. op'[t] = o /\ \A u \in Threads : u = t
  BY Zenon, <1>1 DEF IInv, Shape, OneThread
<1>3. TruncateIsUpToDate'
  BY <1>1, <1>2 DEF TruncateIsUpToDate
<1>4. QED
  BY Zenon, <1>1, <1>3, SameOne

LEMMA TruncateTxOne ==
  ASSUME IInv, OneInv, OneThread, NEW t \in Threads, TruncateTx(t)
  PROVE  OneInv' /\ (Clean => AsBytes)
<1>1. op[t] \in Truncation /\ op[t].do = "truncate"
  <2>1. op[t].do = "truncate"
    BY Zenon DEF TruncateTx
  <2>2. QED
    BY Zenon, <2>1, OperationKinds DEF IInv, Shape
<1>2. PICK f \in Files, n \in 0..MaxSize, z \in 0..MaxSize :
        f = op[t].file /\ n = op[t].to /\ z = op[t].size
  BY Zenon, <1>1 DEF Truncation
<1> DEFINE start == n \div SliceSize
           current == z \div SliceSize
           gap == Greater(0, n - z)
           cut == CutSlices(slices[f], start, current, n % SliceSize)
<1>3. TypeOK /\ n \in Nat /\ z \in Nat /\ SliceSize \in Nat \ {0} /\ MaxSize \in Nat
  BY FileAssumption DEF IInv
<1>4. z = size[f]
  BY Zenon, <1>1, <1>2 DEF OneInv, TruncateIsUpToDate
<1>5. op'[t].do = "idle" /\ \A u \in Threads : u = t
  BY Zenon DEF TruncateTx, IInv, Shape, Idle, OneThread
<1>6. TruncateIsUpToDate'
  BY Zenon, <1>5 DEF TruncateIsUpToDate
<1>7. start \in Nat /\ current \in Nat
  BY Zenon, <1>3, Division
<1>8. CASE slices' = slices /\ size' = size
  BY Zenon, <1>6, <1>8, SameOne
<1>9. ASSUME NEW i \in Index, slices[f][i] # NoSlice
      PROVE  i \in Nat /\ i <= current
  <2>1. i \in Nat /\ i * SliceSize <= z
    BY <1>4, <1>9 DEF OneInv, NoSliceBeyondEnd, Present, Index
  <2>2. QED
    BY Zenon, <1>3, <2>1, BeginBefore
<1>10. ASSUME size' = [size EXCEPT ![f] = n],
              \A h \in Files \ {f} : slices'[h] = slices[h],
              \A i \in Index : slices'[f][i] # NoSlice => i \in Nat /\ i <= start,
              ZerosBehindEnd => \A k \in n .. MaxSize - 1 : StoredByte(f, k)' = 0,
              \A k \in 0 .. n - 1 : StoredByte(f, k)' = StoredByte(f, k)
       PROVE  OneInv' /\ (Clean => AsBytes)
  <2>1. size'[f] = n /\ \A h \in Files \ {f} : size'[h] = size[h]
    BY Zenon, <1>3, <1>10 DEF TypeOK
  <2>2. NoSliceBeyondEnd'
    <3>1. ASSUME NEW i \in Index, slices'[f][i] # NoSlice PROVE i * SliceSize <= n
      BY Zenon, <1>3, <1>10, <3>1, BeginBefore
    <3>2. QED
      BY Zenon, <1>10, <2>1, <3>1 DEF OneInv, NoSliceBeyondEnd, Present
  <2>3. ZerosBehindEnd => ZerosBehindEnd'
    BY <1>10, <2>1 DEF ZerosBehindEnd, StoredByte
  <2>4. ZerosBehindEnd => BF!Resize(f, n)
    BY Zenon, <1>3, <1>10, ResizeOne
  <2>5. QED
    BY Zenon, <1>6, <2>2, <2>3, <2>4 DEF OneInv, Clean, AsBytes, RefinesBytes, BF!Next
<1>11. CASE current < start /\ slices' = slices /\ size' = [size EXCEPT ![f] = n]
  <2>1. \A i \in Index : slices'[f][i] # NoSlice => i \in Nat /\ i <= start
    BY <1>7, <1>9, <1>11
  <2>2. z <= n
    BY <1>3, <1>11, Monotone
  <2>3. ZerosBehindEnd => \A k \in n .. MaxSize - 1 : StoredByte(f, k) = 0
    BY <1>3, <1>4, <2>2 DEF ZerosBehindEnd
  <2>4. \A k : StoredByte(f, k)' = StoredByte(f, k)
    BY Zenon, <1>11 DEF StoredByte
  <2>5. QED
    BY Zenon, <1>10, <1>11, <2>1, <2>3, <2>4
<1>12. CASE /\ current >= start /\ slices' = [slices EXCEPT ![f] = cut]
            /\ size' = [size EXCEPT ![f] = n]
  <2>1. CutEffect(f, n, current, cut)
    BY Zenon, <1>3, <1>7, CutFacts
  <2>a. \A k \in 0 .. n - 1 :
          /\ slices[f][k \div SliceSize] = NoSlice <=> cut[k \div SliceSize] = NoSlice
          /\ slices[f][k \div SliceSize] # NoSlice =>
               cut[k \div SliceSize][k % SliceSize] = slices[f][k \div SliceSize][k % SliceSize]
    BY Zenon, <2>1 DEF CutEffect
  <2>b. \A k \in n .. MaxSize - 1 :
          k \div SliceSize <= current =>
            cut[k \div SliceSize] = NoSlice \/ cut[k \div SliceSize][k % SliceSize] = 0
    BY Zenon, <2>1 DEF CutEffect
  <2>c. \A i \in Index :
          cut[i] # NoSlice => slices[f][i] # NoSlice /\ (i <= start \/ i > current)
    BY Zenon, <2>1 DEF CutEffect
  <2> HIDE DEF cut, start, current
  <2>2. slices'[f] = cut /\ \A h \in Files \ {f} : slices'[h] = slices[h]
    BY Zenon, <1>3, <1>12 DEF TypeOK
  <2>3. \A i \in Index : slices'[f][i] # NoSlice => i \in Nat /\ i <= start
    BY <1>7, <1>9, <2>c, <2>2
  <2>4. \A k \in 0 .. n - 1 : StoredByte(f, k)' = StoredByte(f, k)
    BY Zenon, <2>a, <2>2 DEF StoredByte
  <2>5. ASSUME NEW k \in n .. MaxSize - 1 PROVE StoredByte(f, k)' = 0
    <3>1. k \in 0..MaxSize
      BY <1>3
    <3>2. k \div SliceSize \in Index
      BY Zenon, <3>1, Positions
    <3>3. CASE cut[k \div SliceSize] = NoSlice
      BY Zenon, <2>2, <3>3 DEF StoredByte
    <3>4. CASE cut[k \div SliceSize] # NoSlice
      <4>1. k \div SliceSize <= current
        BY Zenon, <1>9, <2>c, <3>2, <3>4
      <4>2. QED
        BY Zenon, <2>b, <2>2, <3>4, <4>1 DEF StoredByte
    <3>5. QED
      BY Zenon, <3>3, <3>4
  <2>6. QED
    BY Zenon, <1>10, <1>12, <2>2, <2>3, <2>4, <2>5
<1>13. QED
  BY Zenon, <1>2, <1>8, <1>11, <1>12 DEF TruncateTx

LEMMA InitOne == Init => OneInv /\ ZerosBehindEnd /\ BF!Init
<1> SUFFICES ASSUME Init PROVE OneInv /\ ZerosBehindEnd /\ BF!Init
  OBVIOUS
<1>1. TruncateIsUpToDate /\ NoSliceBeyondEnd
  BY Zenon DEF Init, TruncateIsUpToDate, NoSliceBeyondEnd, Present, Idle
<1>2. ASSUME NEW f \in Files, NEW k \in 0 .. MaxSize - 1 PROVE StoredByte(f, k) = 0
  <2>1. k \in 0..MaxSize
    BY FileAssumption
  <2>2. k \div SliceSize \in Index
    BY Zenon, <2>1, Positions
  <2>3. QED
    BY Zenon, <2>2 DEF Init, StoredByte
<1>3. ZerosBehindEnd
  BY Zenon, <1>2 DEF Init, ZerosBehindEnd
<1>4. \A f \in Files : Content(f) = <<>>
  BY DEF Init, Content
<1>5. QED
  BY Zenon, <1>1, <1>3, <1>4 DEF OneInv, BF!Init

LEMMA NextOne ==
  ASSUME OneThread, IInv, OneInv, [Next]_vars
  PROVE  OneInv' /\ (Clean => AsBytes)
<1>1. CASE UNCHANGED vars
  <2>1. TruncateIsUpToDate'
    BY Zenon, <1>1 DEF vars, OneInv, TruncateIsUpToDate
  <2>2. QED
    BY Zenon, <1>1, <2>1, SameOne DEF vars
<1>2. ASSUME NEW t \in Threads, NEW f \in Files, NEW off \in 0 .. MaxSize - 1, NEW len \in 1..MaxLen,
             \/ \E buf \in [1..len -> Byte] : WriteFile(t, f, off, buf)
             \/ \E keep \in BOOLEAN : Fallocate(t, f, off, len, keep)
             \/ \E dest \in Files, to \in 0 .. MaxSize - len :
                  CopySize(t, f, off, dest, to, len)
      PROVE  OneInv' /\ (Clean => AsBytes)
  <2>1. CASE \E buf \in [1..len -> Byte] : WriteFile(t, f, off, buf)
    BY Zenon, <2>1, WriteFileOne DEF AsBytes, RefinesBytes, BF!Next
  <2>2. CASE \E keep \in BOOLEAN : Fallocate(t, f, off, len, keep)
    BY Zenon, <2>2, FallocateOne
  <2>3. CASE \E dest \in Files, to \in 0 .. MaxSize - len : CopySize(t, f, off, dest, to, len)
    <3>1. slices' = slices /\ size' = size /\ op'[t].do = "copy read" /\ \A u \in Threads : u = t
      <4>1. PICK dest \in Files, to \in 0 .. MaxSize - len : CopySize(t, f, off, dest, to, len)
        BY Zenon, <2>3
      <4>2. slices' = slices /\ size' = size /\ \A u \in Threads : u = t
        BY Zenon, <4>1 DEF CopySize, OneThread
      <4>3. op'[t].do = "copy read"
        BY Zenon, <4>1 DEF CopySize, IInv, Shape
      <4>4. QED
        BY Zenon, <4>2, <4>3
    <3>2. TruncateIsUpToDate'
      BY Zenon, <3>1 DEF TruncateIsUpToDate
    <3>3. QED
      BY Zenon, <3>1, <3>2, SameOne
  <2>4. QED
    BY Zenon, <1>2, <2>1, <2>2, <2>3
<1>3. ASSUME NEW t \in Threads, CopyRead(t) \/ CopyWrite(t)
      PROVE  OneInv' /\ (Clean => AsBytes)
  <2>1. CASE CopyRead(t)
    BY Zenon, <2>1, CopyingOne, SameOne DEF CopyRead
  <2>2. QED
    BY Zenon, <1>3, <2>1, CopyWriteOne
<1>4. QED
  BY Zenon, <1>1, <1>2, <1>3, TruncateAttrOne, TruncateTxOne DEF Next

(* With one thread, as under FUSE, no slice is left behind the end of a     *)
(* file, for every slice size and bound.                                    *)
THEOREM NothingBehindEnd == OneThread => (Spec => []NoSliceBeyondEnd)
<1> SUFFICES ASSUME OneThread PROVE Spec => []NoSliceBeyondEnd
  OBVIOUS
<1>1. Init => OneInv
  BY Zenon, InitOne
<1>2. IInv /\ OneInv /\ [Next]_vars => OneInv'
  BY Zenon, NextOne
<1>3. OneInv => NoSliceBeyondEnd
  BY Zenon DEF OneInv
<1>4. Spec => []IInv
  BY Zenon, Inductive
<1>5. QED
  BY <1>1, <1>2, <1>3, <1>4, PTL DEF Spec

(* With one thread, and as long as no slice is stored with something of an  *)
(* uninitialised buffer in it, the slices of a file implement a sequence of *)
(* bytes: every write, truncate, allocation and copy has the effect that    *)
(* ByteFile describes.  So they do, whatever the buffers hold, for programs *)
(* that write whole slices.                                                 *)
THEOREM SlicesImplementBytes ==
  OneThread => (Spec /\ [][CleanStep]_vars => ImplementsByteFile)
<1> SUFFICES ASSUME OneThread PROVE Spec /\ [][CleanStep]_vars => ImplementsByteFile
  OBVIOUS
<1>1. Init => OneInv /\ ZerosBehindEnd /\ BF!Init
  BY Zenon, InitOne
<1>2. IInv /\ OneInv /\ [Next]_vars => OneInv'
  BY Zenon, NextOne
<1>3. [CleanStep]_vars => CleanStep
  BY Zenon DEF CleanStep, vars
<1>4. IInv /\ OneInv /\ ZerosBehindEnd /\ [Next]_vars /\ [CleanStep]_vars => AsBytes
  BY Zenon, <1>3, NextOne DEF Clean
<1>5. AsBytes => ZerosBehindEnd' /\ [BF!Next]_([f \in Files |-> Content(f)])
  BY Zenon DEF AsBytes, RefinesBytes
<1>6. Spec => []IInv
  BY Zenon, Inductive
<1>7. QED
  BY <1>1, <1>2, <1>4, <1>5, <1>6, PTL DEF Spec, ImplementsByteFile, BF!Spec

-----------------------------------------------------------------------------
(* What a read from the first slice or a slice boundary returns.            *)

(* A read that begins in the first slice, or where a slice begins. *)
Aligned(off) == off < SliceSize \/ off % SliceSize = 0

(* Where a read from off enters slice x, and where it ends. *)
Enters(x, off) == Greater(off, x * SliceSize)
Ends(f, off, len) == Lesser(off + len, size[f])

AlignedSlice(f, x, off) ==
  /\ Enters(x, off) \in Nat /\ x * SliceSize \in Nat
  /\ Enters(x + 1, off) = x * SliceSize + SliceSize
  /\ Enters(x, off) = x * SliceSize + ValueOffset(x, off)
  /\ off <= Enters(x, off) /\ x * SliceSize <= Enters(x, off)
  /\ Enters(x, off) < x * SliceSize + SliceSize
  /\ SliceBytes(f, x, off) =
       Greater(0, Lesser(size[f], x * SliceSize + SliceSize) - Enters(x, off))

LEMMA Products ==
  ASSUME NEW S \in Nat \ {0}, NEW m \in Nat, NEW n \in Nat, m <= n
  PROVE  /\ m * S \in Nat /\ n * S \in Nat /\ m * S <= n * S
         /\ m < n => m * S + S <= n * S
         /\ (m + 1) * S = m * S + S
OBVIOUS

LEMMA AlignedSlices ==
  ASSUME TypeOK, NEW f \in Files, NEW off \in Nat, Aligned(off), NEW x \in Nat,
         off \div SliceSize <= x
  PROVE  AlignedSlice(f, x, off)
<1> DEFINE S == SliceSize
           first == off \div S
           r == off % S
           q == first * S
           p == x * S
           Z == size[f]
<1>1. S \in Nat \ {0} /\ Z \in Nat
  BY Zenon, FileAssumption, SizeType
<1>2. first \in Nat /\ r \in 0 .. S - 1 /\ off = q + r
  BY Zenon, <1>1, Division
<1>3. q \in Nat /\ p \in Nat /\ q <= p /\ (first < x => q + S <= p) /\ (x + 1) * S = p + S
  BY <1>1, <1>2, Products
<1>4. off < S => q = 0 /\ r = off
  <2>1. q = 0 \/ q >= S
    BY <1>1, <1>2
  <2> HIDE DEF first, r, q
  <2>2. QED
    BY <1>1, <1>2, <1>3, <2>1
<1>5. off < S \/ r = 0
  BY Zenon DEF Aligned
<1>6. first = x => q = p
  BY Zenon
<1>7. first = x \/ first < x
  BY <1>2
<1> HIDE DEF first, r, q, p, S, Z
<1>8. /\ Greater(off, p) \in Nat /\ Greater(off, p + S) = p + S
      /\ Greater(off, p) = p + Greater(0, r - p)
      /\ off <= Greater(off, p) /\ p <= Greater(off, p) /\ Greater(off, p) < p + S
  BY <1>1, <1>2, <1>3, <1>4, <1>5, <1>6, <1>7 DEF Greater
<1>9. Greater(0, Lesser(Z - p, S) - Greater(0, r - p)) =
        Greater(0, Lesser(Z, p + S) - Greater(off, p))
  <2> DEFINE v == Greater(0, r - p)
  <2>1. v \in Nat /\ Greater(off, p) = p + v
    BY <1>2, <1>3, <1>8 DEF Greater
  <2> HIDE DEF v
  <2>2. Greater(0, Lesser(Z - p, S) - v) = Greater(0, Lesser(Z, p + S) - (p + v))
    BY <1>1, <1>3, <2>1 DEF Greater, Lesser
  <2>3. QED
    BY Zenon, <2>1, <2>2 DEF v
<1>10. /\ Enters(x, off) = Greater(off, p) /\ Enters(x + 1, off) = Greater(off, p + S)
       /\ ValueOffset(x, off) = Greater(0, r - p)
       /\ SliceBytes(f, x, off) = Greater(0, Lesser(Z - p, S) - Greater(0, r - p))
  BY Zenon, <1>3 DEF Enters, ValueOffset, SliceBytes, p, r, S, Z
<1>11. QED
  BY Zenon, <1>3, <1>8, <1>9, <1>10 DEF AlignedSlice, p, S, Z

(* A hole from slice a up to slice b, which is not beyond the end of the    *)
(* file, is as long as the bytes between them.                              *)
LEMMA HoleLength ==
  ASSUME TypeOK, NEW f \in Files, NEW off \in Nat, Aligned(off), NEW a \in Nat, NEW b \in Nat,
         off \div SliceSize <= a, a <= b, b * SliceSize <= size[f]
  PROVE  HoleBytes(f, off, a .. b - 1) = Enters(b, off) - Enters(a, off)
<1> DEFINE D == a .. b - 1
           first == off \div SliceSize
<1>1. D \subseteq Nat /\ \A x \in D : x < b
  OBVIOUS
<1>2. first \in Nat /\ SliceSize \in Nat \ {0} /\ size[f] \in Nat
  BY Zenon, FileAssumption, Division, SizeType
<1>inc. \A x \in Nat : x + 1 \in Nat /\ (x + 1) - 1 = x /\ x .. x - 1 = {}
  OBVIOUS
<1> HIDE DEF D, first
<1>3. PICK h : Folds(h, D, Nat, 0, HoleStep(f, off, D)) /\ HoleBytes(f, off, D) = h[D]
  BY Zenon, <1>1, HoleFold
<1>4. \A i \in D, n \in Nat : HoleStep(f, off, D)[<<i, n>>] = SliceBytes(f, i, off) + n
  BY Zenon DEF HoleStep
<1> DEFINE To(m) == a .. m - 1
           T == {m \in Nat : a + m <= b => h[To(a + m)] = Enters(a + m, off) - Enters(a, off)}
<1>5. 0 \in T
  <2>1. a + 0 = a /\ To(a) = {} /\ 0 \in Nat
    BY <1>inc
  <2>2. Enters(a, off) \in Nat
    BY Zenon, AlignedSlices DEF AlignedSlice, first
  <2> DEFINE e == Enters(a, off)
  <2> HIDE DEF e
  <2>3. e - e = 0
    BY <2>2 DEF e
  <2>4. h[{}] = 0
    BY Zenon, <1>3 DEF Folds
  <2> HIDE DEF To
  <2>5. QED
    BY Zenon, <2>1, <2>3, <2>4 DEF e
<1>6. ASSUME NEW n \in Nat, n \in T, a + (n + 1) <= b
      PROVE  h[To(a + (n + 1))] = Enters(a + (n + 1), off) - Enters(a, off)
  <2> DEFINE x == a + n
             s == To(x + 1)
  <2>1. /\ x \in Nat /\ a + (n + 1) = x + 1 /\ x < b /\ a <= x /\ first <= x /\ x + 1 - 1 = x
    BY <1>2, <1>6 DEF first
  <2> HIDE DEF x
  <2>2. x \in D /\ s \subseteq D /\ x \in s /\ s \subseteq Nat /\ (\A y \in s : y <= x) /\ s \ {x} = To(x)
    BY <2>1 DEF D
  <2> HIDE DEF s, To
  <2>3. Largest(s) = x
    BY Zenon, <2>2, LargestIs
  <2>4. To(x) \in SUBSET D /\ s \in SUBSET D /\ s # {}
    BY Zenon, <2>2
  <2>5. h[To(x)] \in Nat
    BY Zenon, <1>3, <2>4 DEF Folds
  <2>6. h[s] = SliceBytes(f, x, off) + h[To(x)]
    BY Zenon, <1>3, <1>4, <2>2, <2>3, <2>4, <2>5 DEF Folds
  <2>7. h[To(x)] = Enters(x, off) - Enters(a, off)
    BY <1>6, <2>1 DEF x
  <2>8. AlignedSlice(f, x, off) /\ Enters(a, off) \in Nat
    BY Zenon, <2>1, AlignedSlices DEF AlignedSlice, first
  <2>9. x * SliceSize + SliceSize <= size[f]
    <3>1. x * SliceSize + SliceSize <= b * SliceSize /\ x * SliceSize \in Nat /\ b * SliceSize \in Nat
      BY <1>2, <2>1, Products
    <3> DEFINE p == x * SliceSize
               q == b * SliceSize
    <3>2. q <= size[f]
      OBVIOUS
    <3> HIDE DEF p, q
    <3>3. p + SliceSize <= size[f]
      BY <1>2, <3>1, <3>2 DEF p, q
    <3>4. QED
      BY Zenon, <3>3 DEF p
  <2>10. h[s] = Enters(x + 1, off) - Enters(a, off)
    <3> DEFINE p == x * SliceSize
               e == Enters(x, off)
               c == Enters(a, off)
               y == Enters(x + 1, off)
    <3>1. /\ p \in Nat /\ e \in Nat /\ c \in Nat /\ y = p + SliceSize /\ e < p + SliceSize
          /\ p + SliceSize <= size[f]
          /\ SliceBytes(f, x, off) = Greater(0, Lesser(size[f], p + SliceSize) - e)
          /\ h[To(x)] = e - c /\ h[s] = SliceBytes(f, x, off) + h[To(x)]
      BY Zenon, <2>6, <2>7, <2>8, <2>9 DEF AlignedSlice
    <3> HIDE DEF p, e, c, y
    <3>2. h[s] = y - c
      BY <1>2, <3>1 DEF Greater, Lesser
    <3>3. QED
      BY Zenon, <3>2 DEF y, c
  <2>11. QED
    BY Zenon, <2>1, <2>10 DEF s
<1>7. \A n \in Nat : n \in T
  <2>1. \A n \in Nat : n \in T => n + 1 \in T
    BY Zenon, <1>6, <1>inc
  <2> HIDE DEF T
  <2>2. QED
    BY Zenon, <1>5, <2>1, Induction
<1>8. b - a \in Nat /\ a + (b - a) = b /\ b <= b
  OBVIOUS
<1>9. h[To(b)] = Enters(b, off) - Enters(a, off)
  <2> HIDE DEF To
  <2>1. b - a \in T
    BY Zenon, <1>7, <1>8
  <2>2. QED
    BY Zenon, <1>8, <2>1
<1>10. QED
  BY Zenon, <1>3, <1>9 DEF D

LEMMA DivisionOf ==
  ASSUME NEW S \in Nat \ {0}, NEW x \in Nat, NEW v \in 0 .. S - 1
  PROVE  (x * S + v) \div S = x /\ (x * S + v) % S = v
<1> DEFINE k == x * S + v
           q == k \div S
           r == k % S
<1>1. x * S \in Nat /\ k \in Nat
  BY Products
<1>2. q \in Nat /\ r \in 0 .. S - 1 /\ k = q * S + r
  BY Zenon, <1>1, Division
<1> HIDE DEF k, q, r
<1>3. q < x => q * S + S <= x * S
  BY <1>2, Products
<1>4. x < q => x * S + S <= q * S
  BY <1>2, Products
<1>5. q * S \in Nat
  BY <1>2, Products
<1> DEFINE a == x * S
           b == q * S
<1>6. a \in Nat /\ b \in Nat /\ a + v = b + r /\ (q < x => b + S <= a) /\ (x < q => a + S <= b)
  BY Zenon, <1>1, <1>2, <1>3, <1>4, <1>5 DEF k
<1>a. x = q => a = b
  BY Zenon
<1> HIDE DEF a, b
<1>7. x = q /\ v = r
  BY <1>2, <1>6, <1>a
<1>8. QED
  BY Zenon, <1>7 DEF k, q, r

(* The bytes that a file's slices hold from off up to e. *)
Stored(f, off, e) == [k \in 1 .. e - off |-> StoredByte(f, off + k - 1)]

LEMMA StoredType ==
  ASSUME TypeOK, NEW f \in Files, NEW off \in Nat, NEW e \in Nat, off <= e, e <= size[f]
  PROVE  Stored(f, off, e) \in Seq(Byte) /\ Len(Stored(f, off, e)) = e - off
<1>1. size[f] \in 0..MaxSize /\ MaxSize \in Nat /\ 0 \in Byte
  BY Zenon, SizeType, FileAssumption
<1>2. ASSUME NEW k \in 1 .. e - off
      PROVE  StoredByte(f, off + k - 1) \in Byte
  <2> DEFINE j == off + k - 1
  <2>1. j \in 0..MaxSize
    BY <1>1
  <2> HIDE DEF j
  <2>2. j \div SliceSize \in Index /\ j % SliceSize \in InSlice
    BY Zenon, <2>1, Positions
  <2>3. slices[f][j \div SliceSize] \in Slice \cup {NoSlice}
    BY Zenon, <2>2 DEF TypeOK
  <2>4. StoredByte(f, j) \in Byte
    BY Zenon, <1>1, <2>2, <2>3 DEF StoredByte, Slice
  <2>5. QED
    BY Zenon, <2>4 DEF j
<1>3. Stored(f, off, e) \in [1 .. e - off -> Byte]
  BY Zenon, <1>2 DEF Stored
<1>4. e - off \in Nat
  OBVIOUS
<1>5. QED
  BY Zenon, <1>3, <1>4, Bytes

LEMMA StoredGrows ==
  ASSUME TypeOK, NEW f \in Files, NEW off \in Nat, NEW p \in Nat, NEW q \in Nat,
         off <= p, p <= q, q <= size[f]
  PROVE  Stored(f, off, p) \o Stored(f, p, q) = Stored(f, off, q)
<1>1. p <= size[f] /\ off <= q
  BY SizeType
<1> DEFINE u == Stored(f, off, p)
           w == Stored(f, off, q)
           z == Stored(f, p, q)
<1>2. /\ u \in Seq(Byte) /\ Len(u) = p - off
      /\ w \in Seq(Byte) /\ Len(w) = q - off
      /\ z \in Seq(Byte) /\ Len(z) = q - p
  BY Zenon, <1>1, StoredType
<1>5. /\ \A k \in 1 .. p - off : u[k] = StoredByte(f, off + k - 1)
      /\ \A k \in 1 .. q - off : w[k] = StoredByte(f, off + k - 1)
      /\ \A k \in 1 .. q - p : z[k] = StoredByte(f, p + k - 1)
  BY Zenon DEF Stored
<1> HIDE DEF u, w, z
<1>4. u \o z \in Seq(Byte) /\ Len(u \o z) = q - off
  <2>1. u \o z \in Seq(Byte) /\ Len(u \o z) = Len(u) + Len(z)
    <3>1. u \in Seq(Byte) /\ z \in Seq(Byte)
      BY Zenon, <1>2
    <3>2. u \o z \in Seq(Byte)
      BY <3>1
    <3>3. Len(u \o z) = Len(u) + Len(z)
      BY <3>1
    <3>4. QED
      BY Zenon, <3>2, <3>3
  <2>2. (p - off) + (q - p) = q - off
    OBVIOUS
  <2>3. QED
    BY Zenon, <1>2, <2>1, <2>2
<1>j. /\ \A k \in 1..Len(u) : (u \o z)[k] = u[k]
      /\ \A k \in 1..Len(z) : (u \o z)[Len(u) + k] = z[k]
  <2>1. u \in Seq(Byte) /\ z \in Seq(Byte)
    BY Zenon, <1>2
  <2>2. \A k \in 1..Len(u) : (u \o z)[k] = u[k]
    BY <2>1
  <2>3. \A k \in 1..Len(z) : (u \o z)[Len(u) + k] = z[k]
    BY <2>1
  <2>4. QED
    BY Zenon, <2>2, <2>3
<1>k. /\ \A k \in 1 .. p - off : (u \o z)[k] = u[k]
      /\ \A k \in 1 .. q - p : (u \o z)[p - off + k] = z[k]
  <2> DEFINE lu == Len(u)
             lz == Len(z)
  <2>1. lu = p - off /\ lz = q - p
    BY Zenon, <1>2
  <2>2. /\ \A k \in 1..lu : (u \o z)[k] = u[k]
        /\ \A k \in 1..lz : (u \o z)[lu + k] = z[k]
    BY Zenon, <1>j
  <2> HIDE DEF lu, lz
  <2>3. QED
    BY Zenon, <2>1, <2>2
<1>6. ASSUME NEW k \in 1 .. q - off
      PROVE  (u \o z)[k] = w[k]
  <2>1. CASE k <= p - off
    <3>a. k \in 1 .. p - off
      BY <2>1
    <3>1. (u \o z)[k] = u[k] /\ k \in 1 .. p - off
      BY Zenon, <1>k, <3>a
    <3>2. QED
      BY Zenon, <1>5, <3>1
  <2>2. CASE k > p - off
    <3> DEFINE j == k - (p - off)
    <3>1. j \in 1 .. q - p /\ p + j - 1 = off + k - 1 /\ (p - off) + j = k
      BY <2>2
    <3> HIDE DEF j
    <3>b. (u \o z)[k] = z[j]
      BY Zenon, <1>k, <3>1
    <3>2. QED
      BY Zenon, <1>5, <3>1, <3>b
  <2>3. k <= p - off \/ k > p - off
    OBVIOUS
  <2>4. QED
    BY Zenon, <2>1, <2>2, <2>3
<1>7. u \o z = w
  <2> DEFINE y == u \o z
  <2>1. y \in Seq(Byte) /\ Len(y) = Len(w) /\ \A k \in 1..Len(w) : y[k] = w[k]
    BY Zenon, <1>2, <1>4, <1>6
  <2> HIDE DEF y
  <2>a. y = [k \in 1..Len(y) |-> y[k]] /\ w = [k \in 1..Len(w) |-> w[k]]
    BY <1>2, <2>1
  <2>2. y = w
    BY Zenon, <2>1, <2>a
  <2>3. QED
    BY Zenon, <2>2 DEF y
<1>8. QED
  BY Zenon, <1>7 DEF u, w, z

(* The bytes up to p are read, and there is a hole from there to slice x. *)
HoleBefore(f, off, len, acc, x, p) ==
  /\ off \div SliceSize <= x /\ Enters(x, off) <= Ends(f, off, len)
  /\ acc.buf = Stored(f, off, p) /\ off <= p /\ p <= Enters(x, off)
  /\ HoleBytes(f, off, acc.next .. x - 1) = Enters(x, off) - p
  /\ \A k \in p .. Enters(x, off) - 1 : StoredByte(f, k) = 0

(* A turn of the loop reads the hole and the slice, up to its end or the    *)
(* end of the read.                                                         *)
LEMMA ReadTurn ==
  ASSUME TypeOK, NEW f \in Files, NEW off \in Nat, Aligned(off), NEW len \in Nat,
         NEW x \in Present(f), NEW acc, NEW p \in Nat, HoleBefore(f, off, len, acc, x, p)
  PROVE  ReadSlice(f, off, len, acc, x).buf =
           Stored(f, off, Lesser(Ends(f, off, len), Enters(x + 1, off)))
<1> DEFINE S == SliceSize
           Z == size[f]
           c == x * S
           q == Enters(x, off)
           v == ValueOffset(x, off)
           E == Ends(f, off, len)
           e == Lesser(E, c + S)
<1>a. off \div SliceSize <= x /\ p <= q /\ q <= E /\ off <= p
  BY Zenon DEF HoleBefore
<1>b. acc.buf = Stored(f, off, p) /\ HoleBytes(f, off, acc.next .. x - 1) = q - p
  BY Zenon DEF HoleBefore
<1>c. \A k \in p .. q - 1 : StoredByte(f, k) = 0
  BY Zenon DEF HoleBefore
<1>1. x \in Nat /\ x \in Index /\ slices[f][x] \in Slice /\ slices[f][x] # NoSlice
  <2>1. x \in Index /\ slices[f][x] # NoSlice
    BY Zenon DEF Present
  <2>2. slices[f][x] \in Slice
    BY Zenon, <2>1 DEF TypeOK
  <2>3. QED
    BY <2>1, <2>2 DEF Index
<1>2. S \in Nat \ {0} /\ Z \in Nat /\ E = Lesser(off + len, Z)
  BY Zenon, FileAssumption, SizeType DEF Ends
<1>3. v \in Nat
  BY Zenon, <1>1, SliceBytesType
<1>4. /\ q \in Nat /\ c \in Nat /\ Enters(x + 1, off) = c + S /\ q = c + v /\ q < c + S
      /\ off <= q /\ SliceBytes(f, x, off) = Greater(0, Lesser(Z, c + S) - q)
  BY Zenon, <1>a, <1>1, AlignedSlices DEF AlignedSlice
<1>5. off <= p /\ p <= q /\ q <= E
  BY Zenon, <1>a
<1> HIDE DEF S, Z, c, q, v, E
<1>6. E \in Nat /\ e \in Nat /\ q <= e /\ e <= Z /\ q <= Z /\ p <= Z /\ e <= c + S
  BY <1>2, <1>4, <1>5 DEF Lesser
<1>7. Len(Stored(f, off, p)) = p - off /\ Len(Stored(f, off, q)) = q - off
  BY Zenon, <1>4, <1>5, <1>6, StoredType DEF Z
<1>8. Lesser(len - (p - off), q - p) = q - p
  BY <1>2, <1>4, <1>5 DEF Lesser
<1>9. Stored(f, off, p) \o Zeros(q - p) = Stored(f, off, q)
  <2> DEFINE s == Zeros(q - p)
  <2>1. \A k \in 1 .. q - p : p + k - 1 \in p .. q - 1
    BY <1>4
  <2>2. \A k \in 1 .. q - p : StoredByte(f, p + k - 1) = 0
    BY Zenon, <1>c, <2>1
  <2>3. s = Stored(f, p, q)
    BY Zenon, <2>2 DEF Stored, Zeros
  <2>4. Stored(f, off, p) \o Stored(f, p, q) = Stored(f, off, q)
    <3>1. off <= p /\ p <= q /\ q <= size[f] /\ q \in Nat
      BY Zenon, <1>4, <1>5, <1>6 DEF Z
    <3> HIDE DEF q
    <3>2. QED
      BY Zenon, <3>1, StoredGrows
  <2>5. QED
    BY Zenon, <2>3, <2>4
<1>10. Lesser(len - (q - off), SliceBytes(f, x, off)) = e - q
  <2> DEFINE b == SliceBytes(f, x, off)
  <2>1. b = Greater(0, Lesser(Z, c + S) - q)
    BY Zenon, <1>4
  <2> HIDE DEF b
  <2>2. b = Lesser(Z, c + S) - q
    BY <1>2, <1>4, <1>6, <2>1 DEF Lesser, Greater
  <2>3. Lesser(len - (q - off), b) = e - q
    BY <1>2, <1>4, <1>5, <1>6, <2>2 DEF Lesser
  <2>4. QED
    BY Zenon, <2>3 DEF b
<1> HIDE DEF e
<1> DEFINE s == [k \in 1 .. e - q |-> slices[f][x][v + k - 1]]
<1>12. ASSUME NEW k \in 1 .. e - q
       PROVE  slices[f][x][v + k - 1] = StoredByte(f, q + k - 1)
  <2> DEFINE w == v + k - 1
  <2>1. w \in 0 .. S - 1 /\ q + k - 1 = c + w
    BY <1>2, <1>3, <1>4, <1>6
  <2> HIDE DEF w
  <2>2. (c + w) \div S = x /\ (c + w) % S = w
    BY Zenon, <1>1, <1>2, <2>1, DivisionOf DEF c
  <2>3. StoredByte(f, c + w) = slices[f][x][w]
    BY Zenon, <1>1, <2>2 DEF StoredByte, S
  <2>4. QED
    BY Zenon, <2>1, <2>3 DEF w
<1>13. Stored(f, off, q) \o s = Stored(f, off, e)
  <2>1. s = Stored(f, q, e)
    BY Zenon, <1>12 DEF Stored
  <2>2. Stored(f, off, q) \o Stored(f, q, e) = Stored(f, off, e)
    <3>1. off <= q /\ q <= e /\ e <= size[f] /\ q \in Nat /\ e \in Nat
      BY Zenon, <1>4, <1>5, <1>6 DEF Z
    <3>2. QED
      BY Zenon, <3>1, StoredGrows
  <2>3. QED
    BY Zenon, <2>1, <2>2
<1> HIDE DEF s
<1> DEFINE filled == acc.buf \o Zeros(Lesser(len - Len(acc.buf), HoleBytes(f, off, acc.next .. x - 1)))
           n == Lesser(len - Len(filled), SliceBytes(f, x, off))
<1>14. filled = Stored(f, off, q)
  BY Zenon, <1>b, <1>7, <1>8, <1>9
<1>15. n = e - q
  BY Zenon, <1>7, <1>10, <1>14
<1>16. ReadSlice(f, off, len, acc, x).buf =
         filled \o [k \in 1..n |-> slices[f][x][ValueOffset(x, off) + k - 1]]
  BY Zenon DEF ReadSlice
<1>17. ReadSlice(f, off, len, acc, x).buf = Stored(f, off, e)
  <2> HIDE DEF filled, n
  <2>1. [k \in 1..n |-> slices[f][x][ValueOffset(x, off) + k - 1]] = s
    BY Zenon, <1>15 DEF s, v
  <2>2. QED
    BY Zenon, <1>13, <1>14, <1>16, <2>1
<1>18. QED
  BY Zenon, <1>4, <1>17 DEF e, E

(* A read that meets one gap, the slices from i up to j. *)
Gap(f, off, len, i, j) ==
  /\ off \div SliceSize <= i /\ i <= j
  /\ off < Ends(f, off, len) /\ j * SliceSize < Ends(f, off, len)
  /\ \A x \in Nat : off \div SliceSize <= x /\ x * SliceSize < Ends(f, off, len) =>
       (x \in Present(f) <=> ~(i <= x /\ x < j))

(* What the loop has read before slice n. *)
GapInv(f, off, len, i, j, n, acc) ==
  /\ n <= i => acc.next = n /\ acc.buf = Stored(f, off, Enters(n, off))
  /\ i < n /\ n <= j => acc.next = i /\ acc.buf = Stored(f, off, Enters(i, off))
  /\ j < n => /\ n * SliceSize <= Ends(f, off, len) => n <= acc.next
              /\ acc.buf = Stored(f, off, Lesser(Ends(f, off, len), Enters(n, off)))

LEMMA GapIsZeros ==
  ASSUME TypeOK, NEW f \in Files, NEW off \in Nat, Aligned(off), NEW len \in Nat,
         NEW i \in Nat, NEW j \in Nat, Gap(f, off, len, i, j), i < j,
         NEW k \in Enters(i, off) .. Enters(j, off) - 1
  PROVE  StoredByte(f, k) = 0
<1> DEFINE S == SliceSize
           first == off \div S
           x == k \div S
           E == Ends(f, off, len)
<1>1. /\ S \in Nat \ {0} /\ first \in Nat /\ size[f] \in Nat /\ size[f] \in 0..MaxSize
      /\ E = Lesser(off + len, size[f]) /\ MaxSize \in Nat
  BY Zenon, FileAssumption, Division, SizeType DEF Ends
<1>2. first <= i /\ i <= j /\ j * S < E
  BY Zenon DEF Gap
<1>3. Enters(i, off) \in Nat /\ i * S \in Nat /\ i * S <= Enters(i, off)
  BY Zenon, <1>2, AlignedSlices DEF AlignedSlice
<1>4. Enters(j, off) = j * S /\ j * S \in Nat
  <2>1. j - 1 \in Nat /\ first <= j - 1 /\ (j - 1) + 1 = j
    BY <1>1, <1>2
  <2> HIDE DEF first
  <2>2. Enters((j - 1) + 1, off) = (j - 1) * S + S
    BY Zenon, <2>1, AlignedSlices DEF AlignedSlice, first
  <2>3. (j - 1 + 1) * S = (j - 1) * S + S
    BY <1>1, <2>1, Products
  <2>4. j * S \in Nat
    BY <1>1, Products
  <2>5. QED
    BY Zenon, <2>1, <2>2, <2>3, <2>4
<1>5. k \in Nat /\ i * S <= k /\ k < j * S /\ k \in 0..MaxSize
  <2> DEFINE a == i * S
             b == j * S
  <2>1. a \in Nat /\ b \in Nat /\ a <= Enters(i, off) /\ Enters(j, off) = b /\ b < E
    BY Zenon, <1>2, <1>3, <1>4
  <2> HIDE DEF a, b, S, E
  <2>2. k \in Nat /\ a <= k /\ k < b /\ k \in 0..MaxSize
    BY <1>1, <1>3, <2>1 DEF Lesser
  <2>3. QED
    BY Zenon, <2>2 DEF a, b
<1>6. x \in Nat /\ x \in Index
  BY Zenon, <1>5, Positions
<1>7. i <= x /\ x < j
  <2>1. i <= x
    BY Zenon, <1>1, <1>5, BeginBefore
  <2>2. ~(j * S <= k)
    BY <1>4, <1>5
  <2>3. ~(j <= x)
    BY Zenon, <1>1, <1>5, <2>2, BeginBefore
  <2> HIDE DEF x
  <2>4. QED
    BY <1>6, <2>1, <2>3
<1>8. first <= x /\ x * S < E
  <2> HIDE DEF x
  <2>1. x * S <= j * S /\ x * S \in Nat
    BY <1>1, <1>6, <1>7, Products
  <2>2. first <= x
    BY <1>1, <1>2, <1>6, <1>7
  <2> DEFINE a == x * S
             b == j * S
  <2>3. a \in Nat /\ b \in Nat /\ a <= b /\ b < E
    BY Zenon, <1>2, <1>4, <2>1
  <2>4. E \in Nat
    BY <1>1 DEF Lesser
  <2> HIDE DEF a, b, S, E, first
  <2>5. a < E
    BY <2>3, <2>4
  <2>6. QED
    BY Zenon, <2>2, <2>5 DEF a
<1>9. x \notin Present(f)
  BY Zenon, <1>6, <1>7, <1>8 DEF Gap
<1>10. QED
  BY Zenon, <1>6, <1>9 DEF Present, StoredByte

(* The loop turns to slice n. *)
LEMMA GapTurn ==
  ASSUME TypeOK, NEW f \in Files, NEW off \in Nat, Aligned(off), NEW len \in Nat,
         NEW i \in Nat, NEW j \in Nat, Gap(f, off, len, i, j),
         NEW n \in Present(f), off \div SliceSize <= n, n * SliceSize <= Ends(f, off, len),
         NEW acc \in Acc(len), GapInv(f, off, len, i, j, n, acc)
  PROVE  GapInv(f, off, len, i, j, n + 1, ReadSlice(f, off, len, acc, n))
<1> DEFINE S == SliceSize
           first == off \div S
           E == Ends(f, off, len)
           a == acc.next
           r == ReadSlice(f, off, len, acc, n)
           e == Lesser(E, Enters(n + 1, off))
<1>1. S \in Nat \ {0} /\ first \in Nat /\ size[f] \in Nat /\ E = Lesser(off + len, size[f])
  BY Zenon, FileAssumption, Division, SizeType DEF Ends
<1>2. first <= i /\ i <= j /\ j * S < E /\ off < E /\ n * S <= E
  BY Zenon DEF Gap
<1>3. n \in Nat /\ a \in Nat
  BY Zenon, PresentBound DEF Acc
<1>4. E \in Nat /\ E <= size[f]
  BY <1>1 DEF Lesser
<1>5. /\ Enters(n, off) \in Nat /\ off <= Enters(n, off) /\ n * S \in Nat
      /\ Enters(n + 1, off) = n * S + S
  BY Zenon, <1>3, AlignedSlices DEF AlignedSlice
<1>6. Enters(n, off) <= E /\ n * S <= size[f]
  <2> DEFINE c == n * S
  <2>1. c \in Nat /\ c <= E
    BY Zenon, <1>2, <1>5
  <2> HIDE DEF c, E, S
  <2>2. Greater(off, c) <= E /\ c <= size[f]
    BY <1>1, <1>2, <1>4, <2>1 DEF Greater
  <2>3. QED
    BY Zenon, <2>2 DEF Enters, c, S
<1>7. r.next = IF n = a THEN n + 1 ELSE n + 2
  BY Zenon DEF ReadSlice
<1> HIDE DEF r
<1>8. r.next \in Nat /\ n + 1 <= r.next
  BY <1>3, <1>7
<1>9. ASSUME n <= a, acc.buf = Stored(f, off, Enters(n, off))
      PROVE  r.buf = Stored(f, off, e)
  <2> DEFINE p == Enters(n, off)
  <2>1. a .. n - 1 = n .. n - 1 /\ n <= n
    BY <1>3, <1>9
  <2>2. HoleBytes(f, off, n .. n - 1) = p - p
    BY Zenon, <1>3, <1>6, <2>1, HoleLength
  <2>3. HoleBytes(f, off, acc.next .. n - 1) = p - p
    BY Zenon, <2>1, <2>2
  <2>4. p <= p /\ \A k \in p .. p - 1 : StoredByte(f, k) = 0
    BY <1>5
  <2>5. HoleBefore(f, off, len, acc, n, p)
    BY Zenon, <1>5, <1>6, <1>9, <2>3, <2>4 DEF HoleBefore
  <2>6. p \in Nat
    BY Zenon, <1>5
  <2> HIDE DEF p
  <2>7. QED
    BY <2>5, <2>6, ReadTurn DEF r
<1>10. CASE i < n /\ n <= j
  <2>1. n = j
    <3>1. n < j => n * S < E
      <4>1. n < j => n * S <= j * S
        BY <1>1, <1>3, Products
      <4>2. j * S \in Nat
        BY <1>1, Products
      <4> DEFINE c == n * S
                 d == j * S
      <4> HIDE DEF c, d, E, S
      <4>3. n < j => c < E
        BY <1>2, <1>4, <1>5, <4>1, <4>2 DEF c, d
      <4>4. QED
        BY Zenon, <4>3 DEF c
    <3>2. i <= n
      BY <1>3, <1>10
    <3>3. ~(n < j)
      BY Zenon, <1>3, <3>1, <3>2 DEF Gap
    <3>4. QED
      BY <1>3, <1>10, <3>3
  <2>2. a = i /\ acc.buf = Stored(f, off, Enters(i, off))
    BY Zenon, <1>10 DEF GapInv
  <2>3. HoleBytes(f, off, a .. n - 1) = Enters(n, off) - Enters(i, off)
    BY Zenon, <1>2, <1>3, <1>6, <2>1, <2>2, HoleLength
  <2>4. Enters(i, off) \in Nat /\ off <= Enters(i, off)
    BY Zenon, <1>2, AlignedSlices DEF AlignedSlice
  <2>5. Enters(i, off) <= Enters(n, off)
    <3>1. i * S <= n * S /\ i * S \in Nat
      BY Zenon, <1>1, <1>2, <1>3, <2>1, Products
    <3> DEFINE c == n * S
               d == i * S
    <3> HIDE DEF c, d
    <3>2. Greater(off, d) <= Greater(off, c)
      BY <1>5, <3>1 DEF Greater, c, d
    <3>3. QED
      BY Zenon, <3>2 DEF Enters, c, d
  <2>6. \A k \in Enters(i, off) .. Enters(n, off) - 1 : StoredByte(f, k) = 0
    <3>1. i < j
      BY Zenon, <1>10, <2>1
    <3>2. \A k \in Enters(i, off) .. Enters(j, off) - 1 : StoredByte(f, k) = 0
      BY Zenon, <3>1, GapIsZeros
    <3>3. QED
      BY Zenon, <2>1, <3>2
  <2>7. r.buf = Stored(f, off, e)
    <3>1. HoleBefore(f, off, len, acc, n, Enters(i, off))
      BY Zenon, <1>6, <2>2, <2>3, <2>4, <2>5, <2>6 DEF HoleBefore
    <3>2. QED
      BY <2>4, <3>1, ReadTurn DEF r
  <2>8. ~(n + 1 <= i) /\ ~(n + 1 <= j)
    BY <1>2, <1>3, <2>1
  <2>9. QED
    BY Zenon, <1>8, <2>7, <2>8 DEF GapInv, r
<1>11. CASE ~(i < n /\ n <= j)
  <2>1. n <= a /\ acc.buf = Stored(f, off, Enters(n, off))
    <3>1. CASE n <= i
      <4>1. a = n /\ acc.buf = Stored(f, off, Enters(n, off))
        BY Zenon, <3>1 DEF GapInv
      <4>2. n <= n
        BY <1>3
      <4>3. QED
        BY Zenon, <4>1, <4>2
    <3>2. CASE j < n
      <4>1. n <= a /\ acc.buf = Stored(f, off, Lesser(E, Enters(n, off)))
        BY Zenon, <3>2 DEF GapInv
      <4>2. Lesser(E, Enters(n, off)) = Enters(n, off)
        <5> DEFINE c == Enters(n, off)
        <5> HIDE DEF c, E
        <5>1. Lesser(E, c) = c
          BY <1>4, <1>5, <1>6 DEF Lesser, c
        <5>2. QED
          BY Zenon, <5>1 DEF c
      <4>3. QED
        BY Zenon, <4>1, <4>2
    <3>3. QED
      BY <1>3, <1>11, <3>1, <3>2
  <2>2. r.buf = Stored(f, off, e)
    BY Zenon, <1>9, <2>1
  <2>3. CASE n + 1 <= i
    <3>1. n <= i /\ ~(i < n + 1) /\ ~(j < n + 1) /\ n < j
      BY <1>2, <1>3, <2>3
    <3>2. n = a
      BY Zenon, <3>1 DEF GapInv
    <3>3. e = Enters(n + 1, off)
      <4>1. n * S + S <= j * S /\ j * S \in Nat
        BY <1>1, <1>3, <3>1, Products
      <4> DEFINE c == n * S
                 d == j * S
      <4>2. c \in Nat /\ d \in Nat /\ c + S <= d /\ d < E /\ Enters(n + 1, off) = c + S
        BY Zenon, <1>2, <1>5, <4>1
      <4> HIDE DEF c, d, E, S
      <4>3. Lesser(E, c + S) = c + S
        BY <1>1, <1>4, <4>2 DEF Lesser
      <4>4. QED
        BY Zenon, <4>2, <4>3
    <3>4. r.next = n + 1
      BY Zenon, <1>7, <3>2
    <3>5. QED
      BY Zenon, <2>2, <3>1, <3>3, <3>4 DEF GapInv, r
  <2>4. CASE i < n + 1 /\ n + 1 <= j
    <3>1. i <= n /\ n < j
      BY <1>3, <2>4
    <3>2. n * S < E
      <4>1. n * S <= j * S /\ j * S \in Nat
        BY <1>1, <1>3, <3>1, Products
      <4> DEFINE c == n * S
                 d == j * S
      <4> HIDE DEF c, d, E, S
      <4>2. c < E
        BY <1>2, <1>4, <1>5, <4>1 DEF c, d
      <4>3. QED
        BY Zenon, <4>2 DEF c
    <3>3. FALSE
      BY Zenon, <1>3, <3>1, <3>2 DEF Gap
    <3>4. QED
      BY Zenon, <3>3
  <2>5. CASE j < n + 1
    <3>1. ~(n + 1 <= i) /\ ~(n + 1 <= j)
      BY <1>2, <1>3, <2>5
    <3>2. QED
      BY Zenon, <1>8, <2>2, <3>1 DEF GapInv, r
  <2>6. QED
    BY <1>3, <2>3, <2>4, <2>5
<1>12. QED
  BY Zenon, <1>10, <1>11

(* The loop passes over slice n. *)
LEMMA GapSkip ==
  ASSUME TypeOK, NEW f \in Files, NEW off \in Nat, Aligned(off), NEW len \in Nat,
         NEW i \in Nat, NEW j \in Nat, Gap(f, off, len, i, j),
         NEW n \in Nat, off \div SliceSize <= n,
         ~(n \in Present(f) /\ n * SliceSize <= Ends(f, off, len)),
         NEW acc, GapInv(f, off, len, i, j, n, acc)
  PROVE  GapInv(f, off, len, i, j, n + 1, acc)
<1> DEFINE S == SliceSize
           first == off \div S
           E == Ends(f, off, len)
           c == n * S
           d == j * S
<1>1. S \in Nat \ {0} /\ first \in Nat /\ size[f] \in Nat /\ E = Lesser(off + len, size[f])
  BY Zenon, FileAssumption, Division, SizeType DEF Ends
<1>2. first <= i /\ i <= j /\ d < E /\ off < E
  BY Zenon DEF Gap
<1>3. E \in Nat
  BY <1>1 DEF Lesser
<1>4. c \in Nat /\ d \in Nat /\ (n <= j => c <= d) /\ (n + 1) * S = c + S
  BY <1>1, Products
<1>5. c < E => i <= n /\ n < j
  <2>1. c < E => c <= E
    <3> HIDE DEF c, E
    <3>1. QED
      BY <1>3, <1>4
  <2>2. c < E => n \notin Present(f)
    BY Zenon, <2>1
  <2>3. QED
    BY Zenon, <2>2 DEF Gap
<1>6. Enters(n + 1, off) = c + S /\ Enters(n, off) \in Nat /\ c <= Enters(n, off)
  BY Zenon, AlignedSlices DEF AlignedSlice
<1> HIDE DEF c, d, E, S, first
<1>7. CASE n <= j
  <2>1. i <= n /\ n < j
    BY <1>2, <1>3, <1>4, <1>5, <1>7
  <2>2. acc.next = i /\ acc.buf = Stored(f, off, Enters(i, off))
    <3>1. CASE n = i
      <4>1. n <= i
        BY <3>1
      <4>2. QED
        BY Zenon, <3>1, <4>1 DEF GapInv
    <3>2. CASE n # i
      <4>1. i < n /\ n <= j
        BY <2>1, <3>2
      <4>2. QED
        BY Zenon, <4>1 DEF GapInv
    <3>3. QED
      BY Zenon, <3>1, <3>2
  <2>3. ~(n + 1 <= i) /\ ~(j < n + 1)
    BY <2>1
  <2>4. QED
    BY Zenon, <2>2, <2>3 DEF GapInv
<1>8. CASE j < n
  <2>1. ~(c < E)
    BY <1>5, <1>8
  <2>2. acc.buf = Stored(f, off, Lesser(E, Enters(n, off)))
    BY Zenon, <1>8 DEF GapInv, E
  <2>3. Lesser(E, Enters(n, off)) = E /\ Lesser(E, c + S) = E /\ ~(c + S <= E)
    <3> DEFINE e == Enters(n, off)
    <3>1. e \in Nat /\ c <= e
      BY Zenon, <1>6
    <3> HIDE DEF e
    <3>2. Lesser(E, e) = E /\ Lesser(E, c + S) = E /\ ~(c + S <= E)
      BY <1>1, <1>3, <1>4, <2>1, <3>1 DEF Lesser
    <3>3. QED
      BY Zenon, <3>2 DEF e
  <2>4. ~(n + 1 <= i) /\ ~(n + 1 <= j)
    BY <1>2, <1>8
  <2>5. QED
    BY Zenon, <1>4, <1>6, <2>2, <2>3, <2>4 DEF GapInv, E, S
<1>9. QED
  BY <1>7, <1>8

(* The slices that a read loops over are those that begin before its end,   *)
(* and the one that begins there.                                           *)
LEMMA ReadsOver ==
  ASSUME TypeOK, NEW f \in Files, NEW off \in Nat, NEW len \in Nat, NEW x \in Nat
  PROVE  x \in ReadOver(f, off, len) <=>
           x \in Present(f) /\ off \div SliceSize <= x /\ x * SliceSize <= Ends(f, off, len)
<1> DEFINE S == SliceSize
           Z == size[f]
           first == off \div S
           a == (off + len) \div S
           b == Z \div S
           c == x * S
<1>1. S \in Nat \ {0} /\ Z \in Nat /\ off + len \in Nat
  BY FileAssumption, SizeType
<1>2. first \in Nat /\ a \in Nat /\ b \in Nat /\ c \in Nat
  <2>1. first \in Nat /\ a \in Nat /\ b \in Nat
    BY Zenon, <1>1, Division
  <2>2. c \in Nat
    BY <1>1, Products
  <2>3. QED
    BY Zenon, <2>1, <2>2
<1>3. (x <= a <=> c <= off + len) /\ (x <= b <=> c <= Z)
  BY Zenon, <1>1, BeginBefore
<1>4. Ends(f, off, len) = Lesser(off + len, Z)
  BY Zenon DEF Ends
<1>5. ReadOver(f, off, len) = Present(f) \cap first .. Lesser(a, b)
  BY Zenon DEF ReadOver
<1> HIDE DEF S, Z, first, a, b, c
<1>6. x \in first .. Lesser(a, b) <=> first <= x /\ x <= a /\ x <= b
  BY <1>2 DEF Lesser
<1>7. c <= Lesser(off + len, Z) <=> c <= off + len /\ c <= Z
  BY <1>1, <1>2 DEF Lesser
<1>8. QED
  BY Zenon, <1>3, <1>4, <1>5, <1>6, <1>7 DEF c, S, first

LEMMA GapRead ==
  ASSUME TypeOK, NEW f \in Files, NEW off \in Nat, Aligned(off), NEW len \in Nat,
         NEW i \in Nat, NEW j \in Nat, Gap(f, off, len, i, j)
  PROVE  Read(f, off, len) = Stored(f, off, Ends(f, off, len))
<1> DEFINE S == SliceSize
           first == off \div S
           E == Ends(f, off, len)
           P == ReadOver(f, off, len)
<1>1. S \in Nat \ {0} /\ first \in Nat /\ size[f] \in Nat /\ E = Lesser(off + len, size[f])
  BY Zenon, FileAssumption, Division, SizeType DEF Ends
<1>2. first <= i /\ i <= j /\ j * S < E /\ off < E
  BY Zenon DEF Gap
<1>3. E \in Nat /\ E <= size[f] /\ ~(off >= size[f])
  <2> HIDE DEF E
  <2>1. QED
    BY <1>1, <1>2 DEF Lesser
<1>4. P \subseteq Nat
  BY Zenon, PresentBound DEF ReadOver
<1>5. \A x \in Nat : x \in P <=> x \in Present(f) /\ first <= x /\ x * S <= E
  BY Zenon, ReadsOver
<1>6. PICK h : /\ Folds(h, P, Acc(len), ReadStart(off), ReadStep(f, off, len, P))
               /\ Read(f, off, len) = IF off >= size[f] THEN <<>> ELSE h[P].buf
  BY Zenon, ReadFold
<1>7. \A n \in P, acc \in Acc(len) :
        ReadStep(f, off, len, P)[<<n, acc>>] = ReadSlice(f, off, len, acc, n)
  BY Zenon DEF ReadStep
<1> HIDE DEF P
<1> DEFINE At(n) == h[Below(P, n)]
           T == {n \in Nat : first <= n => GapInv(f, off, len, i, j, n, At(n))}
<1>8. GapInv(f, off, len, i, j, first, At(first))
  <2>1. Below(P, first) = {}
    <3>1. \A x \in Nat : ~(first <= x /\ x < first)
      BY <1>1
    <3>2. QED
      BY Zenon, <1>4, <1>5, <3>1 DEF Below
  <2>2. At(first) = ReadStart(off)
    BY Zenon, <1>6, <2>1 DEF Folds
  <2>3. Enters(first, off) = off
    <3>1. first * S \in Nat /\ off = first * S + (off % S) /\ off % S \in 0 .. S - 1
      <4>1. off = first * S + (off % S) /\ off % S \in 0 .. S - 1
        BY Zenon, <1>1, Division
      <4> HIDE DEF first, S
      <4>2. first * S \in Nat
        BY <1>1
      <4>3. QED
        BY Zenon, <4>1, <4>2
    <3> DEFINE c == first * S
               r == off % S
    <3>a. c \in Nat /\ off = c + r /\ r \in 0 .. S - 1
      BY Zenon, <3>1
    <3> HIDE DEF c, r, first, S
    <3>2. Greater(off, c) = off
      BY <1>1, <3>a DEF Greater
    <3>3. QED
      BY Zenon, <3>2 DEF Enters, c, S
  <2>4. Stored(f, off, off) = <<>>
    <3>1. 1 .. off - off = {}
      OBVIOUS
    <3>2. Stored(f, off, off) = [k \in {} |-> StoredByte(f, off + k - 1)]
      BY Zenon, <3>1 DEF Stored
    <3>3. QED
      BY <3>2
  <2>5. ~(i < first) /\ ~(j < first)
    BY <1>1, <1>2
  <2>6. At(first).next = first /\ At(first).buf = <<>>
    <3> HIDE DEF At
    <3>1. QED
      BY <2>2 DEF ReadStart
  <2> HIDE DEF At
  <2>7. QED
    BY Zenon, <2>3, <2>4, <2>5, <2>6 DEF GapInv
<1>9. \A n \in Nat : Below(P, n) \in SUBSET P
  BY Zenon DEF Below
<1>10. ASSUME NEW n \in Nat, first <= n, GapInv(f, off, len, i, j, n, At(n))
       PROVE  GapInv(f, off, len, i, j, n + 1, At(n + 1))
  <2>1. At(n) \in Acc(len)
    BY Zenon, <1>6, <1>9 DEF Folds
  <2>2. CASE n \in P
    <3> DEFINE s == Below(P, n + 1)
    <3>1. n \in s /\ s \ {n} = Below(P, n) /\ n + 1 \in Nat
      <4>1. n + 1 \in Nat /\ n < n + 1 /\ \A x \in Nat : x < n <=> x < n + 1 /\ x # n
        OBVIOUS
      <4>2. QED
        BY Zenon, <1>4, <2>2, <4>1 DEF Below
    <3>2. Largest(s) = n
      <4>1. s \in SUBSET Below(P, n + 1)
        OBVIOUS
      <4> HIDE DEF s
      <4>2. QED
        BY Zenon, <1>4, <3>1, <4>1, TakeLargest
    <3>3. s \in SUBSET P /\ s # {}
      BY Zenon, <1>9, <3>1
    <3>4. At(n + 1) = ReadSlice(f, off, len, At(n), n)
      BY Zenon, <1>6, <1>7, <2>1, <2>2, <3>1, <3>2, <3>3 DEF Folds
    <3>5. n \in Present(f) /\ n * S <= E
      BY Zenon, <1>5, <2>2
    <3> HIDE DEF At
    <3>6. GapInv(f, off, len, i, j, n + 1, ReadSlice(f, off, len, At(n), n))
      BY Zenon, <1>10, <2>1, <3>5, GapTurn
    <3>7. QED
      BY Zenon, <3>4, <3>6
  <2>3. CASE n \notin P
    <3>1. Below(P, n + 1) = Below(P, n)
      <4>1. \A x \in Nat : x < n <=> x < n + 1 /\ x # n
        OBVIOUS
      <4>2. QED
        BY Zenon, <1>4, <2>3, <4>1 DEF Below
    <3>2. ~(n \in Present(f) /\ n * S <= E)
      BY Zenon, <1>5, <1>10, <2>3
    <3>3. At(n + 1) = At(n)
      BY Zenon, <3>1
    <3> HIDE DEF At
    <3>4. GapInv(f, off, len, i, j, n + 1, At(n))
      BY Zenon, <1>10, <3>2, GapSkip
    <3>5. QED
      BY Zenon, <3>3, <3>4
  <2>4. QED
    BY Zenon, <2>2, <2>3
<1>11. \A n \in Nat : n \in T
  <2>1. 0 \in T
    <3>1. first <= 0 => first = 0
      BY <1>1
    <3>2. 0 \in Nat
      OBVIOUS
    <3> HIDE DEF At, first
    <3>3. QED
      BY Zenon, <1>8, <3>1, <3>2
  <2>2. ASSUME NEW n \in Nat, n \in T
        PROVE  n + 1 \in T
    <3>1. n + 1 \in Nat /\ (first <= n + 1 => first <= n \/ first = n + 1)
      BY <1>1
    <3> HIDE DEF At, first
    <3>2. QED
      BY Zenon, <1>8, <1>10, <2>2, <3>1
  <2> HIDE DEF T
  <2>3. QED
    BY Zenon, <2>1, <2>2, Induction
<1>12. Below(P, E + 1) = P
  <2>1. \A x \in Nat : x <= x * S /\ x * S \in Nat
    BY <1>1
  <2>2. ASSUME NEW x \in P PROVE x < E + 1
    <3>1. x \in Nat /\ x * S <= E
      BY Zenon, <1>4, <1>5
    <3>2. x <= x * S /\ x * S \in Nat
      BY Zenon, <2>1, <3>1
    <3> DEFINE c == x * S
    <3> HIDE DEF c, E, S
    <3>3. x < E + 1
      BY <1>3, <3>1, <3>2 DEF c
    <3>4. QED
      BY Zenon, <3>3
  <2>3. QED
    BY Zenon, <2>2 DEF Below
<1>13. GapInv(f, off, len, i, j, E + 1, h[P])
  <2>1. first <= E + 1 /\ E + 1 \in Nat
    <3>1. first <= j /\ j <= j * S /\ j * S \in Nat
      BY <1>1, <1>2
    <3> DEFINE c == j * S
    <3> HIDE DEF c, E, S, first
    <3>2. QED
      BY <1>1, <1>2, <1>3, <3>1 DEF c
  <2>2. E + 1 \in T
    BY Zenon, <1>11, <2>1
  <2>3. QED
    BY Zenon, <1>12, <2>1, <2>2
<1>14. h[P].buf = Stored(f, off, E)
  <2>1. j < E + 1
    <3>1. j <= j * S /\ j * S \in Nat
      BY <1>1
    <3> DEFINE c == j * S
    <3> HIDE DEF c, E, S
    <3>2. QED
      BY <1>2, <1>3, <3>1 DEF c
  <2>2. h[P].buf = Stored(f, off, Lesser(E, Enters(E + 1, off)))
    BY Zenon, <1>13, <2>1 DEF GapInv
  <2>3. Lesser(E, Enters(E + 1, off)) = E
    <3>1. E + 1 \in Nat /\ E + 1 <= (E + 1) * S /\ (E + 1) * S \in Nat
      BY <1>1, <1>3
    <3> DEFINE c == (E + 1) * S
    <3> HIDE DEF c, E
    <3>2. Lesser(E, Greater(off, c)) = E
      BY <1>3, <3>1 DEF Greater, Lesser, c
    <3>3. QED
      BY Zenon, <3>2 DEF Enters, c
  <2>4. QED
    BY Zenon, <2>2, <2>3
<1>15. QED
  BY Zenon, <1>3, <1>6, <1>14

(* Where there is one gap. *)
LEMMA GapFound ==
  ASSUME TypeOK, NEW f \in Files, NEW off \in Nat, NEW len \in Nat \ {0},
         off < size[f], OneGap(f, off, len)
  PROVE  \E i \in Nat, j \in Nat : Gap(f, off, len, i, j)
<1> DEFINE S == SliceSize
           Z == size[f]
           E == Ends(f, off, len)
           first == off \div S
           lm == (E - 1) \div S
           M == first .. lm
<1>1. S \in Nat \ {0} /\ Z \in Nat /\ off < Z /\ E = Lesser(off + len, Z)
  BY Zenon, FileAssumption, SizeType DEF Ends
<1>2. E \in Nat /\ off < E /\ E - 1 \in Nat
  <2> HIDE DEF E, Z
  <2>1. QED
    BY <1>1 DEF Lesser
<1>3. first \in Nat /\ lm \in Nat
  BY Zenon, <1>1, <1>2, Division
<1>4. Met(f, off, len) = M
  BY Zenon DEF Met, Ends
<1>5. PICK i \in M, j \in M : M \ Present(f) = i .. j - 1 /\ j \in Present(f)
  BY Zenon, <1>4 DEF OneGap, Holes
<1>6. ASSUME NEW x \in Nat
      PROVE  x \in M <=> first <= x /\ x * S < E
  <2>1. x <= lm <=> x * S <= E - 1
    BY Zenon, <1>1, <1>2, BeginBefore
  <2> DEFINE c == x * S
  <2>2. c \in Nat
    BY <1>1
  <2> HIDE DEF c, E, first, lm
  <2>3. x \in M <=> first <= x /\ c < E
    BY <1>2, <1>3, <2>1, <2>2 DEF c
  <2>4. QED
    BY Zenon, <2>3 DEF c
<1> HIDE DEF E, first, lm
<1>7. i \in Nat /\ j \in Nat /\ first <= i /\ first <= j
  BY <1>3
<1>8. j * S < E
  BY Zenon, <1>5, <1>6, <1>7
<1> HIDE DEF M
<1> DEFINE a == Lesser(i, j)
<1>9. a \in Nat /\ first <= a /\ a <= j /\ i .. j - 1 = a .. j - 1
  BY <1>3, <1>7 DEF Lesser
<1> HIDE DEF a
<1>10. \A x \in Nat : x \in a .. j - 1 <=> a <= x /\ x < j
  BY <1>7, <1>9
<1>11. \A x \in Nat : first <= x /\ x * S < E => (x \in Present(f) <=> ~(a <= x /\ x < j))
  BY Zenon, <1>5, <1>6, <1>9, <1>10
<1>12. Gap(f, off, len, a, j)
  BY Zenon, <1>2, <1>8, <1>9, <1>11 DEF Gap, E, first
<1>13. QED
  BY Zenon, <1>7, <1>9, <1>12

LEMMA ReadsExactly ==
  ASSUME TypeOK, NEW f \in Files, NEW off \in Nat, NEW len \in Nat \ {0}, Aligned(off),
         OneGap(f, off, len)
  PROVE  ReadOk(f, off, len)
<1> DEFINE Z == size[f]
           E == Ends(f, off, len)
           C == Content(f)
<1>1. Z \in Nat /\ E = Lesser(off + len, Z) /\ Z \in 0..MaxSize /\ len \in Nat
  BY Zenon, SizeType DEF Ends
<1>2. SubSeq(C, off + 1, E) = [k \in 1 .. E - off |-> C[off + k]]
  <2> HIDE DEF C, E, Z
  <2>1. E \in Nat
    BY <1>1 DEF Lesser
  <2>2. 1 .. E - (off + 1) + 1 = 1 .. E - off /\ \A k \in 1 .. E - off : off + 1 + k - 1 = off + k
    BY <2>1
  <2>3. SubSeq(C, off + 1, E) = [k \in 1 .. E - (off + 1) + 1 |-> C[off + 1 + k - 1]]
    BY <2>1
  <2>4. QED
    BY Zenon, <2>2, <2>3
<1>3. CASE off < Z
  <2>1. PICK i \in Nat, j \in Nat : Gap(f, off, len, i, j)
    BY Zenon, <1>1, <1>3, GapFound
  <2>2. Read(f, off, len) = Stored(f, off, E)
    BY Zenon, <1>1, <2>1, GapRead
  <2>3. \A k \in 1 .. E - off : off + k \in 1..Z
    <3> HIDE DEF Z, E
    <3>1. QED
      BY <1>1, <1>3 DEF Lesser
  <2>4. \A k \in 1 .. E - off : C[off + k] = StoredByte(f, off + k - 1)
    <3>1. \A x \in 1..Z : C[x] = StoredByte(f, x - 1)
      BY Zenon DEF Content
    <3> HIDE DEF C, E, Z
    <3>2. QED
      BY <2>3, <3>1
  <2> HIDE DEF C, E
  <2>5. SubSeq(C, off + 1, E) = Stored(f, off, E)
    BY Zenon, <1>2, <2>4 DEF Stored
  <2>6. QED
    BY Zenon, <2>2, <2>5 DEF ReadOk, C, E, Ends
<1>4. CASE ~(off < Z)
  <2>1. Z <= off
    <3> HIDE DEF Z
    <3>1. QED
      BY <1>1, <1>4
  <2>2. off >= Z
    BY Zenon, <1>1, <2>1
  <2>3. Read(f, off, len) = <<>>
    BY Zenon, <2>2 DEF Read
  <2>4. 1 .. E - off = {}
    <3> HIDE DEF Z, E
    <3>1. QED
      BY <1>1, <2>1 DEF Lesser
  <2> HIDE DEF C, E
  <2>5. SubSeq(C, off + 1, E) = [k \in {} |-> C[off + k]]
    BY Zenon, <1>2, <2>4
  <2>6. SubSeq(C, off + 1, E) = <<>>
    BY <2>5
  <2>7. QED
    BY Zenon, <2>3, <2>6 DEF ReadOk, C, E, Ends
<1>5. QED
  BY Zenon, <1>3, <1>4

(* dbfs_common_read returns the bytes of the file, up to its end, when it   *)
(* starts in the first slice or on a slice boundary and meets at most one   *)
(* gap with data behind it: for every slice size, whatever threads do.      *)
THEOREM ReadsAreExact == Spec => []AlignedReadsAreExact
<1>1. TypeOK => AlignedReadsAreExact
  <2> SUFFICES ASSUME TypeOK PROVE AlignedReadsAreExact
    OBVIOUS
  <2>1. ASSUME NEW f \in Files, NEW off \in 0 .. MaxSize - 1, NEW len \in 1 .. MaxLen + SliceSize,
               off < SliceSize \/ off % SliceSize = 0, OneGap(f, off, len)
        PROVE  ReadOk(f, off, len)
    <3>1. off \in Nat /\ len \in Nat \ {0}
      BY FileAssumption
    <3>2. Aligned(off)
      BY Zenon, <2>1 DEF Aligned
    <3>3. QED
      BY Zenon, <2>1, <3>1, <3>2, ReadsExactly
  <2>2. QED
    BY Zenon, <2>1 DEF AlignedReadsAreExact
<1>2. QED
  BY <1>1, FileTypeCorrect, PTL
=============================================================================
