------------------------------ MODULE DbfsFile ------------------------------
(***************************************************************************)
(* The contents of files.  A file's bucket holds one "zdata:<i>" key per   *)
(* slice of SliceSize bytes that was ever written; a slice without a key   *)
(* is a hole.  The super block's disk_size is the space that is left.      *)
(*                                                                         *)
(* An operation is one step per database transaction.  The threads of an   *)
(* rvfs kernel write and truncate and may interleave their transactions.   *)
(* The FUSE front end, which also allocates and copies, has one thread.    *)
(***************************************************************************)
EXTENDS DbfsMode, Sequences, Folds

CONSTANTS
  Files, Threads,
  SliceSize,   \* SLICE_SIZE
  Byte,        \* byte values, with 0
  Garbage,     \* what the memory of the slice buffers may hold
  MaxSize,     \* bound on the size of a file
  MaxLen,      \* bound on the length of a read, a write or a copy
  DiskSize,    \* disk_size of a new file system
  MaxDisk,     \* bound on disk_size
  Mode,        \* the mode word of a new file
  Ops          \* the operations in use

ASSUME FileAssumption ==
  /\ SliceSize \in Nat \ {0}
  /\ 0 \in Byte /\ Garbage \subseteq Byte
  /\ MaxSize \in Nat /\ MaxLen \in Nat /\ MaxDisk \in Nat
  /\ DiskSize \in 0..MaxDisk
  /\ Mode \subseteq Bit
  /\ Ops \subseteq {"write", "truncate", "fallocate", "copy"}

VARIABLES
  slices,      \* the slices of each file, NoSlice where there is no key
  size,        \* the "size" key of each file
  mode,        \* the "mode" key of each file
  disk_size,   \* key of the super_blk bucket
  op,          \* what each thread has read and not yet acted on
  covered      \* history: the bytes of each file that writes have covered

vars == <<slices, size, mode, disk_size, op, covered>>

NoSlice == <<>>
Index == 0 .. MaxSize \div SliceSize
InSlice == 0 .. SliceSize - 1
Slice == [InSlice -> Byte]
Zeros(n) == [k \in 1..n |-> 0]
Lesser(m, n) == IF m < n THEN m ELSE n
Greater(m, n) == IF m > n THEN m ELSE n

Idle == [do |-> "idle"]

Init ==
  /\ slices = [f \in Files |-> [i \in Index |-> NoSlice]]
  /\ size = [f \in Files |-> 0]
  /\ mode = [f \in Files |-> Mode]
  /\ disk_size = DiskSize
  /\ op = [t \in Threads |-> Idle]
  /\ covered = [f \in Files |-> {}]

(* "size" after a write or an allocation that ends at end. *)
GrownSize(f, end) == Greater(size[f], end)

(* The NoSpace check of truncate and fallocate. *)
AlwaysSpace(gap) == TRUE
EnoughSpace(gap) == disk_size >= gap

Present(f) == {i \in Index : slices[f][i] # NoSlice}

-----------------------------------------------------------------------------
(* dbfs_common_read of len bytes at off.                                    *)

(* value_offset: off has been reduced modulo the slice size already. *)
ValueOffset(i, off) == Greater(0, (off % SliceSize) - i * SliceSize)

(* The bytes of slice i that a read may take from it. *)
SliceBytesNoEnd(f, i, off) == SliceSize - ValueOffset(i, off)

SliceBytes(f, i, off) ==
  Greater(0, Lesser(size[f] - i * SliceSize, SliceSize) - ValueOffset(i, off))

Largest(S) == CHOOSE i \in S : \A j \in S : j <= i

(* The bytes of a hole that is made of the slices in S. *)
HoleBytes(f, off, S) ==
  LET bytes(i) == SliceBytes(f, i, off) IN MapThenFoldSet(+, 0, bytes, Largest, S)

(* One turn of the loop over the slices with a key: fill the holes before   *)
(* slice i with zeros, then copy slice i.                                   *)
ReadSlice(f, off, len, acc, i) ==
  LET hole == HoleBytes(f, off, acc.next .. i - 1)
      filled == acc.buf \o Zeros(Lesser(len - Len(acc.buf), hole))
      n == Lesser(len - Len(filled), SliceBytes(f, i, off))
      copied == [k \in 1..n |-> slices[f][i][ValueOffset(i, off) + k - 1]]
  IN [next |-> IF i = acc.next THEN i + 1 ELSE i + 2, buf |-> filled \o copied]

(* The loop ends with the largest slice. *)
Read(f, off, len) ==
  LET first == off \div SliceSize
      last == Lesser((off + len) \div SliceSize, size[f] \div SliceSize)
      turn(i, acc) == ReadSlice(f, off, len, acc, i)
      slice(i) == i
  IN IF off >= size[f] THEN <<>>
     ELSE MapThenFoldSet(turn, [next |-> first, buf |-> <<>>], slice, Largest,
                         Present(f) \cap first..last).buf

-----------------------------------------------------------------------------
(* dbfs_common_write.  The slice buffer is not initialised: what a write    *)
(* does not cover of a slice without a key is whatever g says.              *)

Touched(off, len) == off \div SliceSize .. Greater(off, off + len - 1) \div SliceSize

SliceDropsRest(old, i, off, buf, g) ==
  [p \in InSlice |->
     LET k == i * SliceSize + p - off IN IF k \in 0 .. Len(buf) - 1 THEN buf[k + 1] ELSE 0]

SliceWritten(old, i, off, buf, g) ==
  [p \in InSlice |->
     LET k == i * SliceSize + p - off
     IN IF k \in 0 .. Len(buf) - 1 THEN buf[k + 1]
        ELSE IF old = NoSlice THEN g[i][p] ELSE old[p]]

Write(f, off, buf, g) ==
  /\ slices' = [slices EXCEPT ![f] = [i \in Index |->
       IF i \in Touched(off, Len(buf)) THEN SliceWritten(@[i], i, off, buf, g) ELSE @[i]]]
  /\ size' = [size EXCEPT ![f] = GrownSize(f, off + Len(buf))]
  /\ covered' = [covered EXCEPT ![f] = @ \cup off .. off + Len(buf) - 1]
  /\ UNCHANGED <<mode, disk_size>>

Contents(off, len) == [Touched(off, len) -> [InSlice -> Garbage]]

WriteFile(t, f, off, buf) ==
  /\ "write" \in Ops /\ op[t] = Idle
  /\ off + Len(buf) <= MaxSize
  /\ \E g \in Contents(off, Len(buf)) : Write(f, off, buf, g)
  /\ UNCHANGED op

-----------------------------------------------------------------------------
(* dbfs_common_truncate: the attributes are read in one transaction and     *)
(* used in a second one.  dbfs_truncate has an inode in memory locked       *)
(* meanwhile, which keeps no write away and no truncate through another     *)
(* hard link, which has an inode in memory of its own.                      *)

TruncateAttr(t, f, n) ==
  /\ "truncate" \in Ops /\ op[t] = Idle
  /\ disk_size + size[f] <= MaxDisk
  /\ op' = [op EXCEPT ![t] = [do |-> "truncate", file |-> f, to |-> n,
                              size |-> size[f], mode |-> mode[f]]]
  /\ UNCHANGED <<slices, size, mode, disk_size, covered>>

KeepAllSlices(s, start, current, offset) == s

(* Free the slices after the one of the new end, clear the rest of that one. *)
CutSlices(s, start, current, offset) ==
  [i \in Index |->
     IF i \in start + 1 .. current THEN NoSlice
     ELSE IF i = start /\ s[i] # NoSlice
          THEN [p \in InSlice |-> IF p >= offset THEN 0 ELSE s[i][p]]
     ELSE s[i]]

TruncateTx(t) ==
  LET o == op[t]
      start == o.to \div SliceSize
      current == o.size \div SliceSize
      gap == Greater(0, o.to - o.size)
  IN /\ o.do = "truncate"
     /\ op' = [op EXCEPT ![t] = Idle]
     /\ \/ /\ current < start /\ ~EnoughSpace(gap)         \* NoSpace
           /\ UNCHANGED <<slices, size, mode, disk_size, covered>>
        \/ /\ \/ /\ current < start /\ EnoughSpace(gap)
                 /\ disk_size' = disk_size - gap
                 /\ UNCHANGED slices
              \/ /\ current >= start
                 /\ slices' = [slices EXCEPT ![o.file] =
                                 CutSlices(@, start, current, o.to % SliceSize)]
                 /\ disk_size' = disk_size + (current - start) * SliceSize
           /\ size' = [size EXCEPT ![o.file] = o.to]
           /\ mode' = [mode EXCEPT ![o.file] = clear_suid_sgid(o.mode)]
           /\ covered' = [covered EXCEPT ![o.file] = @ \cap 0 .. o.to - 1]

-----------------------------------------------------------------------------
(* dbfs_common_fallocate *)
Fallocate(t, f, off, len, keep) ==
  LET end == off + len
      charged == size[f] \div SliceSize < end \div SliceSize
      gap == Greater(0, end - size[f])
  IN /\ "fallocate" \in Ops /\ op[t] = Idle
     /\ end <= MaxSize
     /\ charged => EnoughSpace(gap)                      \* otherwise NoSpace
     /\ disk_size' = IF charged THEN disk_size - gap ELSE disk_size
     /\ size' = IF keep THEN size ELSE [size EXCEPT ![f] = GrownSize(f, end)]
     /\ UNCHANGED <<slices, mode, op, covered>>

-----------------------------------------------------------------------------
(* dbfs_common_copy_file_range: the size of the source, the read and the    *)
(* write are three transactions.  The kernel asks only for ranges that      *)
(* begin before the end of the source and that do not overlap.              *)

Overlap(from, to, len) == from < to + len /\ to < from + len

CopySize(t, src, from, dest, to, len) ==
  /\ "copy" \in Ops /\ op[t] = Idle
  /\ from < size[src]
  /\ src = dest => ~Overlap(from, to, len)
  /\ op' = [op EXCEPT ![t] = [do |-> "copy read", src |-> src, from |-> from,
                              dest |-> dest, to |-> to,
                              len |-> Lesser(size[src] - from, len)]]
  /\ UNCHANGED <<slices, size, mode, disk_size, covered>>

CopyRead(t) ==
  LET o == op[t]
  IN /\ o.do = "copy read"
     /\ op' = [op EXCEPT ![t] = [do |-> "copy write", dest |-> o.dest, to |-> o.to,
                                 buf |-> Read(o.src, o.from, o.len)]]
     /\ UNCHANGED <<slices, size, mode, disk_size, covered>>

CopyWrite(t) ==
  LET o == op[t]
  IN /\ o.do = "copy write"
     /\ op' = [op EXCEPT ![t] = Idle]
     /\ \E g \in Contents(o.to, Len(o.buf)) : Write(o.dest, o.to, o.buf, g)

-----------------------------------------------------------------------------
Next ==
  \E t \in Threads :
    \/ \E f \in Files, off \in 0 .. MaxSize - 1, len \in 1..MaxLen :
         \/ \E buf \in [1..len -> Byte] : WriteFile(t, f, off, buf)
         \/ \E keep \in BOOLEAN : Fallocate(t, f, off, len, keep)
         \/ \E dest \in Files, to \in 0 .. MaxSize - len :
              CopySize(t, f, off, dest, to, len)
    \/ \E f \in Files, n \in 0..MaxSize : TruncateAttr(t, f, n)
    \/ TruncateTx(t)
    \/ CopyRead(t)
    \/ CopyWrite(t)

Spec == Init /\ [][Next]_vars

-----------------------------------------------------------------------------
(* Properties.                                                              *)

(* Well-typed slices and sizes; disk_size (u64 in the code) never goes      *)
(* below zero.                                                              *)
TypeOK ==
  /\ slices \in [Files -> [Index -> Slice \cup {NoSlice}]]
  /\ size \in [Files -> 0..MaxSize]
  /\ mode \in [Files -> SUBSET Bit]
  /\ disk_size \in Nat
  /\ covered \in [Files -> SUBSET (0 .. MaxSize - 1)]
  /\ \A t \in Threads : op[t].do \in {"idle", "truncate", "copy read", "copy write"}

StoredByte(f, k) ==
  LET s == slices[f][k \div SliceSize]
  IN IF s = NoSlice THEN 0 ELSE s[k % SliceSize]

(* What the keys of a file stand for: its bytes, holes being zeros. *)
Content(f) == [k \in 1..size[f] |-> StoredByte(f, k - 1)]

(* No slice is left behind the end of a file: truncate frees the slices up  *)
(* to the old size, so one beyond it would never be freed and would come    *)
(* back when the file grows.                                                *)
NoSliceBeyondEnd ==
  \A f \in Files : \A i \in Present(f) : i * SliceSize <= size[f]

ReadOk(f, off, len) ==
  Read(f, off, len) = SubSeq(Content(f), off + 1, Lesser(off + len, size[f]))

(* The slices that hold the bytes of a read, and those without a key. *)
Met(f, off, len) == off \div SliceSize .. (Lesser(off + len, size[f]) - 1) \div SliceSize
Holes(f, off, len) == Met(f, off, len) \ Present(f)

(* The holes that a read meets are one gap, with data behind it. *)
OneGap(f, off, len) ==
  LET holes == Holes(f, off, len)
  IN \E i, j \in Met(f, off, len) : holes = i .. j - 1 /\ j \in Present(f)

(* A read that starts in the first slice or on a slice boundary returns the *)
(* bytes of the file up to its end, and zeros for a gap of any length in    *)
(* it.  (A second gap, or one at the end of the read, dbfs_common_read cuts *)
(* short.)                                                                  *)
AlignedReadsAreExact ==
  \A f \in Files, off \in 0 .. MaxSize - 1, len \in 1 .. MaxLen + SliceSize :
    (off < SliceSize \/ off % SliceSize = 0) /\ OneGap(f, off, len)
    => ReadOk(f, off, len)

(* Violated: the comments in dbfs_common_read work out the offset in a later *)
(* slice ("offset = 1000 ... => offset= 1000 - SLICE_SIZE = 488"): a read   *)
(* from the middle of any slice, meeting no hole, returns the file's bytes. *)
UnalignedReadsAreExact ==
  \A f \in Files, off \in 0 .. MaxSize - 1, len \in 1..MaxLen :
    Holes(f, off, len) = {} => ReadOk(f, off, len)

BF == INSTANCE ByteFile WITH Fill <- 0, content <- [f \in Files |-> Content(f)]

(* With slice buffers that happen to be zero, the operations on a file have *)
(* the effect on its bytes that ByteFile describes: dbfs_common_write       *)
(* merges what it writes with what a slice holds, dbfs_common_truncate      *)
(* loses what it cuts off for good, and no hole shows anything but zeros.   *)
ImplementsByteFile == BF!Spec

Unwritten == -1

CoveredContent(f) ==
  [k \in 1..size[f] |-> IF k - 1 \in covered[f] THEN StoredByte(f, k - 1) ELSE Unwritten]

WF == INSTANCE ByteFile WITH Fill <- Unwritten, content <- [f \in Files |-> CoveredContent(f)]

(* Whatever the slice buffers held: the bytes that writes have covered are  *)
(* the bytes last written there, until a truncate cuts them off.  What      *)
(* dbfs_common_write puts around them, from the old slice or from an        *)
(* uninitialised buffer, never disturbs them.                               *)
KeepsWrittenBytes == WF!Spec
=============================================================================
