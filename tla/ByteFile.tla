------------------------------ MODULE ByteFile ------------------------------
(***************************************************************************)
(* What a file's user expects of its contents: a sequence of bytes that a  *)
(* write overwrites and extends and that a change of size cuts off or      *)
(* extends.  Bytes that were never written are Fill: zero where holes read *)
(* as zeros, or a value of its own where nothing is promised of them.      *)
(***************************************************************************)
EXTENDS Integers, Sequences

CONSTANTS
  Files,
  Byte,        \* byte values
  Fill,        \* what a byte that was never written is
  MaxSize,     \* bound on the size of a file
  MaxLen       \* bound on the length of a write

VARIABLE content

(* Byte k of a file with contents c, counting from 1; Fill past the end. *)
ByteAt(c, k) == IF k <= Len(c) THEN c[k] ELSE Fill

Written(c, off, buf) ==
  LET end == off + Len(buf)
  IN [k \in 1..(IF end > Len(c) THEN end ELSE Len(c)) |->
        IF k > off /\ k <= end THEN buf[k - off] ELSE ByteAt(c, k)]

Resized(c, n) == [k \in 1..n |-> ByteAt(c, k)]

Write(f, off, buf) == content' = [content EXCEPT ![f] = Written(@, off, buf)]
Resize(f, n) == content' = [content EXCEPT ![f] = Resized(@, n)]

Init == content = [f \in Files |-> <<>>]

Next ==
  \E f \in Files :
    \/ \E off \in 0 .. MaxSize - 1, len \in 1..MaxLen :
         \E buf \in [1..len -> Byte] : Write(f, off, buf)
    \/ \E n \in 0..MaxSize : Resize(f, n)

Spec == Init /\ [][Next]_content
=============================================================================
