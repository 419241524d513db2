------------------------------ MODULE DbfsExtend ------------------------------
(***************************************************************************)
(* The operations that applications send to the database directly          *)
(* (extend.rs): execute_operate runs a list of operations, which may hold  *)
(* lists for the buckets inside, in one write transaction.  A failed       *)
(* unwrap unwinds out of execute_operate and the transaction is dropped.   *)
(*                                                                         *)
(* The buckets are a function from paths (the name of a global bucket,     *)
(* then keys) to values, with the value Bucket for a bucket.  The calls    *)
(* that have not returned are part of the state: execute_operate_real      *)
(* calls itself for the list of a bucket inside, and a rename of a bucket  *)
(* calls copy_bucket_data_recursive, which calls itself.                   *)
(*                                                                         *)
(* AddKey, DeleteKey and Read of several keys are as many operations of    *)
(* one key each.                                                           *)
(***************************************************************************)
EXTENDS Integers, Sequences, FiniteSets

CONSTANTS
  Globals,     \* names of global buckets
  Keys,        \* keys inside buckets
  Values,      \* values of keys
  Operations,  \* the operations that occur in lists
  Programs,    \* the operation lists that are sent
  MaxDepth,    \* bound on the length of committed paths
  MaxPaths     \* bound on the number of committed keys and buckets

Bucket == "BUCKET"

(* The operations of dbop, with the empty list for a missing one. *)
RenameKeys == [op : {"RenameKey"}, old_key : Keys, new_key : Keys]
AddKeys == [op : {"AddKey"}, key : Keys, value : Values]
OnKeys == [op : {"DeleteKey", "Read"}, key : Keys]
Steps == [op : {"AddBucket", "StepInto"}, key : Keys, other : Seq(Operations)]

ASSUME ExtendAssumption ==
  /\ Bucket \notin Values
  /\ Operations \subseteq RenameKeys \cup AddKeys \cup OnKeys \cup Steps
  /\ Programs \subseteq Seq(Operations)
  /\ MaxDepth \in Nat /\ MaxPaths \in Nat

VARIABLES
  store,   \* the committed buckets
  tx,      \* the buckets as the open write transaction has them
  calls,   \* calls of execute_operate_real: bucket, list, index; the innermost last
  moving,  \* the rename of a bucket under way: old and new path, and tx before it
  copies,  \* calls of copy_bucket_data_recursive: from, to, keys left; the innermost last
  again    \* the list is the one committed last, sent again

vars == <<store, tx, calls, moving, copies, again>>

-----------------------------------------------------------------------------
(* Sequences, as in the community modules.  They are restated as the        *)
(* proofs would otherwise carry all of SequencesExt.                        *)

Front(q) == SubSeq(q, 1, Len(q) - 1)
Last(q) == q[Len(q)]
IsPrefix(q, r) == Len(q) <= Len(r) /\ SubSeq(q, 1, Len(q)) = SubSeq(r, 1, Len(q))

-----------------------------------------------------------------------------
(* What jammdb offers on a bucket.                                          *)

Has(s, q) == q \in DOMAIN s
IsBucket(s, q) == Has(s, q) /\ s[q] = Bucket
IsValue(s, q) == Has(s, q) /\ s[q] # Bucket
KeysIn(s, q) == {k \in Keys : Has(s, Append(q, k))}

With(s, q, v) == [r \in DOMAIN s \cup {q} |-> IF r = q THEN v ELSE s[r]]
Without(s, S) == [r \in DOMAIN s \ S |-> s[r]]

Below(s, q) == {r \in DOMAIN s : IsPrefix(q, r)}

delete_bucket(s, q) == Without(s, Below(s, q))

-----------------------------------------------------------------------------
Nothing == [q \in {} |-> Bucket]
NoMove == [old |-> <<>>, new |-> <<>>, was |-> Nothing]

Idle == calls = <<>>

Call(p, operate) == [bucket |-> p, operate |-> operate, i |-> 1]
Advanced == [calls EXCEPT ![Len(calls)].i = @ + 1]

Init ==
  /\ store = Nothing /\ tx = Nothing
  /\ calls = <<>> /\ moving = NoMove /\ copies = <<>>
  /\ again = FALSE

(* A failed unwrap: the transaction is dropped. *)
Unwind ==
  /\ tx' = store /\ calls' = <<>> /\ moving' = NoMove /\ copies' = <<>>
  /\ again' = FALSE
  /\ UNCHANGED store

(* execute_operate finds the bucket.  There is one write transaction at a   *)
(* time.                                                                    *)
execute_operate(p, operate) ==
  /\ Idle
  /\ IsBucket(store, p)
  /\ calls' = <<Call(p, operate)>>
  /\ UNCHANGED <<store, tx, moving, copies, again>>

NeverThere(q) == FALSE

(* AddBucket passes over a bucket that is there, with the list for it. *)
AlreadyThere(q) == IsBucket(tx, q)

(* An operation i on the bucket p is passed over, makes tx into t, or does  *)
(* so and calls execute_operate_real for a bucket inside.                   *)
Becomes(t) == tx' = t /\ calls' = Advanced /\ UNCHANGED <<store, moving, copies, again>>
StepsInto(t, q, other) ==
  /\ tx' = t
  /\ calls' = Append(Advanced, Call(q, other))
  /\ UNCHANGED <<store, moving, copies, again>>

(* A value is put under the new key and stays under the old one; a bucket   *)
(* is copied, and the old one deleted afterwards.                           *)
RenameKey(p, i) ==
  LET from == Append(p, i.old_key)
      to == Append(p, i.new_key)
      passed == ~Has(tx, from) \/ i.old_key = i.new_key \/ Has(tx, to)
  IN \/ passed /\ Becomes(tx)
     \/ ~passed /\ IsValue(tx, from) /\ Becomes(With(tx, to, tx[from]))
     \/ /\ ~passed /\ IsBucket(tx, from)
        /\ tx' = With(tx, to, Bucket)
        /\ calls' = Advanced
        /\ moving' = [old |-> from, new |-> to, was |-> tx]
        /\ copies' = <<[from |-> from, to |-> to, left |-> KeysIn(tx, from)]>>
        /\ UNCHANGED <<store, again>>

AddKey(q, i) ==
  \/ ~IsBucket(tx, q) /\ Becomes(With(tx, q, i.value))
  \/ IsBucket(tx, q) /\ Unwind

AddBucket(q, i) ==
  \/ AlreadyThere(q) /\ Becomes(tx)
  \/ ~AlreadyThere(q) /\ ~Has(tx, q) /\ StepsInto(With(tx, q, Bucket), q, i.other)
  \/ ~AlreadyThere(q) /\ Has(tx, q) /\ Unwind

DeleteKey(q) ==
  \/ IsValue(tx, q) /\ Becomes(Without(tx, {q}))
  \/ ~IsValue(tx, q) /\ Unwind

Read(q) ==
  \/ IsValue(tx, q) /\ Becomes(tx)
  \/ ~IsValue(tx, q) /\ Unwind

StepInto(q, i) ==
  \/ IsBucket(tx, q) /\ StepsInto(tx, q, i.other)
  \/ ~IsBucket(tx, q) /\ Unwind

(* One turn of the loop of execute_operate_real. *)
Running == ~Idle /\ moving = NoMove
More(c) == c.i <= Len(c.operate)

execute_operate_real ==
  /\ Running /\ More(Last(calls))
  /\ LET p == Last(calls).bucket
         i == Last(calls).operate[Last(calls).i]
     IN \/ i.op = "RenameKey" /\ RenameKey(p, i)
        \/ i.op = "AddKey" /\ AddKey(Append(p, i.key), i)
        \/ i.op = "AddBucket" /\ AddBucket(Append(p, i.key), i)
        \/ i.op = "DeleteKey" /\ DeleteKey(Append(p, i.key))
        \/ i.op = "Read" /\ Read(Append(p, i.key))
        \/ i.op = "StepInto" /\ StepInto(Append(p, i.key), i)

Return ==
  /\ Running /\ ~More(Last(calls)) /\ Len(calls) > 1
  /\ calls' = Front(calls)
  /\ UNCHANGED <<store, tx, moving, copies, again>>

Fits(s) == Cardinality(DOMAIN s) <= MaxPaths /\ \A q \in DOMAIN s : Len(q) <= MaxDepth

(* The outermost call returns to execute_operate.  A database with no room  *)
(* left fails the commit.  A sender that does not see the answer sends the  *)
(* list again.                                                              *)
Commit ==
  /\ Running /\ ~More(Last(calls)) /\ Len(calls) = 1
  /\ \/ /\ Fits(tx)
        /\ store' = tx
        /\ \/ calls' = <<>> /\ again' = FALSE
           \/ calls' = <<Call(calls[1].bucket, calls[1].operate)>> /\ again' = TRUE
        /\ UNCHANGED <<tx, moving, copies>>
     \/ ~Fits(tx) /\ Unwind

-----------------------------------------------------------------------------
(* The copy of a bucket, and the end of its rename.                         *)

Ticked(k) == [copies EXCEPT ![Len(copies)].left = @ \ {k}]
Inside(q, r) == [from |-> q, to |-> r, left |-> KeysIn(tx, q)]

CopyFirstLevel(k, q, r) ==
  /\ tx' = With(tx, r, tx[q])
  /\ copies' = Ticked(k)

(* The cursor of the old bucket is at q, which goes to r. *)
CopyData(k, q, r) ==
  /\ tx' = With(tx, r, tx[q])
  /\ copies' = IF IsBucket(tx, q) THEN Append(Ticked(k), Inside(q, r)) ELSE Ticked(k)

CannotCopy(q, r) == IF IsBucket(tx, q) THEN Has(tx, r) ELSE IsBucket(tx, r)

copy_bucket_data_recursive(k) ==
  /\ copies # <<>>
  /\ k \in Last(copies).left
  /\ LET q == Append(Last(copies).from, k)
         r == Append(Last(copies).to, k)
     IN \/ ~CannotCopy(q, r) /\ CopyData(k, q, r) /\ UNCHANGED <<store, calls, moving, again>>
        \/ CannotCopy(q, r) /\ Unwind

CopyReturn ==
  /\ copies # <<>> /\ Last(copies).left = {}
  /\ copies' = Front(copies)
  /\ UNCHANGED <<store, tx, calls, moving, again>>

DeleteOldKeepsInside ==
  /\ moving # NoMove /\ copies = <<>>
  /\ tx' = Without(tx, {moving.old})
  /\ moving' = NoMove
  /\ UNCHANGED <<store, calls, copies, again>>

DeleteOld ==
  /\ moving # NoMove /\ copies = <<>>
  /\ tx' = delete_bucket(tx, moving.old)
  /\ moving' = NoMove
  /\ UNCHANGED <<store, calls, copies, again>>

extend_create_global_bucket(g) ==
  /\ Idle /\ ~Has(store, <<g>>)
  /\ store' = With(store, <<g>>, Bucket) /\ tx' = store'
  /\ UNCHANGED <<calls, moving, copies, again>>

Next ==
  \/ \E g \in Globals : extend_create_global_bucket(g)
  \/ \E p \in DOMAIN store, operate \in Programs : execute_operate(p, operate)
  \/ execute_operate_real \/ Return \/ Commit
  \/ \E k \in Keys : copy_bucket_data_recursive(k)
  \/ CopyReturn \/ DeleteOld

Spec == Init /\ [][Next]_vars

-----------------------------------------------------------------------------
(* Properties.                                                              *)

Paths(s) ==
  \A q \in DOMAIN s :
    /\ q[1] \in Globals /\ \A j \in 2..Len(q) : q[j] \in Keys
    /\ s[q] \in Values \cup {Bucket}
    /\ Len(q) > 1 => IsBucket(s, Front(q))

(* The buckets form a forest, in the database and within the transaction:   *)
(* whatever a path leads to, the path up to it leads to buckets, so nothing *)
(* is left behind when a bucket is deleted.  The buckets that pending calls *)
(* work on exist.                                                           *)
TypeOK ==
  /\ Paths(store) /\ Paths(tx)
  /\ Idle => tx = store
  /\ \A j \in 1..Len(calls) : IsBucket(tx, calls[j].bucket)
  /\ \A j \in 1..Len(copies) : IsBucket(tx, copies[j].from) /\ IsBucket(tx, copies[j].to)

Moved(s, from, to) ==
  LET inside == Below(s, from)
      rest(q) == SubSeq(q, Len(from) + 1, Len(q))
  IN [q \in (DOMAIN s \ inside) \cup {to \o rest(r) : r \in inside} |->
        IF IsPrefix(to, q) THEN s[from \o SubSeq(q, Len(to) + 1, Len(q))] ELSE s[q]]

(* RenameKey of a bucket to a free key, which copies key by key and then    *)
(* deletes, moves all that was inside, at every depth, and changes nothing  *)
(* else; no step of the copy fails.                                         *)
RenameMovesBuckets ==
  [][moving # NoMove /\ moving' # moving => tx' = Moved(moving.was, moving.old, moving.new)]_vars

OnlyAdds(operate) == \A j \in 1..Len(operate) : operate[j].op \in {"AddKey", "AddBucket"}

(* A list that only adds keys and buckets can be sent again after it was    *)
(* executed, when its sender did not see the answer: it succeeds and        *)
(* changes nothing.                                                         *)
AddsCanBeRetried ==
  [][again /\ OnlyAdds(calls[1].operate) /\ ~again' => Len(calls) = 1 /\ ~More(calls[1]) /\ tx = store]_vars
=============================================================================
