------------------------------- MODULE MCExtend -------------------------------
(* Small instances of DbfsExtend for TLC. *)
EXTENDS DbfsExtend

Plain == RenameKeys \cup AddKeys \cup OnKeys

Lists == {<<>>} \cup {<<i>> : i \in AddKeys}

MCOperations == Plain \cup [op : {"AddBucket", "StepInto"}, key : Keys, other : Lists]

(* One operation, or one after an AddKey or an AddBucket. *)
First ==
  {[op |-> "AddKey", key |-> "dir1", value |-> "v"], [op |-> "AddBucket", key |-> "dir1", other |-> <<>>]}

MCPrograms == {<<i>> : i \in MCOperations} \cup {<<i, j>> : i \in First, j \in MCOperations}
=============================================================================
