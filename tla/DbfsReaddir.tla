----------------------------- MODULE DbfsReaddir -----------------------------
(***************************************************************************)
(* Reading one directory.  The database hands out the "data:<name>" keys   *)
(* in order; what a listing has to remember between two requests is kept   *)
(* in GLOBAL_READDIR_TABLE, which has one slot per inode number, whoever   *)
(* reads the directory.                                                    *)
(*                                                                         *)
(* Under FUSE a lister is an open directory handle.  The kernel gives the  *)
(* offset of the last entry it handed to its reader with every request,    *)
(* and a request is one step.  Under rvfs a lister is a thread that is in  *)
(* dbfs_readdir, with one step per access to the table.  (Inside           *)
(* dbfs_common_readdir the read transaction begins just before the slot is *)
(* read; the two are one step here.)                                       *)
(***************************************************************************)
EXTENDS Integers, FiniteSets

CONSTANTS
  Name,        \* the names, as numbers in the order of their keys
  Dot,         \* "." is always there
  Listers,     \* directory handles or threads
  FrontEnds,   \* a subset of {"fuse", "rvfs"}
  Batch,       \* what dbfs_readdir takes for a full batch: 16
  MaxOffset    \* bound on the offsets of entries

Nobody == [nobody |-> TRUE]

ASSUME ReaddirAssumption ==
  /\ Nobody \notin Listers
  /\ Name \subseteq Nat /\ IsFiniteSet(Name)
  /\ Dot \in Name
  /\ FrontEnds \subseteq {"fuse", "rvfs"}
  /\ Batch \in Nat \ {0} /\ MaxOffset \in Nat

VARIABLES
  front,      \* the front end of this process
  entries,    \* the names in the directory
  table,      \* the directory's slot of GLOBAL_READDIR_TABLE
  at,         \* where each lister is
  crashed,    \* the lister whose request made an assertion fail
  hist        \* history: what each lister has got, and what befell it

vars == <<front, entries, table, at, crashed, hist>>

NoInfo == [offset |-> -1, key |-> -1]
ReadDirInfo == [offset : Nat, key : Name]

Up == crashed = Nobody

Closed == [do |-> "closed", pos |-> 0, info |-> NoInfo]

(* got, again: the names received, and whether one came twice; stayed: the  *)
(* names that were there all the time; alone: no other listing overlapped;  *)
(* smooth: every reply was taken whole and held all there was; kept: no     *)
(* name was removed; over: the listing has reached its end.                 *)
NewHist(alone) ==
  [got |-> {}, again |-> FALSE, stayed |-> entries, alone |-> alone,
   smooth |-> TRUE, kept |-> TRUE, over |-> FALSE]

NoHist == [NewHist(FALSE) EXCEPT !.stayed = {}]

Active(l) == at[l].do # "closed"
AllClosed == \A l \in Listers : ~Active(l)

(* Lister l begins: it and those that are reading are not alone. *)
BeginHist(l) ==
  [k \in Listers |->
     IF k = l THEN NewHist(\A m \in Listers \ {l} : ~Active(m))
     ELSE IF Active(k) THEN [hist[k] EXCEPT !.alone = FALSE] ELSE hist[k]]

(* The reader of l gets the names of S. *)
Gets(h, S) ==
  [h EXCEPT !.got = @ \cup S, !.again = @ \/ S \cap h.got # {}]

-----------------------------------------------------------------------------
(* dbfs_common_readdir                                                      *)

(* One of its assertions fails: the offset is not the one after the saved   *)
(* entry, or the saved entry is no longer there.                            *)
Refuses(offset) ==
  table # NoInfo /\ (offset # table.offset + 1 \/ table.key \notin entries)

RestWithSaved == IF table = NoInfo THEN entries ELSE {n \in entries : n >= table.key}

(* The entries it returns.  buf is cleared before its length is taken, so   *)
(* the length never ends the loop: all the entries after the saved one.     *)
Rest == IF table = NoInfo THEN entries ELSE {n \in entries : n > table.key}

(* S is the beginning of T. *)
Initial(S, T) == S \subseteq T /\ \A x \in S, y \in T \ S : x < y

IsLeast(x, S) == x \in S /\ \A y \in S : x <= y
IsLast(x, S) == x \in S /\ \A y \in S : y <= x

Fails(l) ==
  /\ crashed' = l
  /\ UNCHANGED <<front, entries, table, at, hist>>

-----------------------------------------------------------------------------
(* The FUSE front end.                                                      *)

(* dbfs_fuse_opendir, when the caller has access: nothing is recorded. *)
dbfs_fuse_opendir(l) ==
  /\ Up /\ front = "fuse" /\ ~Active(l)
  /\ at' = [at EXCEPT ![l] = [Closed EXCEPT !.do = "open"]]
  /\ hist' = BeginHist(l)
  /\ UNCHANGED <<front, entries, table, crashed>>

SavedOneBehind(pos, part) ==
  {[offset |-> pos + Cardinality(Rest) - 2, key |-> x] : x \in {y \in Rest : IsLast(y, Rest)}}

(* repl.add refuses the first entry that does not fit, and that one is      *)
(* saved; when all of them fit the last one is.                             *)
SavedBySend(pos, part) ==
  {[offset |-> pos + Cardinality(part), key |-> x] : x \in {y \in Rest \ part : IsLeast(y, Rest \ part)}}
  \cup {[offset |-> pos + Cardinality(Rest) - 1, key |-> x] : x \in {y \in Rest : part = Rest /\ IsLast(y, Rest)}}

(* dbfs_fuse_readdir and dbfs_fuse_readdirplus.  part: the entries that fit *)
(* in the reply; take: those the kernel hands on.  The handler asks         *)
(* dbfs_common_readdir again after the last entry and gets none.            *)
dbfs_fuse_readdir(l) ==
  /\ Up /\ at[l].do = "open"
  /\ at[l].pos + Cardinality(entries) <= MaxOffset
  /\ \/ Refuses(at[l].pos) /\ Fails(l)
     \/ /\ ~Refuses(at[l].pos) /\ Rest = {}
        /\ hist' = [hist EXCEPT ![l].over = TRUE]
        /\ UNCHANGED <<front, entries, table, at, crashed>>
     \/ /\ ~Refuses(at[l].pos)
        /\ \E part, take \in (SUBSET Rest) \ {{}} :
             /\ Initial(part, Rest) /\ Initial(take, part)
             /\ table' \in SavedBySend(at[l].pos, part)
             /\ at' = [at EXCEPT ![l].pos = @ + Cardinality(take)]
             /\ hist' = [hist EXCEPT ![l] =
                  [Gets(hist[l], take) EXCEPT !.smooth = @ /\ take = Rest]]
        /\ UNCHANGED <<front, entries, crashed>>

(* The reader goes back to the beginning (rewinddir); no request is made. *)
Rewind(l) ==
  /\ Up /\ front = "fuse" /\ at[l].do = "open" /\ at[l].pos > 0
  /\ at' = [at EXCEPT ![l].pos = 0]
  /\ hist' = [hist EXCEPT ![l] = [NewHist(@.alone) EXCEPT !.smooth = FALSE]]
  /\ UNCHANGED <<front, entries, table, crashed>>

KeepsSlot == table' = table

(* pop_readdir_table *)
pop_readdir_table == table' = NoInfo

dbfs_fuse_releasedir(l) ==
  /\ Up /\ at[l].do = "open"
  /\ pop_readdir_table
  /\ at' = [at EXCEPT ![l] = Closed]
  /\ hist' = [hist EXCEPT ![l] = NoHist]
  /\ UNCHANGED <<front, entries, crashed>>

-----------------------------------------------------------------------------
(* dbfs_readdir of the rvfs front end, called with a buffer.                *)

ReaddirBegin(l) ==
  /\ Up /\ front = "rvfs" /\ ~Active(l)
  /\ pop_readdir_table
  /\ at' = [at EXCEPT ![l] = [Closed EXCEPT !.do = "read"]]
  /\ hist' = BeginHist(l)
  /\ UNCHANGED <<front, entries, crashed>>

(* One turn of the loop, up to push_readdir_table.  part: the entries that  *)
(* fit in what is left of the buffer.                                       *)
ReaddirTurn(l) ==
  /\ Up /\ at[l].do = "read"
  /\ at[l].pos + Cardinality(entries) <= MaxOffset
  /\ \/ Refuses(at[l].pos) /\ Fails(l)
     \/ /\ ~Refuses(at[l].pos)
        /\ \E part \in SUBSET Rest :
             LET over == part = Rest /\ Cardinality(Rest) < Batch
             IN /\ Initial(part, Rest)
                /\ hist' = [hist EXCEPT ![l] =
                     [Gets(hist[l], part) EXCEPT !.over = over]]
                /\ \/ /\ part # Rest \/ over
                      /\ at' = [at EXCEPT ![l] = Closed]
                   \/ /\ part = Rest /\ ~over
                      /\ \E x \in Rest :
                           LET last == at[l].pos + Cardinality(Rest) - 1
                           IN /\ IsLast(x, Rest)
                              /\ at' = [at EXCEPT ![l] =
                                   [do |-> "push", pos |-> last + 1,
                                    info |-> [offset |-> last, key |-> x]]]
        /\ UNCHANGED <<front, entries, table, crashed>>

push_readdir_table(l) ==
  /\ Up /\ at[l].do = "push"
  /\ table' = at[l].info
  /\ at' = [at EXCEPT ![l] = [do |-> "read", pos |-> @.pos, info |-> NoInfo]]
  /\ UNCHANGED <<front, entries, crashed, hist>>

-----------------------------------------------------------------------------
(* What happens to the directory meanwhile, and to the process.             *)

AddName(n) ==
  /\ Up /\ n \notin entries
  /\ entries' = entries \cup {n}
  /\ UNCHANGED <<front, table, at, crashed, hist>>

RemoveName(n) ==
  /\ Up /\ n \in entries \ {Dot}
  /\ entries' = entries \ {n}
  /\ hist' = [l \in Listers |->
       IF Active(l) THEN [hist[l] EXCEPT !.stayed = @ \ {n}, !.kept = FALSE] ELSE hist[l]]
  /\ UNCHANGED <<front, table, at, crashed>>

(* The process ends, whether or not an assertion failed, and is started     *)
(* again: the table is a static, the handles are gone.                      *)
Restart ==
  /\ table' = NoInfo
  /\ at' = [l \in Listers |-> Closed]
  /\ crashed' = Nobody
  /\ hist' = [l \in Listers |-> NoHist]
  /\ UNCHANGED <<front, entries>>

Init ==
  /\ front \in FrontEnds
  /\ entries = {Dot}
  /\ table = NoInfo
  /\ at = [l \in Listers |-> Closed]
  /\ crashed = Nobody
  /\ hist = [l \in Listers |-> NoHist]

Next ==
  \/ \E l \in Listers :
       \/ dbfs_fuse_opendir(l) \/ dbfs_fuse_readdir(l) \/ Rewind(l) \/ dbfs_fuse_releasedir(l)
       \/ ReaddirBegin(l) \/ ReaddirTurn(l) \/ push_readdir_table(l)
  \/ \E n \in Name : AddName(n) \/ RemoveName(n)
  \/ Restart

Spec == Init /\ [][Next]_vars

-----------------------------------------------------------------------------
(* Properties.                                                              *)

(* The slot is empty or holds an offset and a name, and every lister is at  *)
(* a step of its front end.                                                 *)
TypeOK ==
  /\ front \in FrontEnds
  /\ entries \subseteq Name
  /\ table \in ReadDirInfo \cup {NoInfo}
  /\ \A l \in Listers :
       /\ at[l].do \in {"closed"} \cup (IF front = "fuse" THEN {"open"} ELSE {"read", "push"})
       /\ at[l].pos \in Nat
       /\ at[l].info \in ReadDirInfo \cup {NoInfo}

(* A listing that had the directory to itself and has reached its end has   *)
(* returned every name that was there all the time, and no name twice,      *)
(* whatever names were added and removed between its requests: it goes on   *)
(* after the entry that dbfs_fuse_readdir or dbfs_readdir saved.            *)
ListingsAreExact ==
  \A l \in Listers :
    hist[l].over /\ hist[l].alone => ~hist[l].again /\ hist[l].stayed \subseteq hist[l].got

(* The assertions of dbfs_common_readdir hold for a listing that has the    *)
(* directory to itself, whose replies hold all there is and are taken       *)
(* whole, and from which no name is removed: nothing that earlier listings  *)
(* left in the slot makes it fail.                                          *)
UndisturbedListingsSucceed ==
  \A l \in Listers : crashed = l => ~(hist[l].alone /\ hist[l].smooth /\ hist[l].kept)

(* Under FUSE no saved entry outlives the last handle of the directory:     *)
(* dbfs_fuse_releasedir takes it away, although every handle of the         *)
(* directory shares the slot.                                               *)
NoSlotWithoutHandle == front = "fuse" /\ AllClosed => table = NoInfo

(* Violated: "we need to store the offset and key for the ino so that we    *)
(* can continue to read the directory when the fuse call readdir again".  A *)
(* listing that has the directory to itself, from which no name is removed, *)
(* can be continued, however much of it fits in a reply.                    *)
ListingsContinue ==
  \A l \in Listers : crashed = l => ~(hist[l].alone /\ hist[l].kept)
=============================================================================
