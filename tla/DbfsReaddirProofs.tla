-------------------------- MODULE DbfsReaddirProofs --------------------------
(***************************************************************************)
(* Proofs about DbfsReaddir, for any listers, names and batch size.  The   *)
(* inductive invariant says where the slot stands relative to a listing    *)
(* that has the directory to itself.                                       *)
(***************************************************************************)
EXTENDS DbfsReaddir, FiniteSetTheorems, TLAPS

Info == ReadDirInfo \cup {NoInfo}

Places == [do : {"closed", "open", "read", "push"}, pos : Nat, info : Info]

Histories ==
  [got : SUBSET Name, again : BOOLEAN, stayed : SUBSET Name, alone : BOOLEAN,
   smooth : BOOLEAN, kept : BOOLEAN, over : BOOLEAN]

(* The entry a listing at a will go on after: t is the slot. *)
Saved(a, t) == IF a.do = "push" THEN a.info ELSE t

(* The listing has not got anything yet and the slot is empty. *)
Fresh(h, a, s) == s = NoInfo /\ a.pos = 0 /\ h.got = {} /\ ~h.again

(* The listing is right behind the saved entry and has got, once each, the  *)
(* names up to there.                                                       *)
Follows(h, a, s) ==
  /\ s # NoInfo /\ a.pos = s.offset + 1 /\ ~h.again
  /\ \A n \in h.got : n <= s.key
  /\ \A n \in h.stayed : n <= s.key => n \in h.got

(* The reader is not where the slot is: its next request will be refused. *)
Lost(h, a, s) == a.do = "open" /\ s # NoInfo /\ a.pos # s.offset + 1

Tracks(h, a, t, E) ==
  LET s == Saved(a, t)
  IN /\ h.stayed \subseteq E
     /\ Fresh(h, a, s) \/ Follows(h, a, s) \/ Lost(h, a, s)
     /\ h.smooth /\ h.kept => ~Lost(h, a, s) /\ (s # NoInfo => s.key \in E)

Exact(h) == h.over /\ h.alone => ~h.again /\ h.stayed \subseteq h.got

Shape ==
  /\ at \in [Listers -> Places] /\ hist \in [Listers -> Histories]

AloneIsAlone ==
  \A l \in Listers : Active(l) /\ hist[l].alone => \A k \in Listers \ {l} : ~Active(k)

AloneTracks ==
  \A l \in Listers : Active(l) /\ hist[l].alone => Tracks(hist[l], at[l], table, entries)

AllExact == \A l \in Listers : Exact(hist[l])

IInv ==
  /\ TypeOK /\ Shape
  /\ NoSlotWithoutHandle /\ AloneIsAlone /\ AloneTracks /\ AllExact
  /\ UndisturbedListingsSucceed

USE ReaddirAssumption

-----------------------------------------------------------------------------
(* Sets of names.                                                           *)

LEMMA RestFacts ==
  ASSUME TypeOK
  PROVE  /\ Rest \subseteq entries /\ Rest \subseteq Name
         /\ IsFiniteSet(Rest) /\ Cardinality(Rest) \in Nat
         /\ Rest # {} => Cardinality(Rest) > 0
         /\ \A S \in SUBSET Rest : Cardinality(S) \in Nat /\ Cardinality(S) <= Cardinality(Rest)
<1>1. Rest \subseteq entries /\ Rest \subseteq Name
  BY DEF TypeOK, Rest
<1>2. IsFiniteSet(Rest)
  BY <1>1, FS_Subset
<1>3. Cardinality(Rest) \in Nat
  BY <1>2, FS_CardinalityType
<1>4. Rest # {} => Cardinality(Rest) > 0
  BY <1>2, <1>3, FS_EmptySet
<1>5. \A S \in SUBSET Rest : Cardinality(S) \in Nat /\ Cardinality(S) <= Cardinality(Rest)
  BY <1>2, FS_Subset, FS_CardinalityType
<1>6. QED
  BY <1>1, <1>2, <1>3, <1>4, <1>5

(* The part of a listing after the saved entry, when it is not refused.     *)
LEMMA Unrefused ==
  ASSUME TypeOK, NEW h \in Histories, NEW a \in Places, a.do \in {"open", "read"},
         Tracks(h, a, table, entries), ~Refuses(a.pos)
  PROVE  /\ ~h.again /\ Rest \cap h.got = {}
         /\ \A n \in h.stayed : n \in h.got \/ n \in Rest
         /\ \A n \in h.got, m \in Rest : n <= m
<1>1. Saved(a, table) = table
  BY DEF Saved
<1>2. Fresh(h, a, table) \/ Follows(h, a, table)
  BY <1>1 DEF Tracks, Refuses, Lost
<1>3. h.stayed \subseteq entries /\ h.got \subseteq Nat /\ entries \subseteq Nat
  BY DEF Tracks, Histories, TypeOK
<1>4. CASE Fresh(h, a, table)
  BY <1>3, <1>4 DEF Fresh, Rest
<1>5. CASE Follows(h, a, table)
  <2>1. table \in ReadDirInfo /\ table.key \in Nat
    BY <1>5 DEF Follows, TypeOK, ReadDirInfo
  <2>2. Rest = {n \in entries : n > table.key}
    BY <1>5 DEF Follows, Rest
  <2>3. ASSUME NEW n \in h.got, NEW m \in Rest PROVE n < m
    <3>1. n <= table.key /\ n \in Nat
      BY <1>3, <1>5 DEF Follows
    <3>2. m > table.key /\ m \in Nat
      BY <1>3, <2>2
    <3>3. QED
      BY <2>1, <3>1, <3>2
  <2>4. ASSUME NEW n \in h.stayed PROVE n \in h.got \/ n \in Rest
    <3>1. n \in entries /\ n \in Nat /\ (n <= table.key => n \in h.got)
      BY <1>3, <1>5 DEF Follows
    <3>2. n > table.key => n \in Rest
      BY <2>2, <3>1
    <3>3. n <= table.key \/ n > table.key
      BY <2>1, <3>1
    <3>4. QED
      BY <3>1, <3>2, <3>3
  <2>5. Rest \subseteq Nat
    BY <1>3 DEF Rest
  <2>6. QED
    BY <1>3, <1>5, <2>3, <2>4, <2>5 DEF Follows
<1>6. QED
  BY <1>2, <1>4, <1>5

-----------------------------------------------------------------------------
(* One lister moves.                                                        *)

LEMMA AdvanceStep ==
  ASSUME IInv, Up, NEW l \in Listers, Active(l),
         NEW a \in Places, NEW h \in Histories, NEW t \in Info,
         h.alone = hist[l].alone,
         a.do \in {"closed"} \cup (IF front = "fuse" THEN {"open"} ELSE {"read", "push"}),
         front = "fuse" /\ a.do = "closed" => t = NoInfo,
         h.alone => Exact(h),
         h.alone /\ a.do # "closed" => Tracks(h, a, t, entries),
         at' = [at EXCEPT ![l] = a], hist' = [hist EXCEPT ![l] = h], table' = t,
         front' = front, entries' = entries, crashed' = crashed
  PROVE  IInv'
<1>1. at'[l] = a /\ hist'[l] = h
  BY DEF IInv, Shape
<1>2. \A k \in Listers \ {l} : at'[k] = at[k] /\ hist'[k] = hist[k]
  BY DEF IInv, Shape
<1>3. Shape'
  BY DEF IInv, Shape
<1>4. TypeOK'
  BY <1>1, <1>2 DEF IInv, TypeOK, Places, Info
<1>5. NoSlotWithoutHandle'
  BY <1>1 DEF NoSlotWithoutHandle, AllClosed, Active
<1>6. AloneIsAlone'
  BY <1>1, <1>2 DEF IInv, AloneIsAlone, Active
<1>7. AloneTracks'
  BY <1>1, <1>2 DEF IInv, AloneIsAlone, AloneTracks, Active
<1>8. AllExact'
  BY <1>1, <1>2 DEF IInv, AllExact, Exact
<1>9. UndisturbedListingsSucceed'
  BY DEF UndisturbedListingsSucceed, Up
<1>10. QED
  BY <1>3, <1>4, <1>5, <1>6, <1>7, <1>8, <1>9 DEF IInv

LEMMA FailsStep ==
  ASSUME IInv, Up, NEW l \in Listers, at[l].do \in {"open", "read"},
         Refuses(at[l].pos), Fails(l)
  PROVE  IInv'
<1>1. TypeOK' /\ Shape' /\ NoSlotWithoutHandle' /\ AloneIsAlone' /\ AloneTracks' /\ AllExact'
  BY DEF Fails, IInv, TypeOK, Shape, NoSlotWithoutHandle, AllClosed, AloneIsAlone, AloneTracks,
         AllExact, Active
<1>2. ASSUME hist[l].alone, hist[l].smooth, hist[l].kept PROVE FALSE
  <2>1. Tracks(hist[l], at[l], table, entries) /\ Saved(at[l], table) = table
    BY <1>2 DEF IInv, AloneTracks, Active, Saved
  <2>2. /\ Fresh(hist[l], at[l], table) \/ Follows(hist[l], at[l], table)
        /\ table # NoInfo => table.key \in entries
    BY <1>2, <2>1 DEF Tracks
  <2>3. QED
    BY <2>2 DEF Fresh, Follows, Refuses
<1>3. UndisturbedListingsSucceed'
  BY <1>2 DEF UndisturbedListingsSucceed, Fails
<1>4. QED
  BY <1>1, <1>3 DEF IInv

(* A lister begins. *)
LEMMA BeginStep ==
  ASSUME IInv, Up, NEW l \in Listers, ~Active(l),
         NEW d \in {"open", "read"}, d = "open" <=> front = "fuse",
         at' = [at EXCEPT ![l] = [Closed EXCEPT !.do = d]], hist' = BeginHist(l),
         table' = NoInfo \/ (front = "fuse" /\ table' = table),
         front' = front, entries' = entries, crashed' = crashed
  PROVE  IInv'
<1> DEFINE a == [do |-> d, pos |-> 0, info |-> NoInfo]
           h == NewHist(\A m \in Listers \ {l} : ~Active(m))
<1>1. [Closed EXCEPT !.do = d] = a /\ a \in Places
  BY DEF Closed, Places, Info
<1>2. at'[l] = a /\ \A k \in Listers \ {l} : at'[k] = at[k]
  BY <1>1 DEF IInv, Shape
<1>3. h \in Histories
  BY DEF NewHist, Histories, IInv, TypeOK
<1>4. \A k \in Listers \ {l} :
        /\ hist'[k] = IF Active(k) THEN [hist[k] EXCEPT !.alone = FALSE] ELSE hist[k]
        /\ hist'[k] \in Histories
  BY ZenonT(60) DEF BeginHist, IInv, Shape, Histories
<1>5. hist'[l] = h
  BY DEF BeginHist
<1>6. Shape'
  <2>1. \A k \in Listers : hist'[k] \in Histories
    BY <1>3, <1>4, <1>5
  <2>2. hist' \in [Listers -> Histories]
    BY <2>1 DEF BeginHist
  <2>3. QED
    BY <1>1, <2>2 DEF IInv, Shape
<1>7. TypeOK'
  BY <1>2 DEF IInv, TypeOK, Info
<1>8. NoSlotWithoutHandle'
  BY <1>2 DEF NoSlotWithoutHandle, AllClosed, Active
<1>9. \A k \in Listers \ {l} : Active(k) => ~hist'[k].alone
  BY <1>4 DEF IInv, Shape, Histories
<1>10. h.alone => \A m \in Listers \ {l} : ~Active(m)
  <2>1. h.alone = \A m \in Listers \ {l} : ~Active(m)
    BY Zenon DEF NewHist
  <2>2. QED
    BY <2>1, Zenon
<1>a. /\ h.got = {} /\ h.again = FALSE /\ h.stayed = entries /\ h.smooth = TRUE
      /\ h.kept = TRUE /\ h.over = FALSE
  BY DEF NewHist
<1> HIDE DEF h
<1>11. AloneIsAlone'
  BY <1>2, <1>5, <1>9, <1>10 DEF AloneIsAlone, Active
<1>12. AloneTracks'
  <2>1. h.alone => table' = NoInfo
    BY <1>10 DEF IInv, NoSlotWithoutHandle, AllClosed
  <2>2. h.alone => Tracks(h, a, table', entries)
    BY <1>a, <2>1 DEF Tracks, Saved, Fresh, Lost
  <2>3. QED
    BY <1>2, <1>5, <1>9, <2>2 DEF AloneTracks, Active
<1>13. AllExact'
  <2>1. Exact(h)
    BY <1>a DEF Exact
  <2>2. \A k \in Listers \ {l} : Exact(hist'[k])
    BY <1>4 DEF IInv, AllExact, Exact, Shape, Histories
  <2>3. QED
    BY <1>5, <2>1, <2>2 DEF AllExact
<1>14. UndisturbedListingsSucceed'
  BY DEF UndisturbedListingsSucceed, Up
<1>15. QED
  BY <1>6, <1>7, <1>8, <1>11, <1>12, <1>13, <1>14 DEF IInv

LEMMA OpendirStep ==
  ASSUME IInv, NEW l \in Listers, dbfs_fuse_opendir(l)
  PROVE  IInv'
BY BeginStep DEF dbfs_fuse_opendir

LEMMA ReaddirBeginStep ==
  ASSUME IInv, NEW l \in Listers, ReaddirBegin(l)
  PROVE  IInv'
BY BeginStep DEF ReaddirBegin, pop_readdir_table

-----------------------------------------------------------------------------
(* A lister gets names.                                                     *)

LEMMA GetsFacts ==
  ASSUME NEW h \in Histories, NEW S \in SUBSET Name
  PROVE  /\ Gets(h, S) \in Histories
         /\ Gets(h, S).got = h.got \cup S
         /\ Gets(h, S).again => h.again \/ S \cap h.got # {}
         /\ Gets(h, S).stayed = h.stayed /\ Gets(h, S).alone = h.alone
         /\ Gets(h, S).smooth = h.smooth /\ Gets(h, S).kept = h.kept
         /\ Gets(h, S).over = h.over
<1> DEFINE twice == h.again \/ S \cap h.got # {}
<1>1. twice \in BOOLEAN
  OBVIOUS
<1>2. Gets(h, S) = [h EXCEPT !.got = h.got \cup S, !.again = twice]
  BY DEF Gets
<1>3. h.got \cup S \in SUBSET Name
  BY DEF Histories
<1>4. Gets(h, S).again = twice
  BY <1>2, Zenon DEF Histories
<1> HIDE DEF twice
<1>5. QED
  BY <1>1, <1>2, <1>3, <1>4 DEF Histories, twice

(* A reply that is taken whole leaves the listing right behind the entry    *)
(* saved; g is the history afterwards.                                      *)
LEMMA TakenWhole ==
  ASSUME TypeOK, NEW h \in Histories, NEW a \in Places, a.do \in {"open", "read"},
         Tracks(h, a, table, entries), ~Refuses(a.pos), Rest # {},
         NEW g \in Histories, g.got = h.got \cup Rest, g.stayed = h.stayed,
         g.again => h.again \/ Rest \cap h.got # {},
         NEW x, IsLast(x, Rest),
         NEW b \in Places, b.pos = a.pos + Cardinality(Rest), NEW t,
         Saved(b, t) = [offset |-> a.pos + Cardinality(Rest) - 1, key |-> x]
  PROVE  Tracks(g, b, t, entries)
<1> DEFINE s == [offset |-> a.pos + Cardinality(Rest) - 1, key |-> x]
<1>1. Cardinality(Rest) \in Nat /\ a.pos \in Nat /\ Rest \subseteq entries /\ Rest \subseteq Nat
  BY RestFacts DEF Places
<1>2. b.pos = s.offset + 1 /\ s # NoInfo /\ s.key = x
  BY <1>1 DEF NoInfo, IsLast
<1>3. x \in Rest /\ \A y \in Rest : y <= x
  BY DEF IsLast
<1>4. /\ ~h.again /\ Rest \cap h.got = {}
      /\ \A n \in h.stayed : n \in h.got \/ n \in Rest
      /\ \A n \in h.got : n <= x
  BY <1>3, Unrefused
<1>5. Follows(g, b, s)
  BY <1>2, <1>3, <1>4 DEF Follows
<1>6. g.stayed \subseteq entries
  BY DEF Tracks
<1>7. QED
  <2> HIDE DEF s
  <2>1. Saved(b, t) = s
    BY DEF s
  <2>2. ~Lost(g, b, s)
    BY <1>2 DEF Lost
  <2>3. s.key \in entries
    BY <1>1, <1>2, <1>3
  <2>4. QED
    BY <1>5, <1>6, <2>1, <2>2, <2>3 DEF Tracks

(* After any other reply the reader is behind the entry saved.              *)
LEMMA TakenInPart ==
  ASSUME TypeOK, NEW pos \in Nat, NEW part \in SUBSET Rest, NEW take \in SUBSET part,
         take # Rest, NEW t \in SavedBySend(pos, part)
  PROVE  t # NoInfo /\ pos + Cardinality(take) # t.offset + 1
<1>1. IsFiniteSet(Rest) /\ IsFiniteSet(part)
  BY RestFacts, FS_Subset
<1>2. /\ Cardinality(Rest) \in Nat /\ Cardinality(part) \in Nat /\ Cardinality(take) \in Nat
      /\ Cardinality(take) <= Cardinality(part)
  BY <1>1, RestFacts, FS_Subset, FS_CardinalityType
<1>3. CASE part # Rest
  <2>1. PICK x \in Rest : t = [offset |-> pos + Cardinality(part), key |-> x]
    BY <1>3 DEF SavedBySend
  <2>2. t.offset = pos + Cardinality(part)
    BY <2>1
  <2>3. QED
    BY <1>2, <2>2 DEF NoInfo
<1>4. CASE part = Rest
  <2>1. PICK x \in Rest : t = [offset |-> pos + Cardinality(Rest) - 1, key |-> x]
    BY <1>4 DEF SavedBySend, IsLeast
  <2>2. Cardinality(take) # Cardinality(Rest)
    BY <1>1, <1>4, FS_Subset
  <2>3. Rest # {}
    BY <2>1
  <2>4. Cardinality(Rest) > 0
    BY <2>3, RestFacts
  <2>5. t.offset = pos + Cardinality(Rest) - 1
    BY <2>1
  <2>6. QED
    BY <1>2, <2>2, <2>4, <2>5 DEF NoInfo
<1>5. QED
  BY <1>3, <1>4

LEMMA SavedIsInfo ==
  ASSUME TypeOK, NEW pos \in Nat, NEW part \in SUBSET Rest, NEW t \in SavedBySend(pos, part)
  PROVE  t \in ReadDirInfo
<1>1. PICK n \in Int, x \in Rest : t = [offset |-> n, key |-> x] /\ n >= 0
  <2>1. Cardinality(Rest) \in Nat /\ Cardinality(part) \in Nat
        /\ (Rest # {} => Cardinality(Rest) > 0)
    BY RestFacts
  <2>2. QED
    BY <2>1 DEF SavedBySend
<1>2. QED
  BY <1>1, RestFacts DEF ReadDirInfo

LEMMA ReaddirStep ==
  ASSUME IInv, NEW l \in Listers, dbfs_fuse_readdir(l)
  PROVE  IInv'
<1> DEFINE a == at[l]
           h == hist[l]
<1>1. /\ Up /\ a.do = "open" /\ a \in Places /\ h \in Histories /\ Active(l) /\ TypeOK
      /\ front = "fuse" /\ a.pos \in Nat
  BY DEF dbfs_fuse_readdir, IInv, Shape, Active, TypeOK, Places
<1>2. h.alone => Tracks(h, a, table, entries)
  BY <1>1 DEF IInv, AloneTracks
<1>3. CASE Refuses(a.pos)
  <2>1. Fails(l)
    BY <1>3 DEF dbfs_fuse_readdir
  <2>2. QED
    BY <1>1, <1>3, <2>1, FailsStep
<1>4. CASE ~Refuses(a.pos) /\ Rest = {} /\ hist' = [hist EXCEPT ![l].over = TRUE]
           /\ UNCHANGED <<front, entries, table, at, crashed>>
  <2> DEFINE g == [h EXCEPT !.over = TRUE]
  <2>1. /\ g \in Histories /\ g.alone = h.alone /\ g.again = h.again /\ g.got = h.got
        /\ g.stayed = h.stayed /\ g.smooth = h.smooth /\ g.kept = h.kept
    BY <1>1 DEF Histories
  <2>2. hist' = [hist EXCEPT ![l] = g] /\ at' = [at EXCEPT ![l] = a]
    BY <1>4 DEF IInv, Shape
  <2> HIDE DEF g
  <2>3. g.alone => Exact(g)
    BY <1>1, <1>2, <1>4, <2>1, Unrefused DEF Exact
  <2>4. g.alone => Tracks(g, a, table, entries)
    BY <1>2, <2>1 DEF Tracks, Fresh, Follows, Lost
  <2>5. table \in Info
    BY <1>1 DEF TypeOK, Info
  <2>6. table' = table /\ front' = front /\ entries' = entries /\ crashed' = crashed
    BY <1>4
  <2> HIDE DEF h, a
  <2>7. g.alone = hist[l].alone /\ a.do # "closed"
    BY <1>1, <2>1 DEF h
  <2>8. QED
    BY <1>1, <2>1, <2>2, <2>3, <2>4, <2>5, <2>6, <2>7, AdvanceStep
<1>5. CASE ~Refuses(a.pos) /\ UNCHANGED <<front, entries, crashed>> /\
           \E part, take \in (SUBSET Rest) \ {{}} :
             /\ Initial(part, Rest) /\ Initial(take, part)
             /\ table' \in SavedBySend(a.pos, part)
             /\ at' = [at EXCEPT ![l].pos = @ + Cardinality(take)]
             /\ hist' = [hist EXCEPT ![l] =
                  [Gets(hist[l], take) EXCEPT !.smooth = @ /\ take = Rest]]
  <2>1. PICK part, take \in (SUBSET Rest) \ {{}} :
             /\ Initial(part, Rest) /\ Initial(take, part)
             /\ table' \in SavedBySend(a.pos, part)
             /\ at' = [at EXCEPT ![l].pos = @ + Cardinality(take)]
             /\ hist' = [hist EXCEPT ![l] =
                  [Gets(hist[l], take) EXCEPT !.smooth = @ /\ take = Rest]]
    BY <1>5
  <2>2. take \subseteq part /\ part \subseteq Rest /\ take \subseteq Rest /\ take # {}
        /\ take \in SUBSET Name
    <3>1. part \in SUBSET Rest /\ take \in SUBSET Rest /\ take # {}
      OBVIOUS
    <3>2. take \subseteq part
      BY <2>1 DEF Initial
    <3>3. QED
      BY <1>1, <3>1, <3>2, RestFacts
  <2> DEFINE b == [a EXCEPT !.pos = a.pos + Cardinality(take)]
             whole == Gets(h, take).smooth /\ take = Rest
             g == [Gets(h, take) EXCEPT !.smooth = whole]
  <2>3. at' = [at EXCEPT ![l] = b] /\ hist' = [hist EXCEPT ![l] = g]
    BY <2>1
  <2>4. Cardinality(take) \in Nat
    BY <1>1, <2>2, RestFacts
  <2>5. b \in Places /\ b.do = "open" /\ b.pos = a.pos + Cardinality(take)
    BY <1>1, <2>4 DEF Places
  <2>6. whole \in BOOLEAN
    OBVIOUS
  <2>7. g.smooth = whole
    <3>1. Gets(h, take) \in Histories
      BY <1>1, <2>2, GetsFacts
    <3>2. QED
      BY <3>1, Zenon DEF Histories
  <2>8. /\ g \in Histories /\ g.got = h.got \cup take /\ g.stayed = h.stayed
        /\ g.alone = h.alone /\ g.over = h.over /\ g.kept = h.kept
        /\ g.again => h.again \/ take \cap h.got # {}
    <3> HIDE DEF whole
    <3>1. QED
      BY <1>1, <2>2, <2>6, GetsFacts DEF Histories
  <2>9. g.smooth => take = Rest
    BY <2>7
  <2> HIDE DEF g, b, whole
  <2>10. table' \in ReadDirInfo
    BY <1>1, <2>1, <2>2, SavedIsInfo
  <2>11. g.alone => Exact(g)
    <3>1. SUFFICES ASSUME g.alone, g.over PROVE ~g.again /\ g.stayed \subseteq g.got
      BY DEF Exact
    <3>2. h.stayed \subseteq h.got
      BY <1>1, <2>8, <3>1 DEF IInv, AllExact, Exact
    <3>3. ~h.again /\ Rest \cap h.got = {}
      BY <1>1, <1>2, <1>5, <2>8, <3>1, Unrefused
    <3>4. QED
      BY <2>2, <2>8, <3>2, <3>3
  <2>12. g.alone => Tracks(g, b, table', entries)
    <3> SUFFICES ASSUME g.alone PROVE Tracks(g, b, table', entries)
      OBVIOUS
    <3>1. Tracks(h, a, table, entries) /\ Saved(b, table') = table'
      BY <1>2, <2>5, <2>8 DEF Saved
    <3>2. CASE take = Rest
      <4>1. part = Rest /\ Rest # {}
        BY <2>2, <3>2
      <4>2. PICK x : /\ IsLast(x, Rest)
                     /\ table' = [offset |-> a.pos + Cardinality(Rest) - 1, key |-> x]
        BY <2>1, <4>1 DEF SavedBySend, IsLeast
      <4>3. QED
        BY <1>1, <1>5, <2>5, <2>8, <3>1, <3>2, <4>1, <4>2, TakenWhole
    <3>3. CASE take # Rest
      <4>1. table' # NoInfo /\ b.pos # table'.offset + 1
        BY <1>1, <2>1, <2>2, <2>5, <3>3, TakenInPart
      <4>2. Lost(g, b, table') /\ ~g.smooth
        BY <2>5, <2>9, <3>3, <4>1 DEF Lost
      <4>3. g.stayed \subseteq entries
        BY <2>8, <3>1 DEF Tracks
      <4>4. QED
        BY <3>1, <4>2, <4>3 DEF Tracks
    <3>4. QED
      BY <3>2, <3>3
  <2>13. QED
    BY <1>1, <1>5, <2>3, <2>5, <2>8, <2>10, <2>11, <2>12, AdvanceStep DEF Info
<1>6. QED
  BY <1>3, <1>4, <1>5 DEF dbfs_fuse_readdir

LEMMA RewindStep ==
  ASSUME IInv, NEW l \in Listers, Rewind(l)
  PROVE  IInv'
<1> DEFINE a == at[l]
           h == hist[l]
           b == [a EXCEPT !.pos = 0]
           g == [NewHist(h.alone) EXCEPT !.smooth = FALSE]
<1>1. /\ Up /\ a.do = "open" /\ a \in Places /\ h \in Histories /\ Active(l) /\ TypeOK
      /\ front = "fuse" /\ a.pos > 0
  BY DEF Rewind, IInv, Shape, Active
<1>2. at' = [at EXCEPT ![l] = b] /\ hist' = [hist EXCEPT ![l] = g]
  BY DEF Rewind
<1>3. b \in Places /\ b.do = "open" /\ b.pos = 0
  BY <1>1 DEF Places
<1>4. /\ g \in Histories /\ g.alone = h.alone /\ g.got = {} /\ g.again = FALSE
      /\ g.stayed = entries /\ g.smooth = FALSE /\ g.over = FALSE
  BY <1>1 DEF NewHist, Histories, TypeOK
<1>5. table' = table /\ front' = front /\ entries' = entries /\ crashed' = crashed
  BY DEF Rewind
<1>6. table \in Info
  BY <1>1 DEF TypeOK, Info
<1> HIDE DEF g, b
<1>7. g.alone => Tracks(g, b, table, entries)
  <2> SUFFICES ASSUME g.alone PROVE Tracks(g, b, table, entries)
    OBVIOUS
  <2>1. Tracks(h, a, table, entries) /\ Saved(a, table) = table /\ Saved(b, table) = table
    BY <1>1, <1>3, <1>4 DEF IInv, AloneTracks, Saved
  <2>2. table # NoInfo
    BY <1>1, <2>1 DEF Tracks, Fresh, Follows, Lost
  <2>3. table.offset \in Nat
    BY <1>6, <2>2 DEF Info, ReadDirInfo
  <2>4. Lost(g, b, table)
    BY <1>3, <2>2, <2>3 DEF Lost
  <2>5. QED
    BY <1>4, <2>1, <2>4 DEF Tracks
<1>8. Exact(g)
  BY <1>4 DEF Exact
<1>9. b.do # "closed" /\ g.alone = hist[l].alone
  BY <1>3, <1>4
<1>10. QED
  BY <1>1, <1>2, <1>3, <1>4, <1>5, <1>6, <1>7, <1>8, <1>9, AdvanceStep

LEMMA ReleasedirStep ==
  ASSUME IInv, NEW l \in Listers, dbfs_fuse_releasedir(l)
  PROVE  IInv'
<1>1. at'[l] = Closed /\ \A k \in Listers \ {l} : at'[k] = at[k] /\ hist'[k] = hist[k]
  BY DEF dbfs_fuse_releasedir, IInv, Shape
<1>2. hist'[l] = NoHist /\ table' = NoInfo /\ entries' = entries /\ front' = front /\ Up
      /\ crashed' = crashed
  BY DEF dbfs_fuse_releasedir, pop_readdir_table, IInv, Shape
<1>3. NoHist \in Histories /\ ~NoHist.alone
  BY DEF NoHist, NewHist, Histories, IInv, TypeOK
<1>4. Closed \in Places /\ Closed.do = "closed"
  BY DEF Closed, Places, Info
<1>5. Shape'
  BY <1>3, <1>4 DEF dbfs_fuse_releasedir, IInv, Shape
<1>6. TypeOK' /\ NoSlotWithoutHandle'
  BY <1>1, <1>2 DEF IInv, TypeOK, Closed, NoSlotWithoutHandle
<1>7. AloneIsAlone'
  BY <1>1, <1>4 DEF IInv, AloneIsAlone, Active
<1>8. AloneTracks'
  <2>1. at[l].do # "closed"
    BY DEF dbfs_fuse_releasedir
  <2>2. \A k \in Listers \ {l} : ~(Active(k) /\ hist[k].alone)
    BY <2>1 DEF IInv, AloneIsAlone, Active
  <2>3. QED
    BY <1>1, <1>4, <2>2 DEF AloneTracks, Active
<1>9. AllExact'
  BY <1>1, <1>2, <1>3 DEF IInv, AllExact, Exact
<1>10. UndisturbedListingsSucceed'
  BY <1>2 DEF UndisturbedListingsSucceed, Up
<1>11. QED
  BY <1>5, <1>6, <1>7, <1>8, <1>9, <1>10 DEF IInv

LEMMA ReaddirTurnStep ==
  ASSUME IInv, NEW l \in Listers, ReaddirTurn(l)
  PROVE  IInv'
<1> DEFINE a == at[l]
           h == hist[l]
           over(part) == part = Rest /\ Cardinality(Rest) < Batch
           g(part) == [Gets(h, part) EXCEPT !.over = over(part)]
           last == a.pos + Cardinality(Rest) - 1
           b(x) == [do |-> "push", pos |-> last + 1, info |-> [offset |-> last, key |-> x]]
<1>1. /\ Up /\ a.do = "read" /\ a \in Places /\ h \in Histories /\ Active(l) /\ TypeOK
      /\ front # "fuse" /\ a.pos \in Nat /\ table \in Info
  BY DEF ReaddirTurn, IInv, Shape, Active, TypeOK, Places, Info
<1>2. h.alone => Tracks(h, a, table, entries)
  BY <1>1 DEF IInv, AloneTracks
<1>3. CASE Refuses(a.pos)
  <2>1. Fails(l)
    BY <1>3 DEF ReaddirTurn
  <2>2. QED
    BY <1>1, <1>3, <2>1, FailsStep
<1>4. CASE ~Refuses(a.pos)
  <2>1. PICK part \in SUBSET Rest :
             /\ hist' = [hist EXCEPT ![l] = g(part)]
             /\ \/ /\ part # Rest \/ over(part)
                   /\ at' = [at EXCEPT ![l] = Closed]
                \/ /\ part = Rest /\ ~over(part)
                   /\ \E x \in Rest : IsLast(x, Rest) /\ at' = [at EXCEPT ![l] = b(x)]
    BY <1>4, Zenon DEF ReaddirTurn
  <2>2. table' = table /\ front' = front /\ entries' = entries /\ crashed' = crashed
    BY <1>4 DEF ReaddirTurn
  <2>3. part \in SUBSET Name
    BY <1>1, RestFacts
  <2>4. Gets(h, part) \in Histories
    BY <1>1, <2>3, GetsFacts
  <2>5. g(part).over = over(part)
    BY <2>4, Zenon DEF Histories
  <2>6. over(part) \in BOOLEAN
    OBVIOUS
  <2>7. /\ g(part) \in Histories /\ g(part).got = h.got \cup part /\ g(part).stayed = h.stayed
        /\ g(part).alone = h.alone
        /\ g(part).again => h.again \/ part \cap h.got # {}
    <3> HIDE DEF over
    <3>1. QED
      BY <1>1, <2>3, <2>4, <2>6, GetsFacts DEF Histories
  <2>8. g(part).over => part = Rest
    BY <2>5
  <2> DEFINE gp == g(part)
  <2> HIDE DEF g
  <2>9. gp.alone => Exact(gp)
    <3>1. SUFFICES ASSUME gp.alone, gp.over PROVE ~gp.again /\ gp.stayed \subseteq gp.got
      BY DEF Exact
    <3>2. /\ ~h.again /\ Rest \cap h.got = {}
          /\ \A n \in h.stayed : n \in h.got \/ n \in Rest
      BY <1>1, <1>2, <1>4, <2>7, <3>1, Unrefused
    <3>3. QED
      BY <2>7, <2>8, <3>1, <3>2
  <2>10. CASE at' = [at EXCEPT ![l] = Closed]
    <3>1. Closed \in Places /\ Closed.do = "closed"
      BY DEF Closed, Places, Info
    <3>2. hist' = [hist EXCEPT ![l] = gp] /\ gp \in Histories /\ gp.alone = hist[l].alone
      BY <2>1, <2>7
    <3>3. QED
      BY <1>1, <2>2, <2>9, <2>10, <3>1, <3>2, AdvanceStep
  <2>11. CASE /\ part = Rest
              /\ \E x \in Rest : IsLast(x, Rest) /\ at' = [at EXCEPT ![l] = b(x)]
    <3>1. PICK x \in Rest : IsLast(x, Rest) /\ at' = [at EXCEPT ![l] = b(x)]
      BY <2>11
    <3>2. Cardinality(Rest) \in Nat /\ Cardinality(Rest) > 0 /\ x \in Name
      BY <1>1, RestFacts
    <3>3. last \in Nat /\ last + 1 = a.pos + Cardinality(Rest)
      BY <1>1, <3>2
    <3>4. b(x).info \in Info
      BY <3>2, <3>3 DEF Info, ReadDirInfo
    <3>5. b(x) \in Places /\ b(x).do = "push" /\ b(x).pos = a.pos + Cardinality(Rest)
      BY <3>3, <3>4 DEF Places
    <3>6. Saved(b(x), table) = [offset |-> a.pos + Cardinality(Rest) - 1, key |-> x]
      BY DEF Saved
    <3> DEFINE bx == b(x)
    <3> HIDE DEF b
    <3>7. gp.alone => Tracks(gp, bx, table, entries)
      BY SMTT(60), <1>1, <1>2, <1>4, <2>7, <2>11, <3>1, <3>5, <3>6, TakenWhole
    <3>8. hist' = [hist EXCEPT ![l] = gp] /\ gp \in Histories /\ gp.alone = hist[l].alone
      BY <2>1, <2>7
    <3>9. at' = [at EXCEPT ![l] = bx]
      BY <3>1
    <3>10. bx.do # "closed"
      BY <3>5
    <3>11. QED
      BY <1>1, <2>2, <2>9, <3>5, <3>7, <3>8, <3>9, <3>10, AdvanceStep
  <2>12. QED
    BY <2>1, <2>10, <2>11
<1>5. QED
  BY <1>3, <1>4

LEMMA PushStep ==
  ASSUME IInv, NEW l \in Listers, push_readdir_table(l)
  PROVE  IInv'
<1> DEFINE a == at[l]
           h == hist[l]
           b == [do |-> "read", pos |-> a.pos, info |-> NoInfo]
<1>1. /\ Up /\ a.do = "push" /\ a \in Places /\ h \in Histories /\ Active(l) /\ TypeOK
      /\ front # "fuse" /\ a.info \in Info
  BY DEF push_readdir_table, IInv, Shape, Active, TypeOK, Places
<1>2. /\ at' = [at EXCEPT ![l] = b] /\ table' = a.info /\ front' = front /\ entries' = entries
      /\ crashed' = crashed /\ hist' = [hist EXCEPT ![l] = h]
  BY DEF push_readdir_table, IInv, Shape
<1>3. b \in Places /\ b.do = "read" /\ b.pos = a.pos
  BY <1>1 DEF Places, Info
<1>4. Saved(b, a.info) = a.info /\ Saved(a, table) = a.info
  BY <1>1 DEF Saved
<1> HIDE DEF b
<1>5. h.alone => Tracks(h, b, a.info, entries)
  <2>1. h.alone => Tracks(h, a, table, entries)
    BY <1>1 DEF IInv, AloneTracks
  <2>2. QED
    BY <1>1, <1>3, <1>4, <2>1 DEF Tracks, Fresh, Follows, Lost
<1>6. h.alone => Exact(h)
  BY DEF IInv, AllExact
<1>7. QED
  BY <1>1, <1>2, <1>3, <1>5, <1>6, AdvanceStep

-----------------------------------------------------------------------------
(* The directory and the process.                                           *)

LEMMA AddNameStep ==
  ASSUME IInv, NEW n \in Name, AddName(n)
  PROVE  IInv'
<1>1. /\ entries' = entries \cup {n} /\ table' = table /\ at' = at /\ front' = front
      /\ crashed' = crashed /\ hist' = hist
  BY DEF AddName
<1>2. /\ TypeOK' /\ Shape' /\ NoSlotWithoutHandle' /\ AloneIsAlone' /\ AllExact'
      /\ UndisturbedListingsSucceed'
  BY <1>1 DEF IInv, TypeOK, Shape, NoSlotWithoutHandle, AllClosed, AloneIsAlone, AllExact,
              UndisturbedListingsSucceed, Active
<1>3. \A h, a : Tracks(h, a, table, entries) => Tracks(h, a, table, entries \cup {n})
  BY DEF Tracks
<1>4. AloneTracks'
  BY <1>1, <1>3 DEF IInv, AloneTracks, Active
<1>5. QED
  BY <1>2, <1>4 DEF IInv

LEMMA RemoveNameStep ==
  ASSUME IInv, NEW n \in Name, RemoveName(n)
  PROVE  IInv'
<1> DEFINE g(l) == [hist[l] EXCEPT !.stayed = hist[l].stayed \ {n}, !.kept = FALSE]
<1>1. /\ Up /\ entries' = entries \ {n} /\ table' = table /\ at' = at /\ front' = front
      /\ crashed' = crashed
      /\ hist' = [l \in Listers |-> IF Active(l) THEN g(l) ELSE hist[l]]
  BY DEF RemoveName
<1>2. ASSUME NEW l \in Listers
      PROVE  /\ g(l) \in Histories /\ g(l).got = hist[l].got /\ g(l).again = hist[l].again
             /\ g(l).stayed = hist[l].stayed \ {n} /\ g(l).alone = hist[l].alone
             /\ g(l).kept = FALSE /\ g(l).over = hist[l].over /\ hist[l] \in Histories
  BY DEF IInv, Shape, Histories
<1> HIDE DEF g
<1>3. Shape'
  BY <1>1, <1>2 DEF IInv, Shape
<1>4. \A l \in Listers : hist'[l] = IF Active(l) THEN g(l) ELSE hist[l]
  BY <1>1
<1>5. \A l \in Listers : hist'[l].alone = hist[l].alone
  BY <1>2, <1>4
<1>6. TypeOK' /\ NoSlotWithoutHandle' /\ UndisturbedListingsSucceed'
  BY <1>1 DEF IInv, TypeOK, NoSlotWithoutHandle, AllClosed, UndisturbedListingsSucceed, Active, Up
<1>7. AloneIsAlone'
  BY <1>1, <1>5 DEF IInv, AloneIsAlone, Active
<1>8. AloneTracks'
  <2>1. SUFFICES ASSUME NEW l \in Listers, Active(l), hist[l].alone
                 PROVE  Tracks(g(l), at[l], table, entries \ {n})
    BY <1>1, <1>4, <1>5 DEF AloneTracks, Active
  <2>2. Tracks(hist[l], at[l], table, entries)
    BY <2>1 DEF IInv, AloneTracks
  <2>3. QED
    BY <1>2, <2>2 DEF Tracks, Fresh, Follows, Lost
<1>9. AllExact'
  BY <1>2, <1>4 DEF IInv, AllExact, Exact
<1>10. QED
  BY <1>3, <1>6, <1>7, <1>8, <1>9 DEF IInv

LEMMA Started ==
  ASSUME TypeOK \/ (front \in FrontEnds /\ entries = {Dot}), table = NoInfo,
         at = [l \in Listers |-> Closed], crashed = Nobody, hist = [l \in Listers |-> NoHist]
  PROVE  IInv
<1>1. entries \subseteq Name /\ front \in FrontEnds
  BY DEF TypeOK
<1>2. NoHist \in Histories /\ ~NoHist.alone
  BY <1>1 DEF NoHist, NewHist, Histories
<1>3. Closed \in Places /\ Closed.do = "closed" /\ Closed.pos = 0 /\ Closed.info = NoInfo
  BY DEF Closed, Places, Info
<1>4. TypeOK /\ Shape
  BY <1>1, <1>2, <1>3 DEF TypeOK, Shape
<1>5. NoSlotWithoutHandle /\ AloneIsAlone /\ AloneTracks
  BY <1>2, <1>3 DEF NoSlotWithoutHandle, AloneIsAlone, AloneTracks, Active
<1>6. AllExact /\ UndisturbedListingsSucceed
  BY <1>2 DEF AllExact, Exact, UndisturbedListingsSucceed
<1>7. QED
  BY <1>4, <1>5, <1>6 DEF IInv

LEMMA RestartStep ==
  ASSUME IInv, Restart
  PROVE  IInv'
<1>1. /\ front' \in FrontEnds /\ entries' \subseteq Name /\ table' = NoInfo
      /\ at' = [l \in Listers |-> Closed] /\ crashed' = Nobody
      /\ hist' = [l \in Listers |-> NoHist]
  BY DEF Restart, IInv, TypeOK
<1>2. NoHist \in Histories /\ ~NoHist.alone
  BY <1>1 DEF NoHist, NewHist, Histories, IInv, TypeOK
<1>3. Closed \in Places /\ Closed.do = "closed" /\ Closed.pos = 0 /\ Closed.info = NoInfo
  BY DEF Closed, Places, Info
<1>4. TypeOK' /\ Shape'
  BY <1>1, <1>2, <1>3 DEF TypeOK, Shape
<1>5. NoSlotWithoutHandle' /\ AloneIsAlone' /\ AloneTracks'
  BY <1>1, <1>2, <1>3 DEF NoSlotWithoutHandle, AloneIsAlone, AloneTracks, Active
<1>6. AllExact' /\ UndisturbedListingsSucceed'
  BY <1>1, <1>2 DEF AllExact, Exact, UndisturbedListingsSucceed
<1>7. QED
  BY <1>4, <1>5, <1>6 DEF IInv

-----------------------------------------------------------------------------
LEMMA NextIInv == IInv /\ [Next]_vars => IInv'
<1> SUFFICES ASSUME IInv, [Next]_vars PROVE IInv'
  OBVIOUS
<1>1. CASE UNCHANGED vars
  BY <1>1 DEF vars, IInv, TypeOK, Shape, NoSlotWithoutHandle, AllClosed, AloneIsAlone,
              AloneTracks, AllExact, UndisturbedListingsSucceed, Active
<1>2. ASSUME NEW l \in Listers,
             \/ dbfs_fuse_opendir(l) \/ dbfs_fuse_readdir(l) \/ Rewind(l)
             \/ dbfs_fuse_releasedir(l)
             \/ ReaddirBegin(l) \/ ReaddirTurn(l) \/ push_readdir_table(l)
      PROVE  IInv'
  BY <1>2, OpendirStep, ReaddirStep, RewindStep, ReleasedirStep, ReaddirBeginStep,
     ReaddirTurnStep, PushStep
<1>3. QED
  BY <1>1, <1>2, AddNameStep, RemoveNameStep, RestartStep DEF Next

LEMMA Inductive == Spec => []IInv
<1>1. Init => IInv
  BY Started DEF Init
<1>2. QED
  BY <1>1, NextIInv, PTL DEF Spec

(* Offsets in the slot never go below zero, and a lister is always at a     *)
(* step of its own front end.                                               *)
THEOREM ReaddirTypeCorrect == Spec => []TypeOK
<1>1. IInv => TypeOK
  BY DEF IInv
<1>2. QED
  BY Inductive, <1>1, PTL

(* However the replies are cut, however many handles share the slot and     *)
(* whatever is added and removed, a listing that is alone and comes to its  *)
(* end has every name that stayed, and none twice.                          *)
THEOREM ListingsExact == Spec => []ListingsAreExact
<1>1. IInv => ListingsAreExact
  BY DEF IInv, AllExact, Exact, ListingsAreExact
<1>2. QED
  BY Inductive, <1>1, PTL

(* The assertions of dbfs_common_readdir do not fail for a listing that is  *)
(* alone, whose replies hold all there is, when no name is removed.         *)
THEOREM UndisturbedSucceed == Spec => []UndisturbedListingsSucceed
<1>1. IInv => UndisturbedListingsSucceed
  BY DEF IInv
<1>2. QED
  BY Inductive, <1>1, PTL

(* dbfs_fuse_releasedir leaves no saved entry behind the last handle.       *)
THEOREM SlotsAreReleased == Spec => []NoSlotWithoutHandle
<1>1. IInv => NoSlotWithoutHandle
  BY DEF IInv
<1>2. QED
  BY Inductive, <1>1, PTL
=============================================================================
