---------------------------- MODULE RoomOpsProofs ----------------------------
(***************************************************************************)
(* Proofs about RoomOps, for any room, any ops and op_ids and any limits.  *)
(*                                                                         *)
(* The first part is about requests: what comes again, late or out of order*)
(* changes nothing, unless the user approved it after 30 days.  What an op *)
(* does is not looked at: the argument is about the two clocks.  An op that*)
(* ran either still has its stored answer, which is the one its device     *)
(* heard, or it has grown so old that the device holds it.                 *)
(*                                                                         *)
(* The second part is about the tables.  Every handler is shown to change  *)
(* nothing or to do one of six things (OpChange): to write a row of an     *)
(* item, a row of a list, a list with some of its items, or the room's     *)
(* name, or to take away an item or a list with its items.  That a room    *)
(* fits its limits, what its seq tells, what a share link reaches and what *)
(* an op with a base may write then follow from these six, whatever the op.*)
(***************************************************************************)
EXTENDS RoomOps, SequenceFilterProofs, TLAPS

-----------------------------------------------------------------------------
(* Requests and answers.                                                   *)

Ages == {"fresh", "held", "approved"}

\* A composed op: what it is and how old.
IsDraft(d) ==
    /\ d = [field \in {"op", "seen", "age"} |-> d[field]]
    /\ d.age \in Ages

\* The op ran, or its request was answered.
WasHeard(id) == runs[id] > 0 \/ id \in DOMAIN heard

RetryInv ==
    /\ DOMAIN drafts \subseteq OpIds
    /\ DOMAIN processed \subseteq OpIds
    /\ runs \in [OpIds -> Nat]
    /\ \A id \in OpIds :
          /\ id \in DOMAIN drafts => IsDraft(drafts[id])
          /\ WasHeard(id) => /\ id \in DOMAIN drafts
                             /\ id \in DOMAIN processed \/ drafts[id].age # "fresh"
          /\ id \in DOMAIN processed => /\ id \in DOMAIN heard
                                        /\ heard[id] = processed[id].answer

\* One step as RetriesChangeNothing sees it.
NothingChanges ==
    \A id \in OpIds :
        \/ runs[id] > 0 /\ runs'[id] # runs[id]
        \/ id \in DOMAIN heard /\ heard'[id] # heard[id]
        => drafts[id].age = "approved"

-----------------------------------------------------------------------------
\* A step of the device leaves the server's tables alone.
LEMMA DeviceStep ==
    ASSUME RetryInv, NEW id \in OpIds, NEW draft, IsDraft(draft),
           DOMAIN drafts' = DOMAIN drafts \cup {id}, drafts'[id] = draft,
           \A d \in DOMAIN drafts \ {id} : drafts'[d] = drafts[d],
           WasHeard(id) => id \in DOMAIN processed \/ draft.age # "fresh",
           UNCHANGED <<processed, runs, heard>>
    PROVE  RetryInv' /\ NothingChanges
<1>1. RetryInv'
  BY DEF RetryInv, WasHeard
<1>2. NothingChanges
  BY DEF NothingChanges
<1> QED BY <1>1, <1>2

\* A new op has not been heard of.
LEMMA ComposeKeeps ==
    ASSUME RetryInv, NEW id \in OpIds, Compose(id)
    PROVE  RetryInv' /\ NothingChanges
<1>1. PICK op :
         drafts' = Stored(drafts, id, [op |-> op, seen |-> RowOf(op), age |-> "fresh"])
  BY DEF Compose
<1> DEFINE draft == [op |-> op, seen |-> RowOf(op), age |-> "fresh"]
<1>2. IsDraft(draft)
  BY DEF IsDraft, Ages
<1>3. ~WasHeard(id)
  BY DEF Compose, RetryInv
<1>4. drafts' = Stored(drafts, id, draft)
  BY <1>1
<1> HIDE DEF draft
<1>5. UNCHANGED <<processed, runs, heard>>
  BY DEF Compose
<1>6. /\ DOMAIN drafts' = DOMAIN drafts \cup {id}
      /\ drafts'[id] = draft
      /\ \A d \in DOMAIN drafts \ {id} : drafts'[d] = drafts[d]
  BY <1>4 DEF Stored
<1> QED BY <1>2, <1>3, <1>5, <1>6, DeviceStep

\* An op grows old, or is approved; it is not fresh either way.
LEMMA AgesKeep ==
    ASSUME RetryInv, NEW id \in OpIds, Hold(id) \/ Approve(id)
    PROVE  RetryInv' /\ NothingChanges
<1>1. id \in DOMAIN drafts /\ IsDraft(drafts[id])
  BY DEF Hold, Approve, RetryInv
<1>2. PICK age \in {"held", "approved"} :
         drafts' = [drafts EXCEPT ![id] = [drafts[id] EXCEPT !.age = age]]
  BY DEF Hold, Approve
<1> DEFINE draft == [drafts[id] EXCEPT !.age = age]
<1>3. IsDraft(draft) /\ draft.age # "fresh"
  BY <1>1 DEF IsDraft, Ages
<1>4. drafts' = [drafts EXCEPT ![id] = draft]
  BY <1>2
<1> HIDE DEF draft
<1>5. /\ DOMAIN drafts' = DOMAIN drafts \cup {id}
      /\ drafts'[id] = draft
      /\ \A d \in DOMAIN drafts \ {id} : drafts'[d] = drafts[d]
  BY <1>1, <1>4
<1>6. UNCHANGED <<processed, runs, heard>>
  BY DEF Hold, Approve
<1> QED BY <1>3, <1>5, <1>6, DeviceStep

\* The op runs: for the first time, or the user approved it.
LEMMA RunOpKeeps ==
    ASSUME RetryInv, NEW id \in OpIds, RunOp(id)
    PROVE  RetryInv' /\ NothingChanges
<1> DEFINE answer == AnswerTo(drafts[id].op, Outcome(room, drafts[id].op))
<1>1. /\ id \in DOMAIN drafts /\ drafts[id].age \in {"fresh", "approved"}
      /\ id \notin DOMAIN processed /\ drafts' = drafts
  BY DEF RunOp, MaySend
<1>2. CASE UNCHANGED <<processed, runs, heard>>
  BY <1>1, <1>2 DEF RetryInv, NothingChanges, WasHeard
<1>3. CASE /\ processed' = Stored(processed, id, [op |-> drafts[id].op, answer |-> answer])
           /\ heard' = Stored(heard, id, answer)
           /\ runs' = [runs EXCEPT ![id] = IF answer.status = "applied" THEN @ + 1 ELSE @]
  <2> HIDE DEF answer
  <2>1. /\ runs' \in [OpIds -> Nat]
        /\ \A d \in OpIds \ {id} : runs'[d] = runs[d]
    BY <1>3 DEF RetryInv
  <2> DEFINE row == [op |-> drafts[id].op, answer |-> answer]
  <2>2. row.answer = answer /\ processed' = Stored(processed, id, row)
    BY <1>3
  <2> HIDE DEF row
  <2>3. /\ DOMAIN processed' = DOMAIN processed \cup {id}
        /\ processed'[id].answer = answer
        /\ \A d \in DOMAIN processed \ {id} : processed'[d] = processed[d]
    BY <2>2 DEF Stored
  <2>4. /\ DOMAIN heard' = DOMAIN heard \cup {id}
        /\ heard'[id] = answer
        /\ \A d \in DOMAIN heard \ {id} : heard'[d] = heard[d]
    BY <1>3 DEF Stored
  <2>5. RetryInv'
    BY <1>1, <2>1, <2>3, <2>4 DEF RetryInv, WasHeard
  <2>6. NothingChanges
    BY <1>1, <2>1, <2>3, <2>4 DEF RetryInv, NothingChanges, WasHeard
  <2> QED BY <2>5, <2>6
<1> QED BY <1>2, <1>3 DEF RunOp

\* The stored answer is the one that was heard.
LEMMA ReplayOpKeeps ==
    ASSUME RetryInv, NEW id \in OpIds, ReplayOp(id)
    PROVE  RetryInv' /\ NothingChanges
<1>1. /\ id \in DOMAIN processed /\ id \in DOMAIN heard /\ heard[id] = processed[id].answer
      /\ heard' = Stored(heard, id, processed[id].answer)
      /\ UNCHANGED <<processed, drafts, runs>>
  BY DEF ReplayOp, RetryInv
<1>2. DOMAIN heard' = DOMAIN heard /\ \A d \in DOMAIN heard : heard'[d] = heard[d]
  BY <1>1 DEF Stored
<1> QED BY <1>1, <1>2 DEF RetryInv, NothingChanges, WasHeard

\* The answer of an op that has grown old is forgotten.
LEMMA ForgetKeeps ==
    ASSUME RetryInv, NEW id \in OpIds, Forget(id)
    PROVE  RetryInv' /\ NothingChanges
<1>1. /\ drafts[id].age # "fresh"
      /\ DOMAIN processed' = DOMAIN processed \ {id}
      /\ \A d \in DOMAIN processed' : processed'[d] = processed[d]
      /\ UNCHANGED <<drafts, runs, heard>>
  BY DEF Forget
<1> QED BY <1>1 DEF RetryInv, NothingChanges, WasHeard

\* Every step keeps the invariant of requests.
LEMMA RetryNext ==
    ASSUME RetryInv, [Next]_vars
    PROVE  RetryInv' /\ NothingChanges
<1>1. ASSUME NEW id \in OpIds,
             \/ Compose(id) \/ RunOp(id) \/ ReplayOp(id) \/ Hold(id) \/ Approve(id) \/ Forget(id)
      PROVE  RetryInv' /\ NothingChanges
  BY <1>1, ComposeKeeps, AgesKeep, RunOpKeeps, ReplayOpKeeps, ForgetKeeps
<1>2. CASE UNCHANGED vars
  BY <1>2 DEF vars, RetryInv, NothingChanges, WasHeard
<1> QED BY <1>1, <1>2 DEF Next

\* The inductive invariant of requests and answers.
THEOREM RetryInvariant == Spec => []RetryInv
<1>1. Init => RetryInv
  BY DEF Init, RetryInv, WasHeard
<1>2. RetryInv /\ [Next]_vars => RetryInv'
  BY RetryNext
<1> QED BY <1>1, <1>2, PTL DEF Spec

\* Whatever the network does with a request, its op runs once and is answered
\* once, until the user sends it again after 30 days.
THEOREM RepeatsChangeNothing == Spec => RetriesChangeNothing
<1>1. RetryInv /\ [Next]_vars =>
        [\A id \in OpIds :
            \/ runs[id] > 0 /\ runs'[id] # runs[id]
            \/ id \in DOMAIN heard /\ heard'[id] # heard[id]
            => drafts[id].age = "approved"]_vars
  BY RetryNext DEF NothingChanges
<1> QED BY <1>1, RetryInvariant, PTL DEF Spec, RetriesChangeNothing

-----------------------------------------------------------------------------
(* Rooms that fit.                                                         *)

\* The rows have their types, and none has a seq that the room has not reached.
RowsOK(r) ==
    /\ r \in Room
    /\ \A l \in RealLists(r) : r.lists[l].seq <= r.seq
    /\ \A i \in Items : r.items[i] # None => r.items[i].seq <= r.seq

\* TablesOK and TagsOK of any room, row by row.
ItemsFit(r) ==
    /\ \A i, j \in Items :
          /\ r.items[i] # None /\ r.items[j] # None
          /\ r.items[i].list = r.items[j].list /\ r.items[i].name = r.items[j].name
          => i = j
    /\ \A l \in RealLists(r) : Cardinality(ItemsIn(r, l)) <= MaxItems
    /\ \A i \in Items : r.items[i] # None =>
          /\ r.items[i].list \in RealLists(r)
          /\ i \notin r.gone
          /\ IsInjective(r.items[i].tags)

ListsFit(r) ==
    /\ \A l, m \in RealLists(r) : r.lists[l].name = r.lists[m].name => l = m
    /\ Cardinality(RealLists(r)) <= MaxLists
    /\ \A l \in RealLists(r) :
          /\ l \notin r.gone
          /\ r.lists[l].colored \subseteq r.lists[l].tags
          /\ Cardinality(r.lists[l].tags) <= MaxTags

RoomOK(r) == RowsOK(r) /\ ItemsFit(r) /\ ListsFit(r)

\* Two rows that differ in more than their seq.
ShowsOther(a, b) == [a EXCEPT !.seq = 0] # [b EXCEPT !.seq = 0]

\* A row that may be written for item i of list l: one of its own or a new one.
ItemMayBe(r, l, i, row) ==
    /\ l \in RealLists(r) /\ i \in Items
    /\ row \in ItemRow /\ row.list = l /\ IsInjective(row.tags)
    /\ Named(r, l, row.name) \subseteq {i}
    /\ \/ i \in ItemsIn(r, l) /\ ShowsOther(row, r.items[i])
       \/ ~UidInUse(r, i) /\ Cardinality(ItemsIn(r, l)) < MaxItems

\* The same for a list.
ListMayBe(r, l, row) ==
    /\ l \in Lists
    /\ row \in ListRow /\ row.colored \subseteq row.tags /\ Cardinality(row.tags) <= MaxTags
    /\ \A m \in RealLists(r) : r.lists[m].name = row.name => m = l
    /\ \/ l \in RealLists(r) /\ ShowsOther(row, r.lists[l])
       \/ ~UidInUse(r, l) /\ Cardinality(RealLists(r)) < MaxLists

-----------------------------------------------------------------------------
(* Sets and rows.                                                          *)

\* Any set of uids or of tags can be counted.
LEMMA Finite ==
    ASSUME NEW S, S \in SUBSET Lists \/ S \in SUBSET Items \/ S \in SUBSET Tags
    PROVE  IsFiniteSet(S) /\ Cardinality(S) \in Nat
<1>1. S \in SUBSET (Lists \cup Items \cup Tags)
  OBVIOUS
<1>2. IsFiniteSet(S)
  BY <1>1, UidsAndTags, FS_Subset
<1> QED BY <1>2, FS_CardinalityType

\* The limits count; the proofs say that two are one.
LEMMA OneAtMost ==
    ASSUME NEW S, IsFiniteSet(S)
    PROVE  Cardinality(S) <= 1 <=> \A x, y \in S : x = y
<1>1. ASSUME Cardinality(S) <= 1, NEW x \in S, NEW y \in S, x # y
      PROVE  FALSE
  <2>1. IsFiniteSet({x}) /\ Cardinality({x}) = 1
    BY FS_Singleton
  <2>2. Cardinality({x} \cup {y}) = 2
    BY <1>1, <2>1, FS_AddElement
  <2>3. {x} \cup {y} \in SUBSET S
    OBVIOUS
  <2>4. Cardinality({x} \cup {y}) <= Cardinality(S) /\ Cardinality(S) \in Nat
    BY <2>3, FS_Subset, FS_CardinalityType
  <2> QED BY <1>1, <2>2, <2>4
<1>2. ASSUME \A x, y \in S : x = y
      PROVE  Cardinality(S) <= 1
  <2>1. CASE S = {}
    BY <2>1, FS_EmptySet
  <2>2. CASE S # {}
    <3>1. PICK x \in S : TRUE
      BY <2>2
    <3>2. S = {x}
      BY <1>2, <3>1
    <3> QED BY <3>2, FS_Singleton
  <2> QED BY <2>1, <2>2
<1> QED BY <1>1, <1>2

\* A row as it is stored, with a seq of its own.
LEMMA ItemRowIs ==
    ASSUME NEW row \in ItemRow, NEW n \in Nat
    PROVE  /\ [row EXCEPT !.seq = n] \in ItemRow
           /\ [row EXCEPT !.seq = n] # None
           /\ [row EXCEPT !.seq = n].seq = n
           /\ [row EXCEPT !.seq = n].list = row.list
           /\ [row EXCEPT !.seq = n].name = row.name
           /\ [row EXCEPT !.seq = n].tags = row.tags
           /\ [[row EXCEPT !.seq = n] EXCEPT !.seq = 0] = [row EXCEPT !.seq = 0]
<1>1. [row EXCEPT !.seq = n] \in ItemRow
  BY DEF ItemRow
<1>2. [row EXCEPT !.seq = n] # None
  BY <1>1, NoneIsNoRow
<1> QED BY <1>1, <1>2 DEF ItemRow

\* The same for a list.
LEMMA ListRowIs ==
    ASSUME NEW row \in ListRow, NEW n \in Nat
    PROVE  /\ [row EXCEPT !.seq = n] \in ListRow
           /\ [row EXCEPT !.seq = n] # None
           /\ [row EXCEPT !.seq = n].seq = n
           /\ [row EXCEPT !.seq = n].name = row.name
           /\ [row EXCEPT !.seq = n].tags = row.tags
           /\ [row EXCEPT !.seq = n].colored = row.colored
           /\ [row EXCEPT !.seq = n].settings = row.settings
           /\ [[row EXCEPT !.seq = n] EXCEPT !.seq = 0] = [row EXCEPT !.seq = 0]
<1>1. [row EXCEPT !.seq = n] \in ListRow
  BY DEF ListRow
<1>2. [row EXCEPT !.seq = n] # None
  BY <1>1, NoneIsNoRow
<1> QED BY <1>1, <1>2 DEF ListRow

\* The parts of a room.
LEMMA RoomIs ==
    ASSUME NEW r \in Room
    PROVE  /\ r.seq \in Nat /\ r.name \in Names /\ r.gone \in SUBSET (Lists \cup Items)
           /\ \A l \in Lists : r.lists[l] \in ListRow \cup {None}
           /\ \A i \in Items : r.items[i] \in ItemRow \cup {None}
           /\ r.lists = [l \in Lists |-> r.lists[l]]
           /\ r.items = [i \in Items |-> r.items[i]]
BY DEF Room

-----------------------------------------------------------------------------
(* What a write of one row does to the room.                               *)

\* An item's row is written with the room's next seq.
LEMMA PutItemIs ==
    ASSUME NEW r \in Room, NEW i \in Items, NEW row \in ItemRow, NEW q, q = PutItem(r, i, row)
    PROVE  /\ q \in Room /\ q.seq = r.seq + 1
           /\ q.name = r.name /\ q.lists = r.lists /\ q.gone = r.gone
           /\ q.items[i] = [row EXCEPT !.seq = r.seq + 1]
           /\ \A j \in Items \ {i} : q.items[j] = r.items[j]
<1> DEFINE stored == [row EXCEPT !.seq = r.seq + 1]
<1>1. r.seq \in Nat /\ r.seq + 1 \in Nat
  BY DEF Room
<1>2. stored \in ItemRow
  BY <1>1, ItemRowIs
<1>3. q = [r EXCEPT !.seq = r.seq + 1, !.items = [r.items EXCEPT ![i] = stored]]
  BY DEF PutItem, Room
<1> HIDE DEF stored
<1>4. [r.items EXCEPT ![i] = stored] \in [Items -> ItemRow \cup {None}]
  BY <1>2 DEF Room
<1> DEFINE items == [r.items EXCEPT ![i] = stored]
<1>5. q = [seq |-> r.seq + 1, name |-> r.name, lists |-> r.lists, items |-> items, gone |-> r.gone]
  BY <1>3 DEF Room
<1> HIDE DEF items
<1>7. q \in Room /\ q.items = items
  BY <1>1, <1>4, <1>5 DEF Room, items
<1>6. q.seq = r.seq + 1 /\ q.name = r.name /\ q.lists = r.lists /\ q.gone = r.gone
  BY <1>5
<1> QED BY <1>6, <1>7 DEF stored, items, Room

\* The same for a list.
LEMMA PutListIs ==
    ASSUME NEW r \in Room, NEW l \in Lists, NEW row \in ListRow, NEW q, q = PutList(r, l, row)
    PROVE  /\ q \in Room /\ q.seq = r.seq + 1
           /\ q.name = r.name /\ q.items = r.items /\ q.gone = r.gone
           /\ q.lists[l] = [row EXCEPT !.seq = r.seq + 1]
           /\ \A m \in Lists \ {l} : q.lists[m] = r.lists[m]
<1> DEFINE stored == [row EXCEPT !.seq = r.seq + 1]
<1>1. r.seq \in Nat /\ r.seq + 1 \in Nat
  BY DEF Room
<1>2. stored \in ListRow
  BY <1>1, ListRowIs
<1>3. q = [r EXCEPT !.seq = r.seq + 1, !.lists = [r.lists EXCEPT ![l] = stored]]
  BY DEF PutList, Room
<1> HIDE DEF stored
<1>4. [r.lists EXCEPT ![l] = stored] \in [Lists -> ListRow \cup {None}]
  BY <1>2 DEF Room
<1> DEFINE lists == [r.lists EXCEPT ![l] = stored]
<1>5. q = [seq |-> r.seq + 1, name |-> r.name, lists |-> lists, items |-> r.items, gone |-> r.gone]
  BY <1>3 DEF Room
<1> HIDE DEF lists
<1>7. q \in Room /\ q.lists = lists
  BY <1>1, <1>4, <1>5 DEF Room, lists
<1>6. q.seq = r.seq + 1 /\ q.name = r.name /\ q.items = r.items /\ q.gone = r.gone
  BY <1>5
<1> QED BY <1>6, <1>7 DEF stored, lists, Room

-----------------------------------------------------------------------------
\* A row that may be written leaves the tables fitting.
LEMMA PutItemFits ==
    ASSUME NEW r, RoomOK(r), NEW l, NEW i, NEW row, ItemMayBe(r, l, i, row),
           NEW q, q = PutItem(r, i, row)
    PROVE  RoomOK(q)
<1>1. /\ r \in Room /\ i \in Items /\ row \in ItemRow /\ l \in RealLists(r) /\ l \in Lists
      /\ row.list = l /\ r.seq \in Nat /\ IsInjective(row.tags)
  BY RoomIs DEF RoomOK, RowsOK, ItemMayBe, RealLists
<1>2. /\ q \in Room /\ q.seq = r.seq + 1
      /\ q.lists = r.lists /\ q.gone = r.gone
      /\ q.items[i] = [row EXCEPT !.seq = r.seq + 1]
      /\ \A j \in Items \ {i} : q.items[j] = r.items[j]
  BY <1>1, PutItemIs
<1>3. /\ q.items[i] \in ItemRow /\ q.items[i] # None /\ q.items[i].seq = r.seq + 1
      /\ q.items[i].list = l /\ q.items[i].name = row.name /\ q.items[i].tags = row.tags
  <2> PICK n \in Nat : n = r.seq + 1
    BY <1>1
  <2> DEFINE e == [row EXCEPT !.seq = n]
  <2>1. q.items[i] = e
    BY <1>2
  <2>2. /\ e \in ItemRow /\ e # None /\ e.seq = n
        /\ e.list = l /\ e.name = row.name /\ e.tags = row.tags
    BY <1>1, ItemRowIs
  <2> HIDE DEF e
  <2> QED BY <2>1, <2>2
<1>4. RealLists(q) = RealLists(r)
  BY <1>2 DEF RealLists
<1>5. \A j \in Items : r.items[j] # None => r.items[j].seq \in Nat
  BY <1>1 DEF Room, ItemRow
<1>6. RowsOK(q)
  <2>1. \A m \in RealLists(r) : r.lists[m].seq \in Nat
    BY <1>1 DEF Room, ListRow, RealLists
  <2>0. \A m \in RealLists(r) : r.lists[m].seq <= r.seq
    BY DEF RoomOK, RowsOK
  <2>2. \A m \in RealLists(q) : q.lists[m].seq <= q.seq
    BY <1>1, <1>2, <1>4, <2>0, <2>1
  <2>4. \A j \in Items : r.items[j] # None => r.items[j].seq <= r.seq
    BY DEF RoomOK, RowsOK
  <2>5. \A j \in Items \ {i} : q.items[j] # None => q.items[j].seq <= q.seq
    BY <1>1, <1>2, <1>5, <2>4
  <2>6. q.items[i].seq <= q.seq
    BY <1>1, <1>2, <1>3
  <2>3. \A j \in Items : q.items[j] # None => q.items[j].seq <= q.seq
    BY <2>5, <2>6
  <2> QED BY <1>2, <2>2, <2>3 DEF RowsOK
<1>7. ListsFit(q)
  BY <1>2, <1>4 DEF ListsFit, RoomOK
<1>8. i \notin r.gone
  BY <1>1 DEF ItemMayBe, ItemsIn, RoomOK, ItemsFit, UidInUse
<1>9. ASSUME NEW m \in RealLists(q)
      PROVE  Cardinality(ItemsIn(q, m)) <= MaxItems
  <2>1. /\ ItemsIn(r, m) \in SUBSET Items /\ Cardinality(ItemsIn(r, m)) <= MaxItems
    BY <1>4 DEF RoomOK, ItemsFit, ItemsIn
  <2>2. CASE i \in ItemsIn(r, l) \/ m # l
    <3>1. \A j \in Items : j \in ItemsIn(q, m) <=> j \in ItemsIn(r, m)
      BY <1>1, <1>2, <1>3, <2>2 DEF ItemsIn, ItemMayBe, UidInUse
    <3>2. ItemsIn(q, m) = ItemsIn(r, m)
      BY <3>1 DEF ItemsIn
    <3> QED BY <2>1, <3>2
  <2>3. CASE i \notin ItemsIn(r, l) /\ m = l
    <3>1. \A j \in Items : j \in ItemsIn(q, m) <=> j \in ItemsIn(r, m) \cup {i}
      BY <1>1, <1>2, <1>3, <2>3 DEF ItemsIn
    <3>2. ItemsIn(q, m) = ItemsIn(r, m) \cup {i}
      BY <1>1, <3>1 DEF ItemsIn
    <3>3. Cardinality(ItemsIn(r, m)) < MaxItems /\ MaxItems \in Nat
      BY <2>3, LimitsAreNats DEF ItemMayBe
    <3>4. IsFiniteSet(ItemsIn(r, m)) /\ Cardinality(ItemsIn(r, m)) \in Nat
      BY <2>1, Finite
    <3> QED BY <2>3, <3>2, <3>3, <3>4, FS_AddElement
  <2> QED BY <2>2, <2>3
<1>10. ASSUME NEW j \in Items, NEW k \in Items, q.items[j] # None, q.items[k] # None,
              q.items[j].list = q.items[k].list, q.items[j].name = q.items[k].name
       PROVE  j = k
  <2>1. \A m \in Items \ {i} : q.items[m] # None /\ q.items[m].list = l /\ q.items[m].name = row.name
                                  => m \in Named(r, l, row.name)
    BY <1>2 DEF Named, ItemsIn
  <2>2. Named(r, l, row.name) \subseteq {i}
    BY DEF ItemMayBe
  <2>3. CASE j # i /\ k # i
    BY <1>2, <1>10, <2>3 DEF RoomOK, ItemsFit
  <2> QED BY <1>3, <1>10, <2>1, <2>2, <2>3
<1>11. \A j \in Items : q.items[j] # None =>
          q.items[j].list \in RealLists(q) /\ j \notin q.gone /\ IsInjective(q.items[j].tags)
  BY <1>1, <1>2, <1>3, <1>4, <1>8 DEF RoomOK, ItemsFit
<1> QED BY <1>6, <1>7, <1>9, <1>10, <1>11 DEF RoomOK, ItemsFit

\* The same for a list.
LEMMA PutListFits ==
    ASSUME NEW r, RoomOK(r), NEW l, NEW row, ListMayBe(r, l, row), NEW q, q = PutList(r, l, row)
    PROVE  RoomOK(q)
<1>1. /\ r \in Room /\ row \in ListRow /\ l \in Lists /\ r.seq \in Nat
      /\ row.colored \subseteq row.tags /\ Cardinality(row.tags) <= MaxTags
  BY RoomIs DEF RoomOK, RowsOK, ListMayBe
<1>2. /\ q \in Room /\ q.seq = r.seq + 1
      /\ q.items = r.items /\ q.gone = r.gone
      /\ q.lists[l] = [row EXCEPT !.seq = r.seq + 1]
      /\ \A m \in Lists \ {l} : q.lists[m] = r.lists[m]
  BY <1>1, PutListIs
<1>3. /\ q.lists[l] \in ListRow /\ q.lists[l] # None /\ q.lists[l].seq = r.seq + 1
      /\ q.lists[l].name = row.name /\ q.lists[l].tags = row.tags
      /\ q.lists[l].colored = row.colored
  <2> PICK n \in Nat : n = r.seq + 1
    BY <1>1
  <2> DEFINE e == [row EXCEPT !.seq = n]
  <2>1. q.lists[l] = e
    BY <1>2
  <2>2. /\ e \in ListRow /\ e # None /\ e.seq = n
        /\ e.colored = row.colored /\ e.name = row.name /\ e.tags = row.tags
    BY <1>1, ListRowIs
  <2> HIDE DEF e
  <2> QED BY <2>1, <2>2
<1>4. RealLists(q) = RealLists(r) \cup {l}
  BY <1>1, <1>2, <1>3 DEF RealLists
<1>5. RowsOK(q)
  <2>1. \A m \in RealLists(r) : r.lists[m].seq \in Nat /\ m \in Lists
    BY <1>1 DEF Room, ListRow, RealLists
  <2>5. \A m \in RealLists(r) : r.lists[m].seq <= r.seq
    BY DEF RoomOK, RowsOK
  <2>6. \A m \in RealLists(r) \ {l} : q.lists[m].seq <= q.seq
    BY <1>1, <1>2, <2>1, <2>5
  <2>7. q.lists[l].seq <= q.seq
    BY <1>1, <1>2, <1>3
  <2>2. \A m \in RealLists(q) : q.lists[m].seq <= q.seq
    BY <1>4, <2>6, <2>7
  <2>3. \A j \in Items : r.items[j] # None => r.items[j].seq \in Nat
    BY <1>1 DEF Room, ItemRow
  <2>8. \A j \in Items : r.items[j] # None => r.items[j].seq <= r.seq
    BY DEF RoomOK, RowsOK
  <2>4. \A j \in Items : q.items[j] # None => q.items[j].seq <= q.seq
    BY <1>1, <1>2, <2>3, <2>8
  <2> QED BY <1>2, <2>2, <2>4 DEF RowsOK
<1>6. ItemsFit(q)
  <2>1. ASSUME NEW m \in RealLists(q)
        PROVE  Cardinality(ItemsIn(q, m)) <= MaxItems
    <3>1. ItemsIn(q, m) = ItemsIn(r, m)
      BY <1>2 DEF ItemsIn
    <3>2. CASE m \in RealLists(r)
      BY <3>1, <3>2 DEF RoomOK, ItemsFit
    <3>3. CASE m \notin RealLists(r)
      <4>1. ItemsIn(r, m) = {}
        BY <3>3 DEF ItemsIn, RoomOK, ItemsFit
      <4> QED BY <3>1, <4>1, FS_EmptySet, LimitsAreNats
    <3> QED BY <3>2, <3>3
  <2>2. \A i \in Items : q.items[i] # None =>
           q.items[i].list \in RealLists(q) /\ i \notin q.gone /\ IsInjective(q.items[i].tags)
    BY <1>2, <1>4 DEF RoomOK, ItemsFit
  <2>3. \A i, j \in Items :
          /\ q.items[i] # None /\ q.items[j] # None
          /\ q.items[i].list = q.items[j].list /\ q.items[i].name = q.items[j].name
          => i = j
    BY <1>2 DEF RoomOK, ItemsFit
  <2> QED BY <2>1, <2>2, <2>3 DEF ItemsFit
<1>7. ListsFit(q)
  <2>1. l \notin r.gone
    BY <1>1 DEF ListMayBe, RoomOK, ListsFit, UidInUse
  <2>2. \A m \in RealLists(q) : m # l => m \in RealLists(r) /\ q.lists[m] = r.lists[m]
    BY <1>2, <1>4 DEF RealLists
  <2>3. Cardinality(RealLists(q)) <= MaxLists
    <3>1. CASE l \in RealLists(r)
      <4>1. RealLists(q) = RealLists(r)
        BY <1>4, <3>1
      <4> QED BY <4>1 DEF RoomOK, ListsFit
    <3>2. CASE l \notin RealLists(r)
      <4>1. Cardinality(RealLists(r)) < MaxLists /\ MaxLists \in Nat
        BY <3>2, LimitsAreNats DEF ListMayBe
      <4>2. RealLists(r) \in SUBSET Lists
        BY DEF RealLists
      <4>3. IsFiniteSet(RealLists(r)) /\ Cardinality(RealLists(r)) \in Nat
        BY <4>2, Finite
      <4> QED BY <1>4, <3>2, <4>1, <4>3, FS_AddElement
    <3> QED BY <3>1, <3>2
  <2>4. \A m \in RealLists(q) :
           /\ m \notin q.gone
           /\ q.lists[m].colored \subseteq q.lists[m].tags
           /\ Cardinality(q.lists[m].tags) <= MaxTags
    BY <1>1, <1>2, <1>3, <2>1, <2>2 DEF RoomOK, ListsFit
  <2>5. \A m, o \in RealLists(q) : q.lists[m].name = q.lists[o].name => m = o
    BY <1>3, <2>2 DEF RoomOK, ListsFit, ListMayBe
  <2> QED BY <2>3, <2>4, <2>5 DEF ListsFit
<1> QED BY <1>5, <1>6, <1>7 DEF RoomOK

-----------------------------------------------------------------------------
(* Several items written at once, and rows that leave.                     *)

\* Rows that may be written for items of list l, all at once.
RowsMayBe(r, l, rows) ==
    /\ DOMAIN rows \subseteq ItemsIn(r, l)
    /\ rows \in [DOMAIN rows -> ItemRow]
    /\ \A i \in DOMAIN rows :
          rows[i].list = l /\ rows[i].name = r.items[i].name /\ IsInjective(rows[i].tags)

\* The turn of an item when several are written.
Turn(S, i) == CHOOSE n \in DOMAIN SetToSeq(S) : SetToSeq(S)[n] = i

\* Each item has a turn of its own.
LEMMA TurnIs ==
    ASSUME NEW S \in SUBSET Items
    PROVE  /\ \A i \in S : Turn(S, i) \in 1..Cardinality(S)
           /\ \A i, j \in S : Turn(S, i) = Turn(S, j) => i = j
<1> DEFINE n == Cardinality(S)
           f == SetToSeq(S)
<1>1. IsFiniteSet(S) /\ n \in Nat
  BY Finite
<1>2. PICK g : g \in Bijection(1..n, S)
  BY <1>1, FS_CardinalityType DEF ExistsBijection
<1>3. g \in [1..n -> S] /\ IsInjective(g)
  BY <1>2 DEF Bijection, Injection
<1>4. f \in [1..n -> S] /\ IsInjective(f)
  BY <1>3 DEF SetToSeq
<1> HIDE DEF f
<1>5. f \in Injection(1..n, S)
  BY <1>4 DEF Injection
<1>6. IsFiniteSet(1..n) /\ Cardinality(1..n) = n
  BY <1>1, FS_Interval
<1>7. f \in Surjection(1..n, S)
  BY <1>1, <1>5, <1>6, FS_Injection
<1>8. \A i \in S : \E k \in 1..n : f[k] = i
  BY <1>7 DEF Surjection
<1>9. \A i \in S : Turn(S, i) \in 1..n /\ f[Turn(S, i)] = i
  BY <1>4, <1>8 DEF Turn, f
<1> QED BY <1>9

\* Item i of several that were written.
IsWritten(r, q, rows, i) ==
    /\ q.items[i] \in ItemRow /\ q.items[i] # None
    /\ r.seq < q.items[i].seq /\ q.items[i].seq <= q.seq
    /\ q.items[i].list = rows[i].list /\ q.items[i].name = rows[i].name
    /\ q.items[i].tags = rows[i].tags

\* Each item takes a seq of its own, past the room's.
LEMMA PutItemsIs ==
    ASSUME NEW r \in Room, NEW S \in SUBSET Items, NEW rows \in [S -> ItemRow],
           NEW q, q = PutItems(r, rows)
    PROVE  /\ q \in Room /\ q.seq = r.seq + Cardinality(S)
           /\ q.name = r.name /\ q.lists = r.lists /\ q.gone = r.gone
           /\ \A i \in Items \ S : q.items[i] = r.items[i]
           /\ \A i \in S : IsWritten(r, q, rows, i)
           /\ \A i, j \in S : q.items[i].seq = q.items[j].seq => i = j
<1>1. r.seq \in Nat /\ Cardinality(S) \in Nat /\ r.seq + Cardinality(S) \in Nat
  BY Finite DEF Room
<1> DEFINE items == [i \in Items |-> IF i \in S THEN [rows[i] EXCEPT !.seq = r.seq + Turn(S, i)]
                                      ELSE r.items[i]]
           total == r.seq + Cardinality(S)
<1>2. q = [r EXCEPT !.seq = total, !.items = items]
  BY DEF PutItems, Turn, Room
<1>3. \A i \in S : Turn(S, i) \in 1..Cardinality(S)
  BY TurnIs
<1>4. \A i \in S : \E n \in Nat : n = r.seq + Turn(S, i) /\ r.seq < n /\ n <= total
  BY <1>1, <1>3
<1>5. ASSUME NEW i \in S
      PROVE  /\ items[i] \in ItemRow /\ items[i] # None
             /\ items[i].seq = r.seq + Turn(S, i)
             /\ items[i].list = rows[i].list /\ items[i].name = rows[i].name
             /\ items[i].tags = rows[i].tags
  <2> PICK n \in Nat : n = r.seq + Turn(S, i)
    BY <1>4
  <2> DEFINE row == rows[i]
             e == [row EXCEPT !.seq = n]
  <2>1. items[i] = e
    OBVIOUS
  <2>2. row \in ItemRow
    OBVIOUS
  <2> HIDE DEF row
  <2>3. /\ e \in ItemRow /\ e # None /\ e.seq = n
        /\ e.list = row.list /\ e.name = row.name /\ e.tags = row.tags
    BY <2>2, ItemRowIs
  <2> HIDE DEF e, items
  <2> QED BY <2>1, <2>3 DEF row
<1>6. items \in [Items -> ItemRow \cup {None}]
  <2>1. \A i \in Items : items[i] \in ItemRow \cup {None}
    BY <1>5 DEF Room
  <2> QED BY <2>1
<1>7. \A i \in Items \ S : items[i] = r.items[i]
  OBVIOUS
<1> HIDE DEF items, total
<1>8. q = [seq |-> total, name |-> r.name, lists |-> r.lists, items |-> items, gone |-> r.gone]
  BY <1>2 DEF Room
<1>9. q \in Room /\ q.items = items /\ q.seq = total
  BY <1>1, <1>6, <1>8 DEF Room, total
<1>10. q.name = r.name /\ q.lists = r.lists /\ q.gone = r.gone
  BY <1>8
<1>11. \A i \in S : r.seq < items[i].seq /\ items[i].seq <= total
  <2>1. ASSUME NEW i \in S PROVE r.seq < items[i].seq /\ items[i].seq <= total
    <3>1. items[i].seq = r.seq + Turn(S, i)
      BY <1>5
    <3>2. PICK n \in Nat : n = r.seq + Turn(S, i) /\ r.seq < n /\ n <= total
      BY <1>4
    <3> QED BY <3>1, <3>2
  <2> QED BY <2>1
<1>12. \A i, j \in S : items[i].seq = items[j].seq => i = j
  <2>1. ASSUME NEW i \in S, NEW j \in S, items[i].seq = items[j].seq PROVE i = j
    <3>1. r.seq + Turn(S, i) = r.seq + Turn(S, j)
      <4>1. items[i].seq = r.seq + Turn(S, i)
        BY <1>5
      <4>2. items[j].seq = r.seq + Turn(S, j)
        BY <1>5
      <4> QED BY <2>1, <4>1, <4>2
    <3>2. Turn(S, i) = Turn(S, j)
      BY <1>1, <1>3, <3>1
    <3> QED BY <3>2, TurnIs
  <2> QED BY <2>1
<1>13. ASSUME NEW i \in S PROVE IsWritten(r, q, rows, i)
  BY <1>5, <1>9, <1>11 DEF IsWritten
<1> QED BY <1>7, <1>9, <1>10, <1>12, <1>13 DEF total

\* The tables fit after it.
LEMMA PutItemsFits ==
    ASSUME NEW r, RoomOK(r), NEW l, NEW rows, RowsMayBe(r, l, rows), NEW q, q = PutItems(r, rows)
    PROVE  RoomOK(q)
<1> DEFINE S == DOMAIN rows
<1>1. r \in Room /\ S \in SUBSET Items /\ rows \in [S -> ItemRow] /\ r.seq \in Nat
  BY RoomIs DEF RoomOK, RowsOK, RowsMayBe, ItemsIn
<1> HIDE DEF S
<1>2. /\ q \in Room /\ q.seq = r.seq + Cardinality(S)
      /\ q.lists = r.lists /\ q.gone = r.gone
      /\ \A i \in Items \ S : q.items[i] = r.items[i]
  BY <1>1, PutItemsIs
<1>3. \A i \in S : IsWritten(r, q, rows, i)
  BY <1>1, PutItemsIs
<1>4. \A i \in S :
         /\ r.items[i] # None
         /\ q.items[i].list = r.items[i].list /\ q.items[i].name = r.items[i].name
         /\ IsInjective(q.items[i].tags)
  BY <1>3 DEF IsWritten, RowsMayBe, ItemsIn, S
<1>5. Cardinality(S) \in Nat
  BY <1>1, Finite
<1>6. RealLists(q) = RealLists(r)
  BY <1>2 DEF RealLists
<1>7. RowsOK(q)
  <2>1. \A m \in RealLists(r) : r.lists[m].seq \in Nat
    BY <1>1 DEF Room, ListRow, RealLists
  <2>2. \A m \in RealLists(r) : r.lists[m].seq <= r.seq
    BY DEF RoomOK, RowsOK
  <2>3. \A m \in RealLists(q) : q.lists[m].seq <= q.seq
    BY <1>1, <1>2, <1>5, <1>6, <2>1, <2>2
  <2>4. \A j \in Items : r.items[j] # None => r.items[j].seq \in Nat /\ r.items[j].seq <= r.seq
    BY <1>1 DEF Room, ItemRow, RoomOK, RowsOK
  <2>5. \A j \in Items \ S : q.items[j] # None => q.items[j].seq <= q.seq
    BY <1>1, <1>2, <1>5, <2>4
  <2>6. \A j \in Items : q.items[j] # None => q.items[j].seq <= q.seq
    BY <1>3, <2>5 DEF IsWritten
  <2> QED BY <1>2, <2>3, <2>6 DEF RowsOK
<1>8. ListsFit(q)
  BY <1>2, <1>6 DEF RoomOK, ListsFit
<1>9. \A i \in Items : /\ q.items[i] # None <=> r.items[i] # None
                       /\ q.items[i] # None => /\ q.items[i].list = r.items[i].list
                                               /\ q.items[i].name = r.items[i].name
                                               /\ IsInjective(q.items[i].tags)
  <2>1. \A i \in Items : r.items[i] # None => IsInjective(r.items[i].tags)
    BY DEF RoomOK, ItemsFit
  <2> SUFFICES ASSUME NEW i \in Items
               PROVE  /\ q.items[i] # None <=> r.items[i] # None
                      /\ q.items[i] # None => /\ q.items[i].list = r.items[i].list
                                              /\ q.items[i].name = r.items[i].name
                                              /\ IsInjective(q.items[i].tags)
    OBVIOUS
  <2>2. CASE i \in S
    BY <1>3, <1>4, <2>2 DEF IsWritten
  <2>3. CASE i \notin S
    <3>1. q.items[i] = r.items[i]
      BY <1>2, <2>3
    <3> QED BY <2>1, <3>1
  <2> QED BY <2>2, <2>3
<1>10. \A m : ItemsIn(q, m) = ItemsIn(r, m)
  BY <1>9 DEF ItemsIn
<1>11. \A m \in RealLists(q) : Cardinality(ItemsIn(q, m)) <= MaxItems
  BY <1>6, <1>10 DEF RoomOK, ItemsFit
<1>12. \A i, j \in Items :
          /\ q.items[i] # None /\ q.items[j] # None
          /\ q.items[i].list = q.items[j].list /\ q.items[i].name = q.items[j].name
          => i = j
  BY <1>9 DEF RoomOK, ItemsFit
<1>13. \A i \in Items : q.items[i] # None =>
          q.items[i].list \in RealLists(q) /\ i \notin q.gone /\ IsInjective(q.items[i].tags)
  BY <1>2, <1>6, <1>9 DEF RoomOK, ItemsFit
<1>14. ItemsFit(q)
  BY <1>11, <1>12, <1>13 DEF ItemsFit
<1> QED BY <1>7, <1>8, <1>14 DEF RoomOK

-----------------------------------------------------------------------------
\* Rows leave: some items, and with all of its items perhaps a list.
RowsLeave(r, q, is, ls) ==
    /\ q \in Room
    /\ is \in SUBSET Items /\ ls \in SUBSET Lists
    /\ is \cup ls # {}
    /\ q.seq > r.seq /\ q.name = r.name /\ q.gone = r.gone \cup is \cup ls
    /\ \A i \in Items : q.items[i] = IF i \in is THEN None ELSE r.items[i]
    /\ \A l \in Lists : q.lists[l] = IF l \in ls THEN None ELSE r.lists[l]
    /\ \A l \in ls : l \in RealLists(r) /\ ItemsIn(r, l) \subseteq is
    /\ \A i \in is : r.items[i] # None

\* delete_list_locked takes the list and its items.
LEMMA ListLeaves ==
    ASSUME NEW r, RoomOK(r), NEW l \in RealLists(r), NEW op, op.list = l,
           NEW q, q = ListDelete(r, op).room
    PROVE  RowsLeave(r, q, ItemsIn(r, l), {l})
<1> DEFINE doomed == ItemsIn(r, l)
           total == r.seq + Cardinality(doomed) + 1
           items == [i \in Items |-> IF i \in doomed THEN None ELSE r.items[i]]
           lists == [r.lists EXCEPT ![l] = None]
           gone == r.gone \cup doomed \cup {l}
<1>1. r \in Room /\ l \in Lists /\ doomed \in SUBSET Items
  BY DEF RoomOK, RowsOK, RealLists, ItemsIn
<1>2. r.seq \in Nat /\ total \in Nat /\ total > r.seq
  BY <1>1, Finite DEF Room
<1>3. q = [r EXCEPT !.seq = total, !.items = items, !.lists = lists, !.gone = gone]
  BY <1>1 DEF ListDelete, Applied, Room
<1>4. items \in [Items -> ItemRow \cup {None}]
  <2>1. \A i \in Items : items[i] \in ItemRow \cup {None}
    BY <1>1 DEF Room
  <2> QED BY <2>1
<1>5. lists \in [Lists -> ListRow \cup {None}]
  BY <1>1 DEF Room
<1>6. gone \in SUBSET (Lists \cup Items)
  BY <1>1 DEF Room
<1>7. \A i \in Items : items[i] = IF i \in doomed THEN None ELSE r.items[i]
  OBVIOUS
<1>8. \A m \in Lists : lists[m] = IF m \in {l} THEN None ELSE r.lists[m]
  BY <1>1 DEF Room
<1>9. \A i \in doomed : r.items[i] # None
  BY DEF ItemsIn
<1>10. gone = r.gone \cup doomed \cup {l}
  OBVIOUS
<1> HIDE DEF items, lists, gone, total
<1>11. q = [seq |-> total, name |-> r.name, lists |-> lists, items |-> items, gone |-> gone]
  BY <1>1, <1>3 DEF Room
<1>12. q \in Room
  BY <1>1, <1>2, <1>4, <1>5, <1>6, <1>11 DEF Room
<1> HIDE DEF doomed
<1> QED BY <1>1, <1>2, <1>7, <1>8, <1>9, <1>10, <1>11, <1>12 DEF RowsLeave, doomed

\* A deleted item leaves alone.
LEMMA ItemLeaves ==
    ASSUME NEW r, RoomOK(r), NEW i \in Items, r.items[i] # None, NEW op, op.item = i,
           i \in ItemsIn(r, op.list), NEW q, q = ItemDelete(r, op).room
    PROVE  RowsLeave(r, q, {i}, {})
<1> DEFINE items == [r.items EXCEPT ![i] = None]
           gone == r.gone \cup {i}
           total == r.seq + 1
<1>1. r \in Room /\ r.seq \in Nat /\ total \in Nat /\ total > r.seq
  BY DEF RoomOK, RowsOK, Room
<1>2. q = [r EXCEPT !.seq = total, !.items = items, !.gone = gone]
  BY <1>1 DEF ItemDelete, Applied, Room
<1>3. items \in [Items -> ItemRow \cup {None}]
  BY <1>1 DEF Room
<1>4. gone \in SUBSET (Lists \cup Items) /\ gone = r.gone \cup {i} \cup {}
  BY <1>1 DEF Room
<1>5. \A j \in Items : items[j] = IF j \in {i} THEN None ELSE r.items[j]
  BY <1>1 DEF Room
<1> HIDE DEF items, gone, total
<1>6. q = [seq |-> total, name |-> r.name, lists |-> r.lists, items |-> items, gone |-> gone]
  BY <1>1, <1>2 DEF Room
<1>7. q \in Room
  BY <1>1, <1>3, <1>4, <1>6 DEF Room
<1> QED BY <1>1, <1>4, <1>5, <1>6, <1>7 DEF RowsLeave

\* The tables fit after rows left.
LEMMA LeavingFits ==
    ASSUME NEW r, RoomOK(r), NEW q, NEW is, NEW ls, RowsLeave(r, q, is, ls)
    PROVE  RoomOK(q)
<1>1. r \in Room /\ q \in Room /\ r.seq \in Nat /\ q.seq \in Nat /\ q.seq > r.seq
  BY RoomIs DEF RoomOK, RowsOK, RowsLeave
<1>2. RealLists(q) = RealLists(r) \ ls
  BY DEF RowsLeave, RealLists
<1>3. \A m \in RealLists(q) : m \in RealLists(r) /\ m \in Lists /\ m \notin ls /\ q.lists[m] = r.lists[m]
  BY <1>2 DEF RowsLeave, RealLists
<1>4. \A i \in Items : q.items[i] # None => i \notin is /\ q.items[i] = r.items[i] /\ r.items[i] # None
  BY DEF RowsLeave
<1>5. RowsOK(q)
  <2>1. \A m \in RealLists(r) : r.lists[m].seq \in Nat /\ r.lists[m].seq <= r.seq
    BY <1>1 DEF Room, ListRow, RealLists, RoomOK, RowsOK
  <2>2. \A m \in RealLists(q) : q.lists[m].seq <= q.seq
    BY <1>1, <1>3, <2>1
  <2>3. \A j \in Items : r.items[j] # None => r.items[j].seq \in Nat /\ r.items[j].seq <= r.seq
    BY <1>1 DEF Room, ItemRow, RoomOK, RowsOK
  <2>4. \A j \in Items : q.items[j] # None => q.items[j].seq <= q.seq
    BY <1>1, <1>4, <2>3
  <2> QED BY <1>1, <2>2, <2>4 DEF RowsOK
<1>6. ItemsFit(q)
  <2>1. ASSUME NEW m \in RealLists(q)
        PROVE  Cardinality(ItemsIn(q, m)) <= MaxItems
    <3>1. ItemsIn(q, m) \in SUBSET ItemsIn(r, m)
      BY <1>4 DEF ItemsIn
    <3>2. ItemsIn(r, m) \in SUBSET Items /\ ItemsIn(q, m) \in SUBSET Items
      BY DEF ItemsIn
    <3>3. /\ IsFiniteSet(ItemsIn(r, m)) /\ Cardinality(ItemsIn(r, m)) \in Nat
          /\ Cardinality(ItemsIn(q, m)) \in Nat
      BY <3>2, Finite
    <3>4. Cardinality(ItemsIn(q, m)) <= Cardinality(ItemsIn(r, m))
      BY <3>1, <3>3, FS_Subset
    <3>5. Cardinality(ItemsIn(r, m)) <= MaxItems /\ MaxItems \in Nat
      BY <1>3, LimitsAreNats DEF RoomOK, ItemsFit
    <3> QED BY <3>3, <3>4, <3>5
  <2>2. ASSUME NEW i \in Items, q.items[i] # None
        PROVE  q.items[i].list \in RealLists(q) /\ i \notin q.gone /\ IsInjective(q.items[i].tags)
    <3>1. i \notin is /\ q.items[i] = r.items[i] /\ r.items[i] # None
      BY <1>4, <2>2
    <3>2. r.items[i].list \in RealLists(r) /\ i \notin r.gone /\ IsInjective(r.items[i].tags)
      BY <3>1 DEF RoomOK, ItemsFit
    <3>3. r.items[i].list \notin ls
      BY <3>1 DEF RowsLeave, ItemsIn
    <3>4. i \notin ls
      BY UidsAndTags DEF RowsLeave
    <3> QED BY <1>2, <3>1, <3>2, <3>3, <3>4 DEF RowsLeave
  <2>3. \A i, j \in Items :
          /\ q.items[i] # None /\ q.items[j] # None
          /\ q.items[i].list = q.items[j].list /\ q.items[i].name = q.items[j].name
          => i = j
    BY <1>4 DEF RoomOK, ItemsFit
  <2> QED BY <2>1, <2>2, <2>3 DEF ItemsFit
<1>7. ListsFit(q)
  <2>1. /\ RealLists(q) \in SUBSET RealLists(r) /\ RealLists(r) \in SUBSET Lists
        /\ RealLists(q) \in SUBSET Lists
    BY <1>2 DEF RealLists
  <2>2. /\ IsFiniteSet(RealLists(r)) /\ Cardinality(RealLists(r)) \in Nat
        /\ Cardinality(RealLists(q)) \in Nat
    BY <2>1, Finite
  <2>3. Cardinality(RealLists(q)) <= Cardinality(RealLists(r))
    BY <2>1, <2>2, FS_Subset
  <2>4. Cardinality(RealLists(r)) <= MaxLists /\ MaxLists \in Nat
    BY LimitsAreNats DEF RoomOK, ListsFit
  <2>5. Cardinality(RealLists(q)) <= MaxLists
    BY <2>2, <2>3, <2>4
  <2>6. \A m \in RealLists(q) : m \notin is
    BY <1>3, UidsAndTags DEF RowsLeave
  <2>7. \A m \in RealLists(q) : m \notin q.gone
    BY <1>3, <2>6 DEF RowsLeave, RoomOK, ListsFit
  <2>8. \A m \in RealLists(q) : /\ q.lists[m].colored \subseteq q.lists[m].tags
                                /\ Cardinality(q.lists[m].tags) <= MaxTags
    BY <1>3 DEF RoomOK, ListsFit
  <2>9. \A m, o \in RealLists(q) : q.lists[m].name = q.lists[o].name => m = o
    BY <1>3 DEF RoomOK, ListsFit
  <2> QED BY <2>5, <2>7, <2>8, <2>9 DEF ListsFit
<1> QED BY <1>5, <1>6, <1>7 DEF RoomOK

-----------------------------------------------------------------------------
(* The ops of a page, and what one may do to a room.                       *)

KnownTypes ==
    {"room.rename", "list.create", "list.rename", "list.delete", "list.tag_add",
     "list.tag_remove", "list.tag_color", "list.tag_rename", "item.delete"}
      \cup SettingsTypes \cup NewItemTypes \cup RowTypes

\* The ops that a page can send.
OpOK(op) ==
    /\ op.type \in KnownTypes
    /\ op.type # "room.rename" => op.list \in Lists
    /\ op.type \in {"item.delete"} \cup NewItemTypes \cup RowTypes => op.item \in Items
    /\ op.type \notin {"item.delete"} \cup NewItemTypes \cup RowTypes => op.item = None
    /\ op.type \in {"room.rename", "list.create", "list.rename", "item.edit"} \cup NewItemTypes
       => op.name \in Names
    /\ op.type = "item.restore" =>
          op.done \in BOOLEAN /\ op.qty \in Nat \ {0} /\ op.tags \in Seq(Tags) /\ IsInjective(op.tags)
    /\ op.type = "item.set_done" => op.done \in BOOLEAN
    /\ op.type = "item.quantity_delta" => op.qty \in Int
    /\ op.type = "item.edit" => op.qty = None \/ op.qty \in Nat \ {0}
    /\ op.type \in {"list.tag_add", "list.tag_remove", "list.tag_color", "list.tag_rename",
                    "item.toggle_tag"}
       => op.tag \in Tags
    /\ op.type = "list.tag_rename" => op.newTag \in Tags
    /\ op.type \in SettingsTypes => DOMAIN op.sent \subseteq TagSettings \cup Visibility
    /\ op.base \in Nat \cup {None}
    /\ op.base # None => op.type \in {"list.rename", "item.set_done", "item.edit"}

\* One tag on an item at most, or no more than it had.
FewTags(r, op, i, row) ==
    "single" \in r.lists[op.list].settings /\ op.type # "item.restore" =>
       Len(row.tags) <= 1
         \/ (i \in ItemsIn(r, op.list) /\ Len(row.tags) <= Len(r.items[i].tags))

\* What an op may do to a room.
ItemIsPut(r, op, q) ==
    \E i \in Items, row \in ItemRow :
       /\ ItemMayBe(r, op.list, i, row)
       /\ q = PutItem(r, i, row)
       /\ op.base # None => i = op.item /\ r.items[i] # None /\ r.items[i].seq <= op.base
       /\ FewTags(r, op, i, row)

ListIsPut(r, op, q) ==
    \E row \in ListRow :
       /\ ListMayBe(r, op.list, row)
       /\ q = PutList(r, op.list, row)
       /\ op.base # None => op.list \in RealLists(r) /\ r.lists[op.list].seq <= op.base
       /\ op.type \notin {"list.create", "list.rename"} =>
             op.list \in RealLists(r) /\ row.name = r.lists[op.list].name
       /\ op.list \in RealLists(r) => row.settings = r.lists[op.list].settings

\* A list is switched to one tag per item, or its items lose no tag.
OneTagWritten(r, l, row, rows) ==
    "single" \in row.settings =>
       IF "single" \in r.lists[l].settings
       THEN \A i \in DOMAIN rows : Len(rows[i].tags) <= Len(r.items[i].tags)
       ELSE \A i \in ItemsIn(r, l) :
               IF i \in DOMAIN rows THEN Len(rows[i].tags) <= 1 ELSE Len(r.items[i].tags) <= 1

ListAndItemsArePut(r, op, q) ==
    \E row \in ListRow, rows \in UNION {[S -> ItemRow] : S \in SUBSET Items} :
       /\ op.list \in RealLists(r) /\ ListMayBe(r, op.list, row) /\ RowsMayBe(r, op.list, rows)
       /\ q = PutItems(PutList(r, op.list, row), rows)
       /\ op.base = None
       /\ op.type \notin {"list.create", "list.rename"} /\ row.name = r.lists[op.list].name
       /\ OneTagWritten(r, op.list, row, rows)

RoomIsRenamed(r, op, q) ==
    /\ op.type = "room.rename" /\ op.base = None
    /\ op.name \in Names /\ op.name # r.name
    /\ q = [r EXCEPT !.seq = r.seq + 1, !.name = op.name]

ListHasLeft(r, op, q) ==
    op.type = "list.delete" /\ RowsLeave(r, q, ItemsIn(r, op.list), {op.list})

ItemHasLeft(r, op, q) ==
    op.type = "item.delete" /\ op.item \in ItemsIn(r, op.list) /\ RowsLeave(r, q, {op.item}, {})

\* An op changes nothing, or one thing within its share link.
OpChange(r, op, q) ==
    \/ q = r
    \/ /\ ~NotForShareLink(op)
       /\ op.type \notin {"room.rename", "list.create"} => op.scope \in {None, op.list}
       /\ \/ op.type \in {"item.delete"} \cup NewItemTypes \cup RowTypes /\ ItemIsPut(r, op, q)
          \/ /\ op.type \notin {"item.delete"} \cup NewItemTypes \cup RowTypes
             /\ ListIsPut(r, op, q) \/ ListAndItemsArePut(r, op, q)
          \/ RoomIsRenamed(r, op, q)
          \/ ListHasLeft(r, op, q)
          \/ ItemHasLeft(r, op, q)

-----------------------------------------------------------------------------
\* Rows that differ, though not in their seq, show it.
LEMMA ItemShows ==
    ASSUME NEW a \in ItemRow, NEW b \in ItemRow, a.seq = b.seq, a # b
    PROVE  ShowsOther(a, b)
BY DEF ItemRow, ShowsOther

\* The same for a list.
LEMMA ListShows ==
    ASSUME NEW a \in ListRow, NEW b \in ListRow, a.seq = b.seq, a # b
    PROVE  ShowsOther(a, b)
BY DEF ListRow, ShowsOther

\* An item of a list: its row, its list, and no other of its name.
LEMMA ItemsOfList ==
    ASSUME NEW r, RoomOK(r), NEW l, NEW i \in ItemsIn(r, l)
    PROVE  /\ i \in Items /\ r.items[i] \in ItemRow /\ r.items[i] # None
           /\ r.items[i].list = l /\ l \in RealLists(r) /\ l \in Lists
           /\ IsInjective(r.items[i].tags)
           /\ Named(r, l, r.items[i].name) = {i}
<1>1. i \in Items /\ r.items[i] # None /\ r.items[i].list = l
  BY DEF ItemsIn
<1>2. r.items[i] \in ItemRow
  BY <1>1, RoomIs DEF RoomOK, RowsOK
<1>3. l \in RealLists(r) /\ l \in Lists /\ IsInjective(r.items[i].tags)
  BY <1>1 DEF RoomOK, ItemsFit, RealLists
<1>4. Named(r, l, r.items[i].name) = {i}
  BY <1>1 DEF Named, ItemsIn, RoomOK, ItemsFit
<1> QED BY <1>1, <1>2, <1>3, <1>4

\* A changed row of the item itself.
LEMMA ItemChanges ==
    ASSUME NEW r, RoomOK(r), NEW l, NEW i \in ItemsIn(r, l), NEW row \in ItemRow,
           row.list = l, row.seq = r.items[i].seq, IsInjective(row.tags),
           Named(r, l, row.name) \subseteq {i}
    PROVE  row = r.items[i] \/ ItemMayBe(r, l, i, row)
BY ItemsOfList, ItemShows DEF ItemMayBe

\* What is there is not written again.
LEMMA PutsIfChanged ==
    ASSUME NEW r, NEW i, NEW row
    PROVE  /\ row = r.items[i] => PutItemIfChanged(r, i, row) = r
           /\ row # r.items[i] => PutItemIfChanged(r, i, row) = PutItem(r, i, row)
BY DEF PutItemIfChanged

\* A changed row of the list itself.
LEMMA ListChanges ==
    ASSUME NEW r, RoomOK(r), NEW l \in RealLists(r), NEW row \in ListRow,
           row.seq = r.lists[l].seq,
           row.colored \subseteq row.tags, Cardinality(row.tags) <= MaxTags,
           \A m \in RealLists(r) : r.lists[m].name = row.name => m = l
    PROVE  row = r.lists[l] \/ ListMayBe(r, l, row)
<1>1. l \in Lists /\ r.lists[l] # None
  BY DEF RealLists
<1>2. r.lists[l] \in ListRow
  BY <1>1, RoomIs DEF RoomOK, RowsOK
<1> QED BY <1>1, <1>2, ListShows DEF ListMayBe

\* A list's row, and no other of its name.
LEMMA RowOfList ==
    ASSUME NEW r, RoomOK(r), NEW l \in RealLists(r)
    PROVE  /\ l \in Lists /\ r.lists[l] \in ListRow /\ r.lists[l] # None
           /\ r.lists[l].colored \subseteq r.lists[l].tags
           /\ Cardinality(r.lists[l].tags) <= MaxTags
           /\ \A m \in RealLists(r) : r.lists[m].name = r.lists[l].name => m = l
<1>1. l \in Lists /\ r.lists[l] # None
  BY DEF RealLists
<1>2. r.lists[l] \in ListRow
  BY <1>1, RoomIs DEF RoomOK, RowsOK
<1> QED BY <1>1, <1>2 DEF RoomOK, ListsFit

-----------------------------------------------------------------------------
(* An item's tags.                                                         *)

\* No tag twice, in the words of the filter lemmas.
LEMMA InjectiveIs ==
    ASSUME NEW A, NEW s \in Seq(A)
    PROVE  IsInjective(s) <=> NoRepeat(s)
BY DEF IsInjective, NoRepeat

\* Taking a tag away leaves no tag twice.
LEMMA WithoutTagIs ==
    ASSUME NEW tags \in Seq(Tags), IsInjective(tags), NEW tag
    PROVE  /\ WithoutTag(tags, tag) \in Seq(Tags) /\ IsInjective(WithoutTag(tags, tag))
           /\ Len(WithoutTag(tags, tag)) <= Len(tags)
<1> DEFINE places == {n \in DOMAIN tags : tags[n] # tag}
           p == Picked(tags, places)
<1>1. places \in SUBSET DOMAIN tags /\ DOMAIN tags = 1..Len(tags) /\ Len(tags) \in Nat
  OBVIOUS
<1>2. WithoutTag(tags, tag) = p
  BY DEF WithoutTag
<1>3. NoRepeat(tags)
  BY InjectiveIs
<1> HIDE DEF places
<1>4. p \in Seq(Tags) /\ Len(p) = Cardinality(places)
  BY <1>1, PickedElements
<1>5. NoRepeat(p)
  BY <1>1, <1>3, PickedNoRepeat
<1>6. Cardinality(places) <= Len(tags)
  BY <1>1, PlacesAreFew
<1> HIDE DEF p
<1>7. IsInjective(p)
  BY <1>4, <1>5, InjectiveIs
<1> QED BY <1>2, <1>4, <1>6, <1>7

\* Neither does adding one that is not there.
LEMMA OneTagMore ==
    ASSUME NEW tags \in Seq(Tags), IsInjective(tags), NEW tag \in Tags, ~Contains(tags, tag)
    PROVE  Append(tags, tag) \in Seq(Tags) /\ IsInjective(Append(tags, tag))
<1> DEFINE p == Append(tags, tag)
<1>1. /\ p \in Seq(Tags) /\ Len(p) = Len(tags) + 1 /\ Len(tags) \in Nat
      /\ \A k \in 1..Len(tags) : p[k] = tags[k]
      /\ p[Len(tags) + 1] = tag
  BY AppendProperties
<1>2. \A k, m \in 1..Len(tags) : tags[k] = tags[m] => k = m
  BY DEF IsInjective
<1>3. \A k \in 1..Len(tags) : tags[k] # tag
  BY DEF Contains
<1> HIDE DEF p
<1>4. DOMAIN p = 1..(Len(tags) + 1)
  BY <1>1
<1>5. \A k \in DOMAIN p : k \in 1..Len(tags) \/ k = Len(tags) + 1
  BY <1>1, <1>4
<1>6. IsInjective(p)
  BY <1>1, <1>2, <1>3, <1>5 DEF IsInjective
<1> QED BY <1>1, <1>6 DEF p

\* One tag is one tag.
LEMMA OneTagIs ==
    ASSUME NEW tag \in Tags
    PROVE  <<tag>> \in Seq(Tags) /\ IsInjective(<<tag>>) /\ Len(<<tag>>) = 1
BY DEF IsInjective

\* No tags at all.
LEMMA NoTagIs == <<>> \in Seq(Tags) /\ IsInjective(<<>>) /\ Len(<<>>) = 0
BY DEF IsInjective

\* A renamed tag is there once, and no tag is added.
LEMMA RenamedTagsIs ==
    ASSUME NEW tags \in Seq(Tags), NEW tag \in Tags, NEW new \in Tags
    PROVE  /\ RenamedTags(tags, tag, new) \in Seq(Tags)
           /\ IsInjective(RenamedTags(tags, tag, new))
           /\ Len(RenamedTags(tags, tag, new)) <= Len(tags)
<1> DEFINE put == [n \in DOMAIN tags |-> IF tags[n] = tag THEN new ELSE tags[n]]
           places == {n \in DOMAIN put : \A m \in 1..(n - 1) : put[m] # put[n]}
           p == Picked(put, places)
<1>1. Len(tags) \in Nat /\ DOMAIN tags = 1..Len(tags)
  OBVIOUS
<1>2. put \in [1..Len(tags) -> Tags]
  BY <1>1
<1>3. put \in Seq(Tags) /\ Len(put) = Len(tags) /\ DOMAIN put = 1..Len(tags)
  BY <1>1, <1>2
<1>4. RenamedTags(tags, tag, new) = p
  BY DEF RenamedTags
<1> HIDE DEF put
<1>5. places \in SUBSET (1..Len(tags)) /\ places \in SUBSET DOMAIN put
  BY <1>3
<1>6. \A n \in places : \A m \in 1..(n - 1) : put[m] # put[n]
  OBVIOUS
<1> HIDE DEF places
<1>7. /\ p \in Seq(Tags) /\ Len(p) = Cardinality(places)
      /\ \A k \in 1..Len(p) : Nth(places, k) \in places /\ p[k] = put[Nth(places, k)]
  BY <1>3, <1>5, PickedElements
<1>8. Cardinality(places) <= Len(tags)
  BY <1>1, <1>5, PlacesAreFew
<1> HIDE DEF p
<1>9. ASSUME NEW j \in 1..Len(p), NEW k \in 1..Len(p), j < k
      PROVE  p[j] # p[k]
  <2>1. Nth(places, j) < Nth(places, k)
    BY <1>1, <1>5, <1>7, <1>9, NthGrows
  <2>2. Nth(places, j) \in places /\ Nth(places, k) \in places
    BY <1>7
  <2>3. Nth(places, j) \in 1..(Nth(places, k) - 1)
    BY <1>1, <1>5, <2>1, <2>2
  <2> QED BY <1>6, <1>7, <2>2, <2>3
<1>10. Len(p) \in Nat /\ DOMAIN p = 1..Len(p)
  BY <1>7
<1>11. IsInjective(p)
  BY <1>9, <1>10 DEF IsInjective
<1> QED BY <1>4, <1>7, <1>8, <1>11

\* A set of numbers has a least one.
LEMMA LeastOf ==
    ASSUME NEW S \in SUBSET Nat, S # {}
    PROVE  Min(S) \in S
<1> DEFINE R == OpToRel(<, Nat)
<1>1. IsWellFoundedOn(R, Nat)
  BY NatLessThanWellFounded
<1>2. \A x, y \in Nat : x < y => <<x, y>> \in R
  BY DEF OpToRel
<1> HIDE DEF R
<1>3. PICK x \in S : \A y \in S : ~(<<y, x>> \in R)
  BY <1>1, WFMin
<1>4. ASSUME NEW y \in S PROVE x <= y
  <2>1. x \in Nat /\ y \in Nat
    OBVIOUS
  <2>2. ~(y < x)
    BY <1>2, <1>3, <2>1
  <2> QED BY <2>1, <2>2
<1> QED BY <1>4 DEF Min

\* The tag that stays is one the item had.
LEMMA FirstTagIs ==
    ASSUME NEW row \in ListRow, NEW tags \in Seq(Tags), Len(tags) > 1
    PROVE  FirstTag(row, tags) \in Tags
<1> DEFINE listed == ToSet(tags) \cap row.tags
<1>1. row.tags \in SUBSET Tags /\ Tags \in SUBSET Nat
  BY LimitsAreNats DEF ListRow
<1>2. listed \in SUBSET Nat
  BY <1>1
<1> HIDE DEF listed
<1>3. CASE listed # {}
  <2>1. Min(listed) \in listed
    BY <1>2, <1>3, LeastOf
  <2>2. FirstTag(row, tags) = Min(listed)
    BY <1>3 DEF FirstTag, listed
  <2> QED BY <1>1, <2>1, <2>2 DEF listed
<1>4. CASE listed = {}
  <2>1. FirstTag(row, tags) = Head(tags)
    BY <1>4 DEF FirstTag, listed
  <2> QED BY <2>1
<1> QED BY <1>3, <1>4

-----------------------------------------------------------------------------
(* The handlers of the ops on items.                                       *)

\* A row of an item that is there is written, or nothing changes.
LEMMA ItemIsChanged ==
    ASSUME NEW r, RoomOK(r), NEW op, NEW i \in ItemsIn(r, op.list), NEW row \in ItemRow,
           row.list = op.list, row.seq = r.items[i].seq, IsInjective(row.tags),
           Named(r, op.list, row.name) \subseteq {i},
           op.base # None /\ row # r.items[i] => i = op.item /\ r.items[i].seq <= op.base,
           FewTags(r, op, i, row),
           NEW q, q = PutItemIfChanged(r, i, row)
    PROVE  q = r \/ ItemIsPut(r, op, q)
<1>1. i \in Items /\ r.items[i] # None
  BY DEF ItemsIn
<1>2. CASE row = r.items[i]
  BY <1>2, PutsIfChanged
<1>3. CASE row # r.items[i]
  <2>1. q = PutItem(r, i, row)
    BY <1>3, PutsIfChanged
  <2>2. ItemMayBe(r, op.list, i, row)
    BY <1>3, ItemChanges
  <2> QED BY <1>1, <1>3, <2>1, <2>2 DEF ItemIsPut
<1> QED BY <1>2, <1>3

\* A new item: no tags, unless it is put back.
LEMMA NewItemIs ==
    ASSUME NEW r, RoomOK(r), NEW op, NEW i \in Items, op.list \in RealLists(r), ~UidInUse(r, i),
           Cardinality(ItemsIn(r, op.list)) < MaxItems, op.base = None,
           NEW name \in Names, Named(r, op.list, name) = {}, NEW done \in BOOLEAN,
           NEW qty \in Nat \ {0}, NEW tags \in Seq(Tags), IsInjective(tags),
           op.type = "item.restore" \/ tags = <<>>,
           NEW q, q = PutItem(r, i, NewItem(op.list, name, done, qty, tags))
    PROVE  ItemIsPut(r, op, q)
<1> DEFINE row == NewItem(op.list, name, done, qty, tags)
<1>1. row \in ItemRow /\ row.list = op.list /\ row.name = name /\ row.tags = tags
  BY DEF NewItem, ItemRow, RealLists
<1>2. q = PutItem(r, i, row)
  OBVIOUS
<1> HIDE DEF row
<1>3. ItemMayBe(r, op.list, i, row)
  BY <1>1 DEF ItemMayBe
<1>4. FewTags(r, op, i, row)
  BY <1>1, NoTagIs DEF FewTags
<1> QED BY <1>1, <1>2, <1>3, <1>4 DEF ItemIsPut

\* add_or_restore_item_locked adds an item, unchecks one, or refuses.
LEMMA ItemAddIs ==
    ASSUME NEW r, RoomOK(r), NEW op, OpOK(op), op.list \in RealLists(r), op.type = "item.add",
           ~UidInUse(r, op.item), NEW q, q = ItemAdd(r, op).room
    PROVE  q = r \/ ItemIsPut(r, op, q)
<1> DEFINE same == Named(r, op.list, op.name)
           kept == CHOOSE i \in same : TRUE
           row == [r.items[kept] EXCEPT !.done = FALSE]
<1>1. op.base = None /\ op.item \in Items /\ op.name \in Names
  BY DEF OpOK, NewItemTypes
<1>2. CASE same # {} /\ r.items[kept].done
  <2>1. kept \in same /\ kept \in ItemsIn(r, op.list) /\ r.items[kept].name = op.name
    <3>1. kept \in same
      BY <1>2
    <3> QED BY <3>1 DEF Named
  <2>2. q = PutItem(r, kept, row)
    BY <1>2 DEF ItemAdd, AppliedItem, Applied
  <2> HIDE DEF kept
  <2>3. /\ kept \in Items /\ r.items[kept] \in ItemRow /\ r.items[kept].list = op.list
        /\ IsInjective(r.items[kept].tags) /\ Named(r, op.list, r.items[kept].name) = {kept}
    BY <2>1, ItemsOfList
  <2>4. /\ row \in ItemRow /\ row.list = op.list /\ row.seq = r.items[kept].seq
        /\ row.tags = r.items[kept].tags /\ row.name = r.items[kept].name /\ row.done = FALSE
    BY <2>3 DEF ItemRow
  <2>5. row # r.items[kept]
    BY <1>2, <2>4
  <2> HIDE DEF row
  <2>6. ItemMayBe(r, op.list, kept, row)
    BY <2>1, <2>3, <2>4, <2>5, ItemChanges
  <2>7. Len(row.tags) \in Nat
    BY <2>4 DEF ItemRow
  <2>8. FewTags(r, op, kept, row)
    BY <2>1, <2>4, <2>7 DEF FewTags
  <2> QED BY <1>1, <2>2, <2>3, <2>4, <2>6, <2>8 DEF ItemIsPut
<1>3. CASE same # {} /\ ~r.items[kept].done
  BY <1>3 DEF ItemAdd, Rejected
<1>4. CASE same = {} /\ Cardinality(ItemsIn(r, op.list)) >= MaxItems
  BY <1>4 DEF ItemAdd, Rejected
<1>5. CASE same = {} /\ ~(Cardinality(ItemsIn(r, op.list)) >= MaxItems)
  <2>1. q = PutItem(r, op.item, NewItem(op.list, op.name, FALSE, 1, <<>>))
    BY <1>5 DEF ItemAdd, AppliedItem, Applied
  <2> PICK done \in BOOLEAN : done = FALSE
    OBVIOUS
  <2> PICK qty \in Nat \ {0} : qty = 1
    OBVIOUS
  <2>4. q = PutItem(r, op.item, NewItem(op.list, op.name, done, qty, <<>>))
    BY <2>1
  <2>2. ItemsIn(r, op.list) \in SUBSET Items
    BY DEF ItemsIn
  <2>3. Cardinality(ItemsIn(r, op.list)) < MaxItems
    BY <1>5, <2>2, Finite, LimitsAreNats
  <2> QED BY <1>1, <1>5, <2>4, <2>3, NoTagIs, NewItemIs
<1> QED BY <1>2, <1>3, <1>4, <1>5

\* restore_deleted_item_locked puts a new row, or refuses.
LEMMA ItemRestoreIs ==
    ASSUME NEW r, RoomOK(r), NEW op, OpOK(op), op.list \in RealLists(r), op.type = "item.restore",
           ~UidInUse(r, op.item), NEW q, q = ItemRestore(r, op).room
    PROVE  q = r \/ ItemIsPut(r, op, q)
<1>1. /\ op.base = None /\ op.item \in Items /\ op.name \in Names
      /\ op.done \in BOOLEAN /\ op.qty \in Nat \ {0}
      /\ op.tags \in Seq(Tags) /\ IsInjective(op.tags)
  BY DEF OpOK, NewItemTypes
<1>2. CASE \/ Named(r, op.list, op.name) # {}
           \/ Cardinality(ItemsIn(r, op.list)) >= MaxItems
  BY <1>2 DEF ItemRestore, Rejected
<1>3. CASE /\ Named(r, op.list, op.name) = {}
           /\ ~(Cardinality(ItemsIn(r, op.list)) >= MaxItems)
  <2>1. q = PutItem(r, op.item, NewItem(op.list, op.name, op.done, op.qty, op.tags))
    BY <1>3 DEF ItemRestore, AppliedItem, Applied
  <2>2. ItemsIn(r, op.list) \in SUBSET Items
    BY DEF ItemsIn
  <2>3. Cardinality(ItemsIn(r, op.list)) < MaxItems
    BY <1>3, <2>2, Finite, LimitsAreNats
  <2> QED BY <1>1, <1>3, <2>1, <2>3, NewItemIs
<1> QED BY <1>2, <1>3

\* What an op that is about one item knows of it.
LEMMA RowOpIs ==
    ASSUME NEW r, RoomOK(r), NEW op, OpOK(op), op.item \in ItemsIn(r, op.list)
    PROVE  /\ op.item \in Items /\ r.items[op.item] \in ItemRow
           /\ r.items[op.item].list = op.list /\ r.items[op.item].seq \in Nat
           /\ r.items[op.item].qty \in Nat \ {0}
           /\ r.items[op.item].tags \in Seq(Tags) /\ Len(r.items[op.item].tags) \in Nat
           /\ IsInjective(r.items[op.item].tags)
           /\ Named(r, op.list, r.items[op.item].name) = {op.item}
           /\ op.base \in Nat \cup {None}
<1> PICK i \in Items : i = op.item
  BY DEF ItemsIn
<1> DEFINE row == r.items[i]
<1>1. /\ row \in ItemRow /\ row.list = op.list
      /\ IsInjective(row.tags) /\ Named(r, op.list, row.name) = {i}
  <2> PICK l : l = op.list
    OBVIOUS
  <2>1. i \in ItemsIn(r, l)
    OBVIOUS
  <2>2. /\ r.items[i] \in ItemRow /\ r.items[i].list = l
        /\ IsInjective(r.items[i].tags) /\ Named(r, l, r.items[i].name) = {i}
    BY <2>1, ItemsOfList
  <2> QED BY <2>2
<1>2. row.seq \in Nat /\ row.qty \in Nat \ {0} /\ row.tags \in Seq(Tags)
  BY <1>1 DEF ItemRow
<1>3. Len(row.tags) \in Nat
  BY <1>2
<1>4. op.base \in Nat \cup {None}
  BY DEF OpOK
<1> QED BY <1>1, <1>2, <1>3, <1>4

\* item_set_done writes the item if its base is still good.
LEMMA ItemSetDoneIs ==
    ASSUME NEW r, RoomOK(r), NEW op, OpOK(op), op.item \in ItemsIn(r, op.list),
           op.type = "item.set_done", NEW q, q = ItemSetDone(r, op).room
    PROVE  q = r \/ ItemIsPut(r, op, q)
<1> PICK row : row = r.items[op.item]
  OBVIOUS
<1> DEFINE wanted == [row EXCEPT !.done = op.done]
<1>1. /\ op.item \in Items /\ row \in ItemRow /\ row.list = op.list /\ row.seq \in Nat
      /\ row.qty \in Nat \ {0} /\ row.tags \in Seq(Tags) /\ Len(row.tags) \in Nat
      /\ IsInjective(row.tags) /\ Named(r, op.list, row.name) = {op.item}
      /\ op.base \in Nat \cup {None}
  BY RowOpIs
<1>2. /\ wanted \in ItemRow /\ wanted.list = op.list /\ wanted.seq = row.seq
      /\ wanted.tags = row.tags /\ wanted.name = row.name
      /\ wanted # row => row.done # op.done
  BY <1>1 DEF ItemRow, OpOK
<1>3. q = IF Stale(op.base, row.seq, row.done = op.done) THEN r
          ELSE PutItemIfChanged(r, op.item, wanted)
  BY DEF ItemSetDone, AppliedItem, Applied, Rejected
<1> HIDE DEF wanted
<1>4. FewTags(r, op, op.item, wanted)
  BY <1>1, <1>2 DEF FewTags
<1>5. ~Stale(op.base, row.seq, row.done = op.done) /\ op.base # None /\ wanted # row
         => row.seq <= op.base
  BY <1>1, <1>2 DEF Stale
<1>6. CASE Stale(op.base, row.seq, row.done = op.done)
  BY <1>3, <1>6
<1>7. CASE ~Stale(op.base, row.seq, row.done = op.done)
  BY <1>1, <1>2, <1>3, <1>4, <1>5, <1>7, ItemIsChanged
<1> QED BY <1>6, <1>7

\* adjust_item_quantity_locked writes the item.
LEMMA ItemQuantityDeltaIs ==
    ASSUME NEW r, RoomOK(r), NEW op, OpOK(op), op.item \in ItemsIn(r, op.list),
           op.type = "item.quantity_delta", NEW q, q = ItemQuantityDelta(r, op).room
    PROVE  q = r \/ ItemIsPut(r, op, q)
<1> PICK row : row = r.items[op.item]
  OBVIOUS
<1> DEFINE qty == AddQuantity(row.qty, op.qty)
           wanted == [row EXCEPT !.qty = qty]
<1>1. /\ op.item \in Items /\ row \in ItemRow /\ row.list = op.list /\ row.seq \in Nat
      /\ row.qty \in Nat \ {0} /\ row.tags \in Seq(Tags) /\ Len(row.tags) \in Nat
      /\ IsInjective(row.tags) /\ Named(r, op.list, row.name) = {op.item}
      /\ op.base \in Nat \cup {None}
  BY RowOpIs
<1>2. op.base = None /\ op.qty \in Int
  BY DEF OpOK
<1>3. qty \in Nat \ {0}
  BY <1>1, <1>2 DEF AddQuantity
<1>4. q = PutItemIfChanged(r, op.item, wanted)
  BY DEF ItemQuantityDelta, AppliedItem, Applied
<1> HIDE DEF qty
<1>5. /\ wanted \in ItemRow /\ wanted.list = op.list /\ wanted.seq = row.seq
      /\ wanted.tags = row.tags /\ wanted.name = row.name
  BY <1>1, <1>3 DEF ItemRow
<1> HIDE DEF wanted
<1>6. FewTags(r, op, op.item, wanted)
  BY <1>1, <1>5 DEF FewTags
<1> QED BY <1>1, <1>2, <1>4, <1>5, <1>6, ItemIsChanged

\* item_edit writes the item if its base is still good and the name is free.
LEMMA ItemEditIs ==
    ASSUME NEW r, RoomOK(r), NEW op, OpOK(op), op.item \in ItemsIn(r, op.list),
           op.type = "item.edit", NEW q, q = ItemEdit(r, op).room
    PROVE  q = r \/ ItemIsPut(r, op, q)
<1> PICK row : row = r.items[op.item]
  OBVIOUS
<1> DEFINE qty == IF op.qty = None THEN row.qty ELSE op.qty
           wanted == [row EXCEPT !.name = op.name, !.qty = qty]
<1>1. /\ op.item \in Items /\ row \in ItemRow /\ row.list = op.list /\ row.seq \in Nat
      /\ row.qty \in Nat \ {0} /\ row.tags \in Seq(Tags) /\ Len(row.tags) \in Nat
      /\ IsInjective(row.tags) /\ Named(r, op.list, row.name) = {op.item}
      /\ op.base \in Nat \cup {None}
  BY RowOpIs
<1>2. op.name \in Names /\ qty \in Nat \ {0}
  BY <1>1 DEF OpOK
<1>3. CASE Stale(op.base, row.seq, wanted = row)
  BY <1>3 DEF ItemEdit, Rejected
<1>4. CASE ~Stale(op.base, row.seq, wanted = row) /\ Named(r, op.list, op.name) \ {op.item} # {}
  BY <1>4 DEF ItemEdit, Rejected
<1>5. CASE ~Stale(op.base, row.seq, wanted = row) /\ Named(r, op.list, op.name) \ {op.item} = {}
  <2>1. q = PutItemIfChanged(r, op.item, wanted)
    BY <1>5 DEF ItemEdit, AppliedItem, Applied
  <2> HIDE DEF qty
  <2>2. /\ wanted \in ItemRow /\ wanted.list = op.list /\ wanted.seq = row.seq
        /\ wanted.tags = row.tags /\ wanted.name = op.name
    BY <1>1, <1>2 DEF ItemRow
  <2> HIDE DEF wanted
  <2>3. Named(r, op.list, wanted.name) \subseteq {op.item}
    BY <1>5, <2>2
  <2>4. FewTags(r, op, op.item, wanted)
    BY <1>1, <2>2 DEF FewTags
  <2>5. op.base # None /\ wanted # row => row.seq <= op.base
    BY <1>1, <1>5 DEF Stale
  <2> QED BY <1>1, <2>1, <2>2, <2>3, <2>4, <2>5, ItemIsChanged
<1> QED BY <1>3, <1>4, <1>5

\* toggle_item_active_tag_locked writes the item.
LEMMA ItemToggleTagIs ==
    ASSUME NEW r, RoomOK(r), NEW op, OpOK(op), op.item \in ItemsIn(r, op.list),
           op.type = "item.toggle_tag", NEW q, q = ItemToggleTag(r, op).room
    PROVE  q = r \/ ItemIsPut(r, op, q)
<1> PICK row : row = r.items[op.item]
  OBVIOUS
<1> DEFINE has == Contains(row.tags, op.tag)
           single == "single" \in r.lists[op.list].settings
           tags == CASE op.done = FALSE \/ (op.done = None /\ has) -> WithoutTag(row.tags, op.tag)
                     [] OTHER -> IF single THEN <<op.tag>>
                                 ELSE IF has THEN row.tags ELSE Append(row.tags, op.tag)
           wanted == [row EXCEPT !.tags = tags]
<1>1. /\ op.item \in Items /\ row \in ItemRow /\ row.list = op.list /\ row.seq \in Nat
      /\ row.qty \in Nat \ {0} /\ row.tags \in Seq(Tags) /\ Len(row.tags) \in Nat
      /\ IsInjective(row.tags) /\ Named(r, op.list, row.name) = {op.item}
      /\ op.base \in Nat \cup {None}
  BY RowOpIs
<1>2. op.base = None /\ op.tag \in Tags
  BY DEF OpOK, RowTypes
<1>3. /\ tags \in Seq(Tags) /\ IsInjective(tags)
      /\ single => Len(tags) <= 1 \/ Len(tags) <= Len(row.tags)
  <2>5. \/ tags = WithoutTag(row.tags, op.tag) \/ tags = <<op.tag>>
        \/ ~single /\ has /\ tags = row.tags
        \/ ~single /\ ~has /\ tags = Append(row.tags, op.tag)
    OBVIOUS
  <2> HIDE DEF tags, has, single
  <2>1. CASE tags = WithoutTag(row.tags, op.tag)
    BY <1>1, <2>1, WithoutTagIs
  <2>2. CASE tags = <<op.tag>>
    BY <1>2, <2>2, OneTagIs
  <2>3. CASE ~single /\ has /\ tags = row.tags
    BY <1>1, <2>3
  <2>4. CASE ~single /\ ~has /\ tags = Append(row.tags, op.tag)
    BY <1>1, <1>2, <2>4, OneTagMore DEF has
  <2> QED BY <2>1, <2>2, <2>3, <2>4, <2>5
<1>4. q = PutItemIfChanged(r, op.item, wanted)
  BY DEF ItemToggleTag, AppliedItem, Applied
<1> HIDE DEF tags
<1>5. /\ wanted \in ItemRow /\ wanted.list = op.list /\ wanted.seq = row.seq
      /\ wanted.tags = tags /\ wanted.name = row.name
  BY <1>1, <1>3 DEF ItemRow
<1> HIDE DEF wanted
<1>6. FewTags(r, op, op.item, wanted)
  BY <1>3, <1>5 DEF FewTags
<1> QED BY <1>1, <1>2, <1>3, <1>4, <1>5, <1>6, ItemIsChanged

-----------------------------------------------------------------------------
(* The handlers of the ops on the room and its lists.                      *)

\* rename_room_locked changes the name, or nothing.
LEMMA RoomRenameIs ==
    ASSUME NEW r, NEW op, OpOK(op), op.type = "room.rename", NEW q, q = RoomRename(r, op).room
    PROVE  q = r \/ RoomIsRenamed(r, op, q)
<1>1. op.name \in Names /\ op.base = None
  BY DEF OpOK
<1>2. q = IF r.name = op.name THEN r ELSE [r EXCEPT !.seq = r.seq + 1, !.name = op.name]
  BY DEF RoomRename, Applied
<1> QED BY <1>1, <1>2 DEF RoomIsRenamed

\* A new list has no tags.
LEMMA NewListIs ==
    ASSUME NEW name \in Names
    PROVE  /\ NewList(name) \in ListRow /\ NewList(name).name = name
           /\ NewList(name).colored \subseteq NewList(name).tags
           /\ Cardinality(NewList(name).tags) <= MaxTags
<1>1. /\ NewList(name) \in ListRow /\ NewList(name).name = name
      /\ NewList(name).colored = {} /\ NewList(name).tags = {}
  BY DEF NewList, ListRow
<1> QED BY <1>1, FS_EmptySet, LimitsAreNats

\* create_or_find_list_locked adds a list, opens one, or refuses.
LEMMA ListCreateIs ==
    ASSUME NEW r, RoomOK(r), NEW op, OpOK(op), op.type = "list.create",
           ~UidInUse(r, op.list), NEW q, q = ListCreate(r, op).room
    PROVE  q = r \/ ListIsPut(r, op, q)
<1> DEFINE same == {l \in RealLists(r) : r.lists[l].name = op.name}
<1>1. op.list \in Lists /\ op.name \in Names /\ op.base = None
  BY DEF OpOK
<1>2. CASE same # {} \/ Cardinality(RealLists(r)) >= MaxLists
  BY <1>2 DEF ListCreate, Applied, Rejected
<1>3. CASE same = {} /\ ~(Cardinality(RealLists(r)) >= MaxLists)
  <2> DEFINE row == NewList(op.name)
  <2>1. q = PutList(r, op.list, row)
    BY <1>3 DEF ListCreate, Applied
  <2>2. /\ row \in ListRow /\ row.name = op.name
        /\ row.colored \subseteq row.tags /\ Cardinality(row.tags) <= MaxTags
    BY <1>1, NewListIs
  <2> HIDE DEF row
  <2>3. RealLists(r) \in SUBSET Lists
    BY DEF RealLists
  <2>4. Cardinality(RealLists(r)) < MaxLists
    BY <1>3, <2>3, Finite, LimitsAreNats
  <2>5. ListMayBe(r, op.list, row)
    BY <1>1, <1>3, <2>2, <2>4 DEF ListMayBe
  <2>6. op.list \notin RealLists(r)
    BY <1>1 DEF UidInUse, RealLists
  <2> QED BY <1>1, <2>1, <2>2, <2>5, <2>6 DEF ListIsPut
<1> QED BY <1>2, <1>3

\* A row of a list that is there is written, or nothing changes.
LEMMA ListIsChanged ==
    ASSUME NEW r, RoomOK(r), NEW op, NEW l, l = op.list, l \in RealLists(r), NEW row \in ListRow,
           row.seq = r.lists[l].seq, row.settings = r.lists[l].settings,
           row.colored \subseteq row.tags, Cardinality(row.tags) <= MaxTags,
           \A m \in RealLists(r) : r.lists[m].name = row.name => m = l,
           op.type = "list.rename" \/ row.name = r.lists[l].name,
           op.base # None /\ row # r.lists[l] => r.lists[l].seq <= op.base,
           NEW q, q = PutListIfChanged(r, l, row)
    PROVE  q = r \/ ListIsPut(r, op, q)
<1>1. CASE row = r.lists[l]
  BY <1>1 DEF PutListIfChanged
<1>2. CASE row # r.lists[l]
  <2>1. q = PutList(r, l, row)
    BY <1>2 DEF PutListIfChanged
  <2>2. ListMayBe(r, l, row)
    BY <1>2, ListChanges
  <2> QED BY <1>2, <2>1, <2>2 DEF ListIsPut
<1> QED BY <1>1, <1>2

\* A list is renamed if its base is still good and the name is free.
LEMMA ListRenameIs ==
    ASSUME NEW r, RoomOK(r), NEW op, OpOK(op), op.list \in RealLists(r), op.type = "list.rename",
           NEW q, q = ListRename(r, op).room
    PROVE  q = r \/ ListIsPut(r, op, q)
<1> PICK l : l = op.list
  OBVIOUS
<1> DEFINE row == r.lists[l]
           wanted == [row EXCEPT !.name = op.name]
           taken == \E m \in RealLists(r) \ {l} : r.lists[m].name = op.name
<1>1. op.name \in Names /\ op.base \in Nat \cup {None}
  BY DEF OpOK
<1>2. /\ l \in RealLists(r) /\ row \in ListRow /\ row.seq \in Nat
      /\ row.colored \subseteq row.tags /\ Cardinality(row.tags) <= MaxTags
  <2>1. l \in RealLists(r)
    OBVIOUS
  <2>2. row \in ListRow /\ row.colored \subseteq row.tags /\ Cardinality(row.tags) <= MaxTags
    BY <2>1, RowOfList
  <2> QED BY <2>1, <2>2 DEF ListRow
<1>3. /\ wanted \in ListRow /\ wanted.seq = row.seq /\ wanted.settings = row.settings
      /\ wanted.colored = row.colored /\ wanted.tags = row.tags /\ wanted.name = op.name
      /\ wanted # row => row.name # op.name
  BY <1>1, <1>2 DEF ListRow
<1>4. CASE Stale(op.base, row.seq, row.name = op.name)
  BY <1>4 DEF ListRename, Rejected
<1>5. CASE ~Stale(op.base, row.seq, row.name = op.name) /\ taken
  BY <1>5 DEF ListRename, Rejected
<1>6. CASE ~Stale(op.base, row.seq, row.name = op.name) /\ ~taken
  <2>1. q = PutListIfChanged(r, l, wanted)
    BY <1>6 DEF ListRename, AppliedList, Applied
  <2> HIDE DEF wanted
  <2>2. \A m \in RealLists(r) : r.lists[m].name = wanted.name => m = l
    BY <1>3, <1>6
  <2>3. op.base # None /\ wanted # row => row.seq <= op.base
    BY <1>1, <1>2, <1>3, <1>6 DEF Stale
  <2>4. wanted.colored \subseteq wanted.tags /\ Cardinality(wanted.tags) <= MaxTags
    BY <1>2, <1>3
  <2> QED BY <1>2, <1>3, <2>1, <2>2, <2>3, <2>4, ListIsChanged
<1> QED BY <1>4, <1>5, <1>6

\* What an op on the tags or settings of a list knows of it.
LEMMA ListOpIs ==
    ASSUME NEW r, RoomOK(r), NEW op, OpOK(op), NEW l, l = op.list, l \in RealLists(r)
    PROVE  /\ l \in Lists /\ r.lists[l] \in ListRow /\ r.lists[l] # None
           /\ r.lists[l].tags \in SUBSET Tags /\ r.lists[l].colored \subseteq r.lists[l].tags
           /\ IsFiniteSet(r.lists[l].tags) /\ Cardinality(r.lists[l].tags) \in Nat
           /\ Cardinality(r.lists[l].tags) <= MaxTags /\ MaxTags \in Nat
           /\ \A m \in RealLists(r) : r.lists[m].name = r.lists[l].name => m = l
<1>1. /\ l \in Lists /\ r.lists[l] \in ListRow /\ r.lists[l] # None
      /\ r.lists[l].colored \subseteq r.lists[l].tags
      /\ Cardinality(r.lists[l].tags) <= MaxTags
      /\ \A m \in RealLists(r) : r.lists[m].name = r.lists[l].name => m = l
  BY RowOfList
<1>2. r.lists[l].tags \in SUBSET Tags
  BY <1>1 DEF ListRow
<1>3. IsFiniteSet(r.lists[l].tags) /\ Cardinality(r.lists[l].tags) \in Nat
  BY <1>2, Finite
<1> QED BY <1>1, <1>2, <1>3, LimitsAreNats

\* Other tags and colors are stored, or nothing changes.
LEMMA TagsChange ==
    ASSUME NEW r, RoomOK(r), NEW op, OpOK(op), NEW l, l = op.list, l \in RealLists(r),
           op.base = None,
           NEW wanted, NEW tags \in SUBSET Tags, NEW colored \in SUBSET Tags,
           wanted = [[r.lists[l] EXCEPT !.tags = tags] EXCEPT !.colored = colored],
           colored \subseteq tags, Cardinality(tags) <= MaxTags,
           NEW q, q = PutListIfChanged(r, l, wanted)
    PROVE  q = r \/ ListIsPut(r, op, q)
<1> DEFINE row == r.lists[l]
<1>1. row \in ListRow /\ \A m \in RealLists(r) : r.lists[m].name = row.name => m = l
  BY ListOpIs
<1>2. /\ wanted \in ListRow /\ wanted.seq = row.seq /\ wanted.settings = row.settings
      /\ wanted.colored = colored /\ wanted.tags = tags /\ wanted.name = row.name
  BY <1>1 DEF ListRow
<1> QED BY <1>1, <1>2, ListIsChanged

\* change_list_tag_locked, add: within the limit.
LEMMA ListTagAddIs ==
    ASSUME NEW r, RoomOK(r), NEW op, OpOK(op), op.list \in RealLists(r), op.type = "list.tag_add",
           NEW q, q = ListTagAdd(r, op).room
    PROVE  q = r \/ ListIsPut(r, op, q)
<1> PICK l : l = op.list
  OBVIOUS
<1> DEFINE row == r.lists[l]
           tags == row.tags \cup {op.tag}
           full == op.tag \notin row.tags /\ Cardinality(row.tags) >= MaxTags
<1>1. /\ row \in ListRow /\ row.tags \in SUBSET Tags /\ row.colored \subseteq row.tags
      /\ IsFiniteSet(row.tags) /\ Cardinality(row.tags) \in Nat
      /\ Cardinality(row.tags) <= MaxTags /\ MaxTags \in Nat
  BY ListOpIs
<1>2. op.tag \in Tags /\ op.base = None
  BY DEF OpOK
<1>3. CASE full
  BY <1>3 DEF ListTagAdd, Rejected
<1>4. CASE ~full
  <2> DEFINE wanted == [row EXCEPT !.tags = tags]
             colored == row.colored
  <2>0. Cardinality(tags) = IF op.tag \in row.tags THEN Cardinality(row.tags)
                            ELSE Cardinality(row.tags) + 1
    <3> PICK S, tag : S = row.tags /\ tag = op.tag
      OBVIOUS
    <3>1. IsFiniteSet(S)
      BY <1>1
    <3>2. Cardinality(S \cup {tag}) = IF tag \in S THEN Cardinality(S) ELSE Cardinality(S) + 1
      BY <3>1, FS_AddElement
    <3> QED BY <3>2
  <2>1. Cardinality(tags) <= MaxTags
    BY <1>1, <1>4, <2>0
  <2>2. q = PutListIfChanged(r, l, wanted)
    BY <1>4 DEF ListTagAdd, AppliedList, Applied
  <2>4. tags \in SUBSET Tags /\ colored \in SUBSET Tags /\ colored \subseteq tags
    BY <1>1, <1>2
  <2> HIDE DEF tags
  <2>3. wanted = [[row EXCEPT !.tags = tags] EXCEPT !.colored = colored]
    BY <1>1 DEF ListRow
  <2> HIDE DEF wanted, colored
  <2> QED BY <1>2, <2>1, <2>2, <2>3, <2>4, TagsChange
<1> QED BY <1>3, <1>4

\* change_list_tag_locked, not add: the color goes with the tag.
LEMMA ListTagRemoveIs ==
    ASSUME NEW r, RoomOK(r), NEW op, OpOK(op), op.list \in RealLists(r),
           op.type = "list.tag_remove", NEW q, q = ListTagRemove(r, op).room
    PROVE  q = r \/ ListIsPut(r, op, q)
<1> PICK l : l = op.list
  OBVIOUS
<1> DEFINE row == r.lists[l]
           tags == row.tags \ {op.tag}
           colored == row.colored \ {op.tag}
<1>1. /\ row \in ListRow /\ row.tags \in SUBSET Tags /\ row.colored \subseteq row.tags
      /\ IsFiniteSet(row.tags) /\ Cardinality(row.tags) \in Nat
      /\ Cardinality(row.tags) <= MaxTags /\ MaxTags \in Nat
  BY ListOpIs
<1>2. op.base = None
  BY DEF OpOK
<1> DEFINE wanted == [row EXCEPT !.tags = tags, !.colored = colored]
<1>3. Cardinality(tags) <= MaxTags
  <2>1. Cardinality(tags) = IF op.tag \in row.tags THEN Cardinality(row.tags) - 1
                            ELSE Cardinality(row.tags)
    <3> PICK S, tag : S = row.tags /\ tag = op.tag
      OBVIOUS
    <3>1. IsFiniteSet(S)
      BY <1>1
    <3>2. Cardinality(S \ {tag}) = IF tag \in S THEN Cardinality(S) - 1 ELSE Cardinality(S)
      BY <3>1, FS_RemoveElement
    <3> QED BY <3>2
  <2> QED BY <1>1, <2>1
<1>4. q = PutListIfChanged(r, l, wanted)
  BY DEF ListTagRemove, AppliedList, Applied
<1>5. tags \in SUBSET Tags /\ colored \in SUBSET Tags /\ colored \subseteq tags
  BY <1>1
<1> HIDE DEF tags, colored
<1>6. wanted = [[row EXCEPT !.tags = tags] EXCEPT !.colored = colored]
  BY <1>1 DEF ListRow
<1> HIDE DEF wanted
<1> QED BY <1>2, <1>3, <1>4, <1>5, <1>6, TagsChange

\* set_list_tag_color_locked colors only tags the list has.
LEMMA ListTagColorIs ==
    ASSUME NEW r, RoomOK(r), NEW op, OpOK(op), op.list \in RealLists(r), op.type = "list.tag_color",
           NEW q, q = ListTagColor(r, op).room
    PROVE  q = r \/ ListIsPut(r, op, q)
<1> PICK l : l = op.list
  OBVIOUS
<1> DEFINE row == r.lists[l]
           colored == IF op.done THEN row.colored \cup {op.tag} ELSE row.colored \ {op.tag}
<1>1. /\ row \in ListRow /\ row.tags \in SUBSET Tags /\ row.colored \subseteq row.tags
      /\ Cardinality(row.tags) <= MaxTags
  BY ListOpIs
<1>2. op.base = None
  BY DEF OpOK
<1>3. CASE op.tag \notin row.tags
  BY <1>3 DEF ListTagColor, Rejected
<1>4. CASE op.tag \in row.tags
  <2> DEFINE wanted == [row EXCEPT !.colored = colored]
             tags == row.tags
  <2>1. q = PutListIfChanged(r, l, wanted)
    BY <1>4 DEF ListTagColor, AppliedList, Applied
  <2>2. tags \in SUBSET Tags /\ colored \in SUBSET Tags /\ colored \subseteq tags
    BY <1>1, <1>4
  <2> HIDE DEF colored
  <2>3. wanted = [[row EXCEPT !.tags = tags] EXCEPT !.colored = colored]
    BY <1>1 DEF ListRow
  <2> HIDE DEF wanted
  <2> QED BY <1>1, <1>2, <2>1, <2>2, <2>3, TagsChange
<1> QED BY <1>3, <1>4

\* The row of a list and rows of its items are written.
LEMMA RowsArePut ==
    ASSUME NEW r, RoomOK(r), NEW op, NEW l, l = op.list, l \in RealLists(r), NEW row \in ListRow,
           ListMayBe(r, l, row), NEW S \in SUBSET Items, NEW rows \in [S -> ItemRow],
           RowsMayBe(r, l, rows), op.base = None,
           op.type \notin {"list.create", "list.rename"}, row.name = r.lists[l].name,
           OneTagWritten(r, l, row, rows),
           NEW q, q = PutItems(PutList(r, l, row), rows)
    PROVE  ListAndItemsArePut(r, op, q)
<1>1. rows \in UNION {[T -> ItemRow] : T \in SUBSET Items}
  OBVIOUS
<1> QED BY <1>1 DEF ListAndItemsArePut

\* A tag takes another name among the tags of a list.
LEMMA RenamedInSet ==
    ASSUME NEW S \in SUBSET Tags, NEW tag \in S, NEW new \in Tags, new \notin S
    PROVE  /\ (S \ {tag}) \cup {new} \in SUBSET Tags
           /\ Cardinality((S \ {tag}) \cup {new}) = Cardinality(S)
<1> DEFINE T == S \ {tag}
<1>1. IsFiniteSet(S) /\ Cardinality(S) \in Nat
  BY Finite
<1>2. IsFiniteSet(T) /\ Cardinality(T) = Cardinality(S) - 1
  BY <1>1, FS_RemoveElement
<1>3. new \notin T
  OBVIOUS
<1> HIDE DEF T
<1>4. Cardinality(T \cup {new}) = Cardinality(T) + 1
  BY <1>2, <1>3, FS_AddElement
<1> QED BY <1>1, <1>2, <1>4 DEF T

\* rename_list_tag_locked writes the list and the items that have the tag.
LEMMA ListTagRenameIs ==
    ASSUME NEW r, RoomOK(r), NEW op, OpOK(op), op.list \in RealLists(r), op.type = "list.tag_rename",
           NEW q, q = ListTagRename(r, op).room
    PROVE  q = r \/ ListAndItemsArePut(r, op, q)
<1> PICK l, tag, new : l = op.list /\ tag = op.tag /\ new = op.newTag
  OBVIOUS
<1> DEFINE row == r.lists[l]
           S == Tagged(r, l, tag)
           rows == [i \in S |-> [r.items[i] EXCEPT !.tags = RenamedTags(@, tag, new)]]
           tags == (row.tags \ {tag}) \cup {new}
           colored == IF tag \in row.colored THEN (row.colored \ {tag}) \cup {new} ELSE row.colored
           wanted == [row EXCEPT !.tags = tags, !.colored = colored]
<1>1. /\ row \in ListRow /\ row.tags \in SUBSET Tags /\ row.colored \subseteq row.tags
      /\ Cardinality(row.tags) <= MaxTags
      /\ \A m \in RealLists(r) : r.lists[m].name = row.name => m = l
      /\ l \in Lists
  BY ListOpIs
<1>2. op.base = None /\ tag \in Tags /\ new \in Tags
  BY DEF OpOK
<1>3. CASE tag \notin row.tags \/ tag = new \/ new \in row.tags \ {tag}
  BY <1>3 DEF ListTagRename, Rejected, AppliedList, Applied
<1>4. CASE tag \in row.tags /\ tag # new /\ new \notin row.tags
  <2>1. q = PutItems(PutList(r, l, wanted), rows)
    BY <1>4 DEF ListTagRename, AppliedList, Applied
  <2>2. tags \in SUBSET Tags /\ Cardinality(tags) <= MaxTags
    BY <1>1, <1>2, <1>4, RenamedInSet
  <2>3. colored \subseteq tags /\ new \in tags
    BY <1>1, <1>4
  <2> HIDE DEF tags, colored
  <2>4. /\ wanted \in ListRow /\ wanted.tags = tags /\ wanted.colored = colored
        /\ wanted.name = row.name /\ wanted.settings = row.settings /\ wanted.seq = row.seq
    BY <1>1, <2>2, <2>3 DEF ListRow
  <2>5. wanted # row
    BY <1>4, <2>3, <2>4
  <2> HIDE DEF wanted
  <2>6. ListMayBe(r, l, wanted)
    BY <1>1, <2>2, <2>3, <2>4, <2>5, ListShows DEF ListMayBe
  <2>7. S \in SUBSET Items /\ S \subseteq ItemsIn(r, l)
    BY DEF Tagged, ItemsIn
  <2>8. ASSUME NEW i \in S
        PROVE  /\ rows[i] \in ItemRow /\ rows[i].list = l /\ rows[i].name = r.items[i].name
               /\ IsInjective(rows[i].tags) /\ Len(rows[i].tags) <= Len(r.items[i].tags)
    <3> DEFINE old == r.items[i]
    <3>1. old \in ItemRow /\ old.list = l
      BY <2>7, ItemsOfList
    <3>2. old.tags \in Seq(Tags)
      BY <3>1 DEF ItemRow
    <3> DEFINE put == RenamedTags(old.tags, tag, new)
    <3>3. put \in Seq(Tags) /\ IsInjective(put) /\ Len(put) <= Len(old.tags)
      BY <1>2, <3>2, RenamedTagsIs
    <3>4. rows[i] = [old EXCEPT !.tags = put]
      OBVIOUS
    <3> HIDE DEF put, rows, old
    <3>5. /\ rows[i] \in ItemRow /\ rows[i].list = old.list /\ rows[i].name = old.name
          /\ rows[i].tags = put
      BY <3>1, <3>3, <3>4 DEF ItemRow
    <3> QED BY <3>1, <3>3, <3>5 DEF old
  <2>9. DOMAIN rows = S /\ rows = [i \in S |-> rows[i]]
    OBVIOUS
  <2> HIDE DEF rows, S
  <2>10. rows \in [S -> ItemRow]
    BY <2>8, <2>9
  <2>11. RowsMayBe(r, l, rows)
    BY <2>7, <2>8, <2>9, <2>10 DEF RowsMayBe
  <2>12. OneTagWritten(r, l, wanted, rows)
    BY <2>4, <2>8, <2>9 DEF OneTagWritten
  <2> QED BY <1>1, <1>2, <2>1, <2>4, <2>6, <2>7, <2>10, <2>11, <2>12, RowsArePut
<1> QED BY <1>3, <1>4

\* The settings ops write the list, and items that keep one tag.
LEMMA ListSettingsIs ==
    ASSUME NEW r, RoomOK(r), NEW op, OpOK(op), op.list \in RealLists(r), op.type \in SettingsTypes,
           NEW q, q = ListSettings(r, op).room
    PROVE  q = r \/ ListAndItemsArePut(r, op, q)
<1> PICK l : l = op.list
  OBVIOUS
<1> DEFINE row == r.lists[l]
           on == {f \in DOMAIN op.sent : op.sent[f]}
           settings == (row.settings \ DOMAIN op.sent) \cup on
           wanted == [row EXCEPT !.settings = settings]
           single == "single" \in wanted.settings \ row.settings
           S == IF single THEN {i \in ItemsIn(r, l) : Len(r.items[i].tags) > 1} ELSE {}
           rows == [i \in S |-> [r.items[i] EXCEPT !.tags = <<FirstTag(row, @)>>]]
<1>1. /\ row \in ListRow /\ row.tags \in SUBSET Tags /\ row.colored \subseteq row.tags
      /\ Cardinality(row.tags) <= MaxTags
      /\ \A m \in RealLists(r) : r.lists[m].name = row.name => m = l
      /\ l \in Lists
  BY ListOpIs
<1>2. op.base = None /\ DOMAIN op.sent \subseteq TagSettings \cup Visibility
  BY DEF OpOK, SettingsTypes
<1>3. settings \subseteq TagSettings \cup Visibility
  BY <1>1, <1>2 DEF ListRow
<1>4. q = IF wanted = row THEN r ELSE PutItems(PutList(r, l, wanted), rows)
  BY DEF ListSettings, PutSettings, AppliedList, Applied
<1> HIDE DEF settings
<1>5. /\ wanted \in ListRow /\ wanted.tags = row.tags /\ wanted.colored = row.colored
      /\ wanted.name = row.name /\ wanted.seq = row.seq
  BY <1>1, <1>3 DEF ListRow
<1> HIDE DEF wanted
<1>6. CASE wanted = row
  BY <1>4, <1>6
<1>7. CASE wanted # row
  <2>1. q = PutItems(PutList(r, l, wanted), rows)
    BY <1>4, <1>7
  <2>2. ListMayBe(r, l, wanted)
    BY <1>1, <1>5, <1>7, ListShows DEF ListMayBe
  <2>3. S \in SUBSET Items /\ S \subseteq ItemsIn(r, l)
    BY DEF ItemsIn
  <2>4. \A i \in S : single /\ Len(r.items[i].tags) > 1
    OBVIOUS
  <2>5. ASSUME NEW i \in S
        PROVE  /\ rows[i] \in ItemRow /\ rows[i].list = l /\ rows[i].name = r.items[i].name
               /\ IsInjective(rows[i].tags) /\ Len(rows[i].tags) <= 1
    <3> DEFINE old == r.items[i]
    <3>1. old \in ItemRow /\ old.list = l
      BY <2>3, ItemsOfList
    <3>2. old.tags \in Seq(Tags) /\ Len(old.tags) > 1
      BY <2>4, <3>1 DEF ItemRow
    <3> DEFINE first == FirstTag(row, old.tags)
               put == <<first>>
    <3>3. first \in Tags
      BY <1>1, <3>2, FirstTagIs
    <3>4. rows[i] = [old EXCEPT !.tags = put]
      OBVIOUS
    <3> HIDE DEF first
    <3>5. put \in Seq(Tags) /\ IsInjective(put) /\ Len(put) <= 1
      BY <3>3, OneTagIs
    <3> HIDE DEF put, rows, old
    <3>6. /\ rows[i] \in ItemRow /\ rows[i].list = old.list /\ rows[i].name = old.name
          /\ rows[i].tags = put
      BY <3>1, <3>4, <3>5 DEF ItemRow
    <3> QED BY <3>1, <3>5, <3>6 DEF old
  <2>6. DOMAIN rows = S /\ rows = [i \in S |-> rows[i]]
    OBVIOUS
  <2>7. \A i \in ItemsIn(r, l) : single /\ i \notin S => Len(r.items[i].tags) <= 1
    <3> SUFFICES ASSUME NEW i \in ItemsIn(r, l), single, i \notin S
                 PROVE  Len(r.items[i].tags) <= 1
      OBVIOUS
    <3>1. r.items[i] \in ItemRow
      BY ItemsOfList
    <3>2. Len(r.items[i].tags) \in Nat
      BY <3>1 DEF ItemRow
    <3>3. ~(Len(r.items[i].tags) > 1)
      OBVIOUS
    <3> QED BY <3>2, <3>3
  <2>8. "single" \in wanted.settings /\ "single" \notin row.settings => single
    OBVIOUS
  <2> HIDE DEF rows, S, single
  <2>9. rows \in [S -> ItemRow]
    BY <2>5, <2>6
  <2>10. RowsMayBe(r, l, rows)
    BY <2>3, <2>5, <2>6, <2>9 DEF RowsMayBe
  <2>11. OneTagWritten(r, l, wanted, rows)
    <3>1. CASE "single" \in row.settings
      <4>1. S = {}
        BY <3>1 DEF S, single
      <4> QED BY <2>6, <3>1, <4>1 DEF OneTagWritten
    <3>2. CASE "single" \notin row.settings
      <4>1. \A i \in S : Len(rows[i].tags) <= 1
        BY <2>5
      <4> QED BY <2>6, <2>7, <2>8, <3>2, <4>1 DEF OneTagWritten
    <3> QED BY <3>1, <3>2
  <2>12. op.type \notin {"list.create", "list.rename"}
    BY DEF SettingsTypes
  <2> QED BY <1>1, <1>2, <1>5, <2>1, <2>2, <2>3, <2>9, <2>10, <2>11, <2>12, RowsArePut
<1> QED BY <1>6, <1>7

-----------------------------------------------------------------------------
(* Any op.                                                                 *)

\* An op changes nothing, or one thing within its share link.
LEMMA OutcomeIs ==
    ASSUME NEW r, RoomOK(r), NEW op, OpOK(op), NEW q, q = Outcome(r, op).room
    PROVE  OpChange(r, op, q)
<1> DEFINE itemTypes == {"item.delete"} \cup NewItemTypes \cup RowTypes
<1>1. CASE NotForShareLink(op) \/ NewUidTaken(r, op)
  BY <1>1 DEF Outcome, HttpError, OpChange
<1>2. CASE ~NotForShareLink(op) /\ ~NewUidTaken(r, op) /\ (ListUnavailable(r, op) \/ ItemNotFound(r, op))
  BY <1>2 DEF Outcome, Rejected, OpChange
<1>3. CASE /\ ~NotForShareLink(op) /\ ~NewUidTaken(r, op)
           /\ ~ListUnavailable(r, op) /\ ~ItemNotFound(r, op)
  <2>1. q = Handler(r, op).room
    BY <1>3 DEF Outcome
  <2>2. op.type \notin {"room.rename", "list.create"} =>
           op.scope \in {None, op.list} /\ op.list \in RealLists(r)
    BY <1>3 DEF ListUnavailable, OpOK, RealLists
  <2>3. op.type \in RowTypes => op.item \in ItemsIn(r, op.list)
    BY <1>3 DEF ItemNotFound
  <2>4. /\ op.type = "list.create" => ~UidInUse(r, op.list)
        /\ op.type \in NewItemTypes => ~UidInUse(r, op.item)
    BY <1>3 DEF NewUidTaken
  <2>5. ~NotForShareLink(op)
    BY <1>3
  <2>6. CASE op.type = "room.rename"
    <3>1. q = RoomRename(r, op).room
      BY <2>1, <2>6 DEF Handler, SettingsTypes
    <3> QED BY <2>5, <2>6, <3>1, RoomRenameIs DEF OpChange
  <2>7. ASSUME op.type \notin itemTypes, op.type # "room.rename",
               q = r \/ ListIsPut(r, op, q) \/ ListAndItemsArePut(r, op, q)
        PROVE  OpChange(r, op, q)
    BY <2>2, <2>5, <2>7 DEF OpChange
  <2>8. ASSUME op.type \in itemTypes, q = r \/ ItemIsPut(r, op, q)
        PROVE  OpChange(r, op, q)
    <3>1. op.type \notin {"room.rename", "list.create"}
      BY <2>8 DEF NewItemTypes, RowTypes
    <3> QED BY <2>2, <2>5, <2>8, <3>1 DEF OpChange
  <2>9. CASE op.type = "list.create"
    <3>1. q = ListCreate(r, op).room
      BY <2>1, <2>9 DEF Handler, SettingsTypes
    <3>2. op.type \notin itemTypes
      BY <2>9 DEF NewItemTypes, RowTypes
    <3>3. q = r \/ ListIsPut(r, op, q)
      BY <2>4, <2>9, <3>1, ListCreateIs
    <3> QED BY <2>7, <2>9, <3>2, <3>3
  <2>10. CASE op.type = "list.rename"
    <3>1. q = ListRename(r, op).room
      BY <2>1, <2>10 DEF Handler, SettingsTypes
    <3>2. op.type \notin itemTypes
      BY <2>10 DEF NewItemTypes, RowTypes
    <3>3. q = r \/ ListIsPut(r, op, q)
      BY <2>2, <2>10, <3>1, ListRenameIs
    <3> QED BY <2>7, <2>10, <3>2, <3>3
  <2>11. CASE op.type = "list.delete"
    <3>1. q = ListDelete(r, op).room
      BY <2>1, <2>11 DEF Handler, SettingsTypes
    <3>2. op.list \in RealLists(r)
      BY <2>2, <2>11
    <3>3. RowsLeave(r, q, ItemsIn(r, op.list), {op.list})
      BY <3>1, <3>2, ListLeaves
    <3> QED BY <2>2, <2>5, <2>11, <3>3 DEF OpChange, ListHasLeft
  <2>12. CASE op.type = "list.tag_add"
    <3>1. q = ListTagAdd(r, op).room
      BY <2>1, <2>12 DEF Handler, SettingsTypes
    <3>2. op.type \notin itemTypes
      BY <2>12 DEF NewItemTypes, RowTypes
    <3>3. q = r \/ ListIsPut(r, op, q)
      BY <2>2, <2>12, <3>1, ListTagAddIs
    <3> QED BY <2>7, <2>12, <3>2, <3>3
  <2>13. CASE op.type = "list.tag_remove"
    <3>1. q = ListTagRemove(r, op).room
      BY <2>1, <2>13 DEF Handler, SettingsTypes
    <3>2. op.type \notin itemTypes
      BY <2>13 DEF NewItemTypes, RowTypes
    <3>3. q = r \/ ListIsPut(r, op, q)
      BY <2>2, <2>13, <3>1, ListTagRemoveIs
    <3> QED BY <2>7, <2>13, <3>2, <3>3
  <2>14. CASE op.type = "list.tag_color"
    <3>1. q = ListTagColor(r, op).room
      BY <2>1, <2>14 DEF Handler, SettingsTypes
    <3>2. op.type \notin itemTypes
      BY <2>14 DEF NewItemTypes, RowTypes
    <3>3. q = r \/ ListIsPut(r, op, q)
      BY <2>2, <2>14, <3>1, ListTagColorIs
    <3> QED BY <2>7, <2>14, <3>2, <3>3
  <2>15. CASE op.type = "list.tag_rename"
    <3>1. q = ListTagRename(r, op).room
      BY <2>1, <2>15 DEF Handler, SettingsTypes
    <3>2. op.type \notin itemTypes
      BY <2>15 DEF NewItemTypes, RowTypes
    <3>3. q = r \/ ListAndItemsArePut(r, op, q)
      BY <2>2, <2>15, <3>1, ListTagRenameIs
    <3> QED BY <2>7, <2>15, <3>2, <3>3
  <2>16. CASE op.type \in SettingsTypes
    <3>1. q = ListSettings(r, op).room
      BY <2>1, <2>16 DEF Handler, SettingsTypes
    <3>2. op.type \notin itemTypes /\ op.type \notin {"room.rename", "list.create"}
      BY <2>16 DEF NewItemTypes, RowTypes, SettingsTypes
    <3>3. q = r \/ ListAndItemsArePut(r, op, q)
      BY <2>2, <2>16, <3>1, <3>2, ListSettingsIs
    <3> QED BY <2>7, <3>2, <3>3
  <2>17. CASE op.type = "item.add"
    <3>1. q = ItemAdd(r, op).room
      BY <2>1, <2>17 DEF Handler, SettingsTypes
    <3>2. q = r \/ ItemIsPut(r, op, q)
      BY <2>2, <2>4, <2>17, <3>1, ItemAddIs DEF NewItemTypes
    <3> QED BY <2>8, <2>17, <3>2 DEF NewItemTypes
  <2>18. CASE op.type = "item.restore"
    <3>1. q = ItemRestore(r, op).room
      BY <2>1, <2>18 DEF Handler, SettingsTypes
    <3>2. q = r \/ ItemIsPut(r, op, q)
      BY <2>2, <2>4, <2>18, <3>1, ItemRestoreIs DEF NewItemTypes
    <3> QED BY <2>8, <2>18, <3>2 DEF NewItemTypes
  <2>19. CASE op.type = "item.set_done"
    <3>1. q = ItemSetDone(r, op).room
      BY <2>1, <2>19 DEF Handler, SettingsTypes
    <3>2. q = r \/ ItemIsPut(r, op, q)
      BY <2>3, <2>19, <3>1, ItemSetDoneIs DEF RowTypes
    <3> QED BY <2>8, <2>19, <3>2 DEF RowTypes
  <2>20. CASE op.type = "item.quantity_delta"
    <3>1. q = ItemQuantityDelta(r, op).room
      BY <2>1, <2>20 DEF Handler, SettingsTypes
    <3>2. q = r \/ ItemIsPut(r, op, q)
      BY <2>3, <2>20, <3>1, ItemQuantityDeltaIs DEF RowTypes
    <3> QED BY <2>8, <2>20, <3>2 DEF RowTypes
  <2>21. CASE op.type = "item.edit"
    <3>1. q = ItemEdit(r, op).room
      BY <2>1, <2>21 DEF Handler, SettingsTypes
    <3>2. q = r \/ ItemIsPut(r, op, q)
      BY <2>3, <2>21, <3>1, ItemEditIs DEF RowTypes
    <3> QED BY <2>8, <2>21, <3>2 DEF RowTypes
  <2>22. CASE op.type = "item.toggle_tag"
    <3>1. q = ItemToggleTag(r, op).room
      BY <2>1, <2>22 DEF Handler, SettingsTypes
    <3>2. q = r \/ ItemIsPut(r, op, q)
      BY <2>3, <2>22, <3>1, ItemToggleTagIs DEF RowTypes
    <3> QED BY <2>8, <2>22, <3>2 DEF RowTypes
  <2>23. CASE op.type = "item.delete"
    <3>1. q = ItemDelete(r, op).room
      BY <2>1, <2>23 DEF Handler, SettingsTypes
    <3>2. CASE op.item \notin ItemsIn(r, op.list)
      BY <3>1, <3>2 DEF ItemDelete, Applied, OpChange
    <3>3. CASE op.item \in ItemsIn(r, op.list)
      <4>1. op.item \in Items /\ r.items[op.item] # None
        BY <3>3 DEF ItemsIn
      <4>2. RowsLeave(r, q, {op.item}, {})
        BY <3>1, <3>3, <4>1, ItemLeaves
      <4> QED BY <2>2, <2>5, <2>23, <3>3, <4>2 DEF OpChange, ItemHasLeft
    <3> QED BY <3>2, <3>3
  <2>24. op.type \in KnownTypes
    BY DEF OpOK
  <2> HIDE DEF itemTypes
  <2> QED BY <2>6, <2>9, <2>10, <2>11, <2>12, <2>13, <2>14, <2>15, <2>16, <2>17, <2>18, <2>19,
             <2>20, <2>21, <2>22, <2>23, <2>24 DEF KnownTypes, NewItemTypes, RowTypes
<1> QED BY <1>1, <1>2, <1>3

-----------------------------------------------------------------------------
(* The two writes of an op on a list's tags or settings.                   *)

\* The list's row is written first.
LEMMA BothWrites ==
    ASSUME NEW r, RoomOK(r), NEW l \in RealLists(r), NEW row \in ListRow, ListMayBe(r, l, row),
           NEW rows, RowsMayBe(r, l, rows), NEW mid, mid = PutList(r, l, row)
    PROVE  /\ RoomOK(mid) /\ RowsMayBe(mid, l, rows)
           /\ mid.seq = r.seq + 1 /\ mid.items = r.items /\ mid.name = r.name
           /\ mid.lists[l] = [row EXCEPT !.seq = r.seq + 1]
           /\ \A m \in Lists \ {l} : mid.lists[m] = r.lists[m]
<1>1. RoomOK(mid)
  BY PutListFits
<1>2. r \in Room /\ l \in Lists
  BY DEF RoomOK, RowsOK, RealLists
<1>3. /\ mid.seq = r.seq + 1 /\ mid.items = r.items /\ mid.name = r.name
      /\ mid.lists[l] = [row EXCEPT !.seq = r.seq + 1]
      /\ \A m \in Lists \ {l} : mid.lists[m] = r.lists[m]
  BY <1>2, PutListIs
<1>4. RowsMayBe(mid, l, rows)
  BY <1>3 DEF RowsMayBe, ItemsIn
<1> QED BY <1>1, <1>3, <1>4

\* Whatever an op does, the tables fit.
LEMMA ChangeFits ==
    ASSUME NEW r, RoomOK(r), NEW op, NEW q, OpChange(r, op, q)
    PROVE  RoomOK(q)
<1>1. CASE q = r
  BY <1>1
<1>2. CASE ItemIsPut(r, op, q)
  BY <1>2, PutItemFits DEF ItemIsPut
<1>3. CASE ListIsPut(r, op, q)
  BY <1>3, PutListFits DEF ListIsPut
<1>4. CASE ListAndItemsArePut(r, op, q)
  <2>1. PICK row \in ListRow, rows \in UNION {[S -> ItemRow] : S \in SUBSET Items} :
          /\ op.list \in RealLists(r) /\ ListMayBe(r, op.list, row) /\ RowsMayBe(r, op.list, rows)
          /\ q = PutItems(PutList(r, op.list, row), rows)
    BY <1>4 DEF ListAndItemsArePut
  <2> PICK l, mid : l = op.list /\ mid = PutList(r, l, row)
    OBVIOUS
  <2>2. RoomOK(mid) /\ RowsMayBe(mid, l, rows)
    BY <2>1, BothWrites
  <2>3. q = PutItems(mid, rows)
    BY <2>1
  <2> QED BY <2>2, <2>3, PutItemsFits
<1>5. CASE RoomIsRenamed(r, op, q)
  <2>0. r \in Room /\ r.seq \in Nat
    BY RoomIs DEF RoomOK, RowsOK
  <2>1. /\ r \in Room /\ r.seq \in Nat /\ r.seq + 1 \in Nat /\ op.name \in Names
        /\ q = [r EXCEPT !.seq = r.seq + 1, !.name = op.name]
    <3>1. r.seq + 1 \in Nat
      BY <2>0
    <3>2. op.name \in Names /\ q = [r EXCEPT !.seq = r.seq + 1, !.name = op.name]
      BY <1>5 DEF RoomIsRenamed
    <3> QED BY <2>0, <3>1, <3>2
  <2>2. q = [seq |-> r.seq + 1, name |-> op.name, lists |-> r.lists, items |-> r.items,
             gone |-> r.gone]
    BY <2>1 DEF Room
  <2>3. q \in Room
    BY <2>1, <2>2 DEF Room
  <2>4. q.seq = r.seq + 1 /\ q.lists = r.lists /\ q.items = r.items /\ q.gone = r.gone
    BY <2>2
  <2>5. RealLists(q) = RealLists(r) /\ \A l : ItemsIn(q, l) = ItemsIn(r, l)
    BY <2>4 DEF RealLists, ItemsIn
  <2>6. /\ \A l \in RealLists(r) : r.lists[l].seq \in Nat
        /\ \A i \in Items : r.items[i] # None => r.items[i].seq \in Nat
    BY <2>1 DEF Room, RealLists, ListRow, ItemRow
  <2>7. RowsOK(q)
    BY <2>1, <2>3, <2>4, <2>5, <2>6 DEF RoomOK, RowsOK
  <2>8. ItemsFit(q) /\ ListsFit(q)
    BY <2>4, <2>5 DEF RoomOK, ItemsFit, ListsFit
  <2> QED BY <2>7, <2>8 DEF RoomOK
<1>6. CASE ListHasLeft(r, op, q)
  BY <1>6, LeavingFits DEF ListHasLeft
<1>7. CASE ItemHasLeft(r, op, q)
  BY <1>7, LeavingFits DEF ItemHasLeft
<1> QED BY <1>1, <1>2, <1>3, <1>4, <1>5, <1>6, <1>7 DEF OpChange

-----------------------------------------------------------------------------
(* What the pages show, and the seqs.                                      *)

\* What an op's change shows: the seq moves when the pages change, and every
\* row that is written takes a seq of its own.
TellsChange(r, q) ==
    /\ q.seq >= r.seq
    /\ q.seq > r.seq <=> Shown(q) # Shown(r)
    /\ \A i \in Items : q.items[i] \notin {r.items[i], None} =>
          /\ q.items[i].seq > r.seq
          /\ \A j \in Items \ {i} : q.items[j] # None => q.items[j].seq # q.items[i].seq
    /\ \A l \in Lists : q.lists[l] \notin {r.lists[l], None} => q.lists[l].seq > r.seq

\* A row that appears, goes, or differs in more than its seq.
RowDiffers(a, b) ==
    \/ a = None /\ b # None
    \/ a # None /\ b = None
    \/ a # None /\ b # None /\ ShowsOther(a, b)

\* Another room name shows.
LEMMA NameTells ==
    ASSUME NEW r, NEW q, q.name # r.name
    PROVE  Shown(q) # Shown(r)
<1>1. Shown(q).name = q.name /\ Shown(r).name = r.name
  BY DEF Shown
<1> QED BY <1>1

\* An item that shows otherwise.
LEMMA ItemTells ==
    ASSUME NEW r, NEW q, NEW i \in Items, RowDiffers(q.items[i], r.items[i])
    PROVE  Shown(q) # Shown(r)
<1> DEFINE In(s) == {j \in Items : s.items[j] # None}
           f(s) == [j \in In(s) |-> [s.items[j] EXCEPT !.seq = 0]]
<1>1. Shown(q).items = f(q) /\ Shown(r).items = f(r)
  BY DEF Shown
<1>2. f(q) # f(r)
  <2>1. CASE i \in In(q) /\ i \in In(r)
    <3>1. f(q)[i] = [q.items[i] EXCEPT !.seq = 0] /\ f(r)[i] = [r.items[i] EXCEPT !.seq = 0]
      BY <2>1
    <3>2. ShowsOther(q.items[i], r.items[i])
      BY <2>1 DEF RowDiffers
    <3> QED BY <3>1, <3>2 DEF ShowsOther
  <2>2. CASE ~(i \in In(q) /\ i \in In(r))
    <3>1. DOMAIN f(q) = In(q) /\ DOMAIN f(r) = In(r)
      OBVIOUS
    <3>2. In(q) # In(r)
      BY <2>2 DEF RowDiffers
    <3> HIDE DEF f
    <3> QED BY <3>1, <3>2
  <2> QED BY <2>1, <2>2
<1> HIDE DEF f
<1> QED BY <1>1, <1>2

\* A list that shows otherwise.
LEMMA ListTells ==
    ASSUME NEW r, NEW q, NEW l \in Lists, RowDiffers(q.lists[l], r.lists[l])
    PROVE  Shown(q) # Shown(r)
<1> DEFINE f(s) == [m \in RealLists(s) |-> [s.lists[m] EXCEPT !.seq = 0]]
<1>1. Shown(q).lists = f(q) /\ Shown(r).lists = f(r)
  BY DEF Shown
<1>2. f(q) # f(r)
  <2>1. CASE l \in RealLists(q) /\ l \in RealLists(r)
    <3>1. f(q)[l] = [q.lists[l] EXCEPT !.seq = 0] /\ f(r)[l] = [r.lists[l] EXCEPT !.seq = 0]
      BY <2>1
    <3>2. ShowsOther(q.lists[l], r.lists[l])
      BY <2>1 DEF RowDiffers, RealLists
    <3> QED BY <3>1, <3>2 DEF ShowsOther
  <2>2. CASE ~(l \in RealLists(q) /\ l \in RealLists(r))
    <3>1. DOMAIN f(q) = RealLists(q) /\ DOMAIN f(r) = RealLists(r)
      OBVIOUS
    <3>2. RealLists(q) # RealLists(r)
      BY <2>2 DEF RowDiffers, RealLists
    <3> HIDE DEF f
    <3> QED BY <3>1, <3>2
  <2> QED BY <2>1, <2>2
<1> HIDE DEF f
<1> QED BY <1>1, <1>2

-----------------------------------------------------------------------------
\* A written item tells.
LEMMA PutItemTells ==
    ASSUME NEW r, RoomOK(r), NEW l, NEW i, NEW row, ItemMayBe(r, l, i, row),
           NEW q, q = PutItem(r, i, row)
    PROVE  TellsChange(r, q)
<1>1. r \in Room /\ i \in Items /\ row \in ItemRow /\ r.seq \in Nat
  BY RoomIs DEF RoomOK, RowsOK, ItemMayBe
<1>2. /\ q.seq = r.seq + 1 /\ q.lists = r.lists
      /\ q.items[i] = [row EXCEPT !.seq = r.seq + 1]
      /\ \A j \in Items \ {i} : q.items[j] = r.items[j]
  BY <1>1, PutItemIs
<1>3. /\ q.items[i] # None /\ q.items[i].seq = r.seq + 1
      /\ [q.items[i] EXCEPT !.seq = 0] = [row EXCEPT !.seq = 0]
  <2> PICK n \in Nat : n = r.seq + 1
    BY <1>1
  <2> DEFINE e == [row EXCEPT !.seq = n]
  <2>1. q.items[i] = e
    BY <1>2
  <2>2. e # None /\ e.seq = n /\ [e EXCEPT !.seq = 0] = [row EXCEPT !.seq = 0]
    BY <1>1, ItemRowIs
  <2> HIDE DEF e
  <2> QED BY <2>1, <2>2
<1>4. RowDiffers(q.items[i], r.items[i])
  BY <1>1, <1>3 DEF RowDiffers, ItemMayBe, ItemsIn, UidInUse, ShowsOther
<1>5. Shown(q) # Shown(r)
  BY <1>1, <1>4, ItemTells
<1>6. \A j \in Items : r.items[j] # None => r.items[j].seq \in Nat
  BY <1>1 DEF Room, ItemRow
<1>7. \A j \in Items : r.items[j] # None => r.items[j].seq <= r.seq
  BY DEF RoomOK, RowsOK
<1>8. \A j \in Items \ {i} : q.items[j] # None => q.items[j].seq # q.items[i].seq
  BY <1>1, <1>2, <1>3, <1>6, <1>7
<1>9. \A j \in Items : q.items[j] \notin {r.items[j], None} => j = i
  BY <1>2
<1>10. q.seq > r.seq /\ q.seq >= r.seq /\ q.items[i].seq > r.seq
  BY <1>1, <1>2, <1>3
<1> QED BY <1>2, <1>5, <1>8, <1>9, <1>10 DEF TellsChange

\* A written list tells.
LEMMA PutListTells ==
    ASSUME NEW r, RoomOK(r), NEW l, NEW row, ListMayBe(r, l, row), NEW q, q = PutList(r, l, row)
    PROVE  TellsChange(r, q)
<1>1. r \in Room /\ l \in Lists /\ row \in ListRow /\ r.seq \in Nat
  BY RoomIs DEF RoomOK, RowsOK, ListMayBe
<1>2. /\ q.seq = r.seq + 1 /\ q.items = r.items
      /\ q.lists[l] = [row EXCEPT !.seq = r.seq + 1]
      /\ \A m \in Lists \ {l} : q.lists[m] = r.lists[m]
  BY <1>1, PutListIs
<1>3. /\ q.lists[l] # None /\ q.lists[l].seq = r.seq + 1
      /\ [q.lists[l] EXCEPT !.seq = 0] = [row EXCEPT !.seq = 0]
  <2> PICK n \in Nat : n = r.seq + 1
    BY <1>1
  <2> DEFINE e == [row EXCEPT !.seq = n]
  <2>1. q.lists[l] = e
    BY <1>2
  <2>2. e # None /\ e.seq = n /\ [e EXCEPT !.seq = 0] = [row EXCEPT !.seq = 0]
    BY <1>1, ListRowIs
  <2> HIDE DEF e
  <2> QED BY <2>1, <2>2
<1>4. RowDiffers(q.lists[l], r.lists[l])
  BY <1>1, <1>3 DEF RowDiffers, ListMayBe, RealLists, UidInUse, ShowsOther
<1>5. Shown(q) # Shown(r)
  BY <1>1, <1>4, ListTells
<1>6. \A m \in Lists : q.lists[m] \notin {r.lists[m], None} => m = l
  BY <1>2
<1>7. q.seq > r.seq /\ q.seq >= r.seq /\ q.lists[l].seq > r.seq
  BY <1>1, <1>2, <1>3
<1> QED BY <1>2, <1>5, <1>6, <1>7 DEF TellsChange

\* Rows that left tell.
LEMMA LeavingTells ==
    ASSUME NEW r, RoomOK(r), NEW q, NEW is, NEW ls, RowsLeave(r, q, is, ls)
    PROVE  TellsChange(r, q)
<1>0. r \in Room /\ q \in Room /\ q.seq > r.seq
  BY DEF RoomOK, RowsOK, RowsLeave
<1>1. r.seq \in Nat /\ q.seq \in Nat /\ q.seq > r.seq /\ q.seq >= r.seq
  <2>1. r.seq \in Nat /\ q.seq \in Nat
    BY <1>0, RoomIs
  <2> QED BY <1>0, <2>1
<1>2. Shown(q) # Shown(r)
  <2>1. CASE is # {}
    <3>1. PICK i \in is : i \in Items
      BY <2>1 DEF RowsLeave
    <3>2. RowDiffers(q.items[i], r.items[i])
      BY <3>1 DEF RowsLeave, RowDiffers
    <3> QED BY <3>1, <3>2, ItemTells
  <2>2. CASE ls # {}
    <3>1. PICK l \in ls : l \in Lists
      BY <2>2 DEF RowsLeave
    <3>2. RowDiffers(q.lists[l], r.lists[l])
      BY <3>1 DEF RowsLeave, RowDiffers, RealLists
    <3> QED BY <3>1, <3>2, ListTells
  <2> QED BY <2>1, <2>2 DEF RowsLeave
<1>3. \A i \in Items : q.items[i] \in {r.items[i], None}
  BY DEF RowsLeave
<1>4. \A l \in Lists : q.lists[l] \in {r.lists[l], None}
  BY DEF RowsLeave
<1> QED BY <1>1, <1>2, <1>3, <1>4 DEF TellsChange

\* A list and its items tell.
LEMMA BothTell ==
    ASSUME NEW r, RoomOK(r), NEW l \in RealLists(r), NEW row \in ListRow, ListMayBe(r, l, row),
           NEW rows, RowsMayBe(r, l, rows), NEW q, q = PutItems(PutList(r, l, row), rows)
    PROVE  TellsChange(r, q)
<1> PICK mid : mid = PutList(r, l, row)
  OBVIOUS
<1> DEFINE S == DOMAIN rows
<1>1. /\ RoomOK(mid) /\ RowsMayBe(mid, l, rows)
      /\ mid.seq = r.seq + 1 /\ mid.items = r.items /\ mid.name = r.name
      /\ mid.lists[l] = [row EXCEPT !.seq = r.seq + 1]
      /\ \A m \in Lists \ {l} : mid.lists[m] = r.lists[m]
  BY BothWrites
<1>2. TellsChange(r, mid)
  BY PutListTells
<1>3. mid \in Room /\ S \in SUBSET Items /\ rows \in [S -> ItemRow] /\ r.seq \in Nat /\ l \in Lists
  BY <1>1, RoomIs DEF RoomOK, RowsOK, RowsMayBe, ItemsIn, RealLists
<1>4. Cardinality(S) \in Nat
  BY <1>3, Finite
<1>5. q = PutItems(mid, rows)
  OBVIOUS
<1> HIDE DEF S
<1>6. /\ q.seq = mid.seq + Cardinality(S) /\ q.lists = mid.lists
      /\ \A i \in Items \ S : q.items[i] = mid.items[i]
  BY <1>3, <1>5, PutItemsIs
<1>7. \A i \in S : mid.seq < q.items[i].seq /\ q.items[i].seq <= q.seq /\ q.items[i] \in ItemRow
  <2>1. ASSUME NEW i \in S
        PROVE  mid.seq < q.items[i].seq /\ q.items[i].seq <= q.seq /\ q.items[i] \in ItemRow
    <3>1. mid \in Room /\ S \in SUBSET Items /\ rows \in [S -> ItemRow]
      BY <1>3
    <3>2. IsWritten(mid, q, rows, i)
      BY <1>5, <3>1, PutItemsIs
    <3> QED BY <3>2 DEF IsWritten
  <2> QED BY <2>1
<1>8. \A i, j \in S : q.items[i].seq = q.items[j].seq => i = j
  <2>1. mid \in Room /\ S \in SUBSET Items /\ rows \in [S -> ItemRow]
    BY <1>3
  <2> QED BY <1>5, <2>1, PutItemsIs
<1>9. q.seq > r.seq /\ q.seq >= r.seq
  BY <1>1, <1>3, <1>4, <1>6
<1>10. RowDiffers(q.lists[l], r.lists[l])
  <2> PICK n \in Nat : n = r.seq + 1
    BY <1>3
  <2> DEFINE e == [row EXCEPT !.seq = n]
  <2>1. r \in Room
    BY DEF RoomOK, RowsOK
  <2>2. mid.lists[l] = [row EXCEPT !.seq = r.seq + 1]
    BY <1>3, <2>1, PutListIs
  <2>3. q.lists[l] = e
    BY <1>6, <2>2
  <2>4. e # None /\ [e EXCEPT !.seq = 0] = [row EXCEPT !.seq = 0]
    BY ListRowIs
  <2> HIDE DEF e
  <2> QED BY <2>3, <2>4 DEF RowDiffers, ListMayBe, RealLists, UidInUse, ShowsOther
<1>11. Shown(q) # Shown(r)
  BY <1>3, <1>10, ListTells
<1>12. \A i \in S : q.items[i].seq > r.seq
  <2>1. \A i \in S : q.items[i].seq \in Nat
    BY <1>7 DEF ItemRow
  <2> QED BY <1>1, <1>3, <1>7, <2>1
<1>13. \A i \in Items : q.items[i] \notin {r.items[i], None} => i \in S
  BY <1>1, <1>6
<1>14. \A j \in Items \ S : q.items[j] # None => q.items[j].seq <= r.seq /\ q.items[j].seq \in Nat
  <2>1. r \in Room
    BY DEF RoomOK, RowsOK
  <2>2. \A j \in Items : r.items[j] # None => r.items[j].seq \in Nat /\ r.items[j].seq <= r.seq
    BY <2>1 DEF Room, ItemRow, RoomOK, RowsOK
  <2> QED BY <1>1, <1>6, <2>2
<1>15. \A i \in S : q.items[i].seq \in Nat
  BY <1>7 DEF ItemRow
<1>16. \A i \in S : \A j \in Items \ {i} : q.items[j] # None => q.items[j].seq # q.items[i].seq
  <2> SUFFICES ASSUME NEW i \in S, NEW j \in Items, j # i, q.items[j] # None
               PROVE  q.items[j].seq # q.items[i].seq
    OBVIOUS
  <2>1. CASE j \in S
    BY <1>8, <2>1
  <2>2. CASE j \notin S
    BY <1>3, <1>12, <1>14, <1>15, <2>2
  <2> QED BY <2>1, <2>2
<1>17. \A m \in Lists : q.lists[m] \notin {r.lists[m], None} => q.lists[m].seq > r.seq
  BY <1>2, <1>6 DEF TellsChange
<1> QED BY <1>9, <1>11, <1>12, <1>13, <1>16, <1>17 DEF TellsChange

\* A renamed room tells.
LEMMA RenameTells ==
    ASSUME NEW r, RoomOK(r), NEW op, NEW q, RoomIsRenamed(r, op, q)
    PROVE  TellsChange(r, q)
<1>1. r \in Room /\ r.seq \in Nat
  BY RoomIs DEF RoomOK, RowsOK
<1>2. q = [r EXCEPT !.seq = r.seq + 1, !.name = op.name] /\ op.name # r.name
  BY DEF RoomIsRenamed
<1>3. q.seq = r.seq + 1 /\ q.lists = r.lists /\ q.items = r.items /\ q.name = op.name
  BY <1>1, <1>2 DEF Room
<1>4. Shown(q) # Shown(r)
  BY <1>2, <1>3, NameTells
<1>5. q.seq > r.seq /\ q.seq >= r.seq
  BY <1>1, <1>3
<1> QED BY <1>3, <1>4, <1>5 DEF TellsChange

\* A room that stays tells nothing.
LEMMA SameTells ==
    ASSUME NEW r, RoomOK(r)
    PROVE  TellsChange(r, r)
<1>1. r.seq \in Nat
  BY RoomIs DEF RoomOK, RowsOK
<1> QED BY <1>1 DEF TellsChange

\* Whatever an op does, the seq tells it.
LEMMA ChangeTells ==
    ASSUME NEW r, RoomOK(r), NEW op, NEW q, OpChange(r, op, q)
    PROVE  TellsChange(r, q)
<1>1. CASE q = r
  BY <1>1, SameTells
<1>2. CASE ItemIsPut(r, op, q)
  BY <1>2, PutItemTells DEF ItemIsPut
<1>3. CASE ListIsPut(r, op, q)
  BY <1>3, PutListTells DEF ListIsPut
<1>4. CASE ListAndItemsArePut(r, op, q)
  BY <1>4, BothTell DEF ListAndItemsArePut
<1>5. CASE RoomIsRenamed(r, op, q)
  BY <1>5, RenameTells
<1>6. CASE ListHasLeft(r, op, q)
  BY <1>6, LeavingTells DEF ListHasLeft
<1>7. CASE ItemHasLeft(r, op, q)
  BY <1>7, LeavingTells DEF ItemHasLeft
<1> QED BY <1>1, <1>2, <1>3, <1>4, <1>5, <1>6, <1>7 DEF OpChange

-----------------------------------------------------------------------------
(* Share links, one tag per item, and bases.                               *)

\* ShareStaysInList of one op.
ShareStays(r, op, q) ==
    op.scope # None =>
       /\ q.name = r.name
       /\ \A l \in Lists : q.lists[l] # r.lists[l] =>
             /\ l = op.scope
             /\ q.lists[l] # None
             /\ q.lists[l].name = r.lists[l].name
       /\ \A i \in Items : q.items[i] # r.items[i] =>
             op.scope \in {ListOf(r.items[i]), ListOf(q.items[i])}

\* Whatever an op does through a share link, it does to that list.
LEMMA ChangeStays ==
    ASSUME NEW r, RoomOK(r), NEW op, OpOK(op), NEW q, OpChange(r, op, q)
    PROVE  ShareStays(r, op, q)
<1> SUFFICES ASSUME op.scope # None, q # r
             PROVE  ShareStays(r, op, q)
  BY DEF ShareStays
<1> PICK l : l = op.list
  OBVIOUS
<1>1. /\ op.type \notin {"room.rename", "list.create", "list.rename", "list.delete"}
      /\ op.scope = l /\ l \in Lists
  BY DEF OpChange, NotForShareLink, OpOK
<1>2. r \in Room
  BY DEF RoomOK, RowsOK
<1>3. CASE ItemIsPut(r, op, q)
  <2>1. PICK i \in Items, row \in ItemRow : ItemMayBe(r, l, i, row) /\ q = PutItem(r, i, row)
    BY <1>3 DEF ItemIsPut
  <2>2. /\ q \in Room /\ q.seq = r.seq + 1
        /\ q.name = r.name /\ q.lists = r.lists /\ q.gone = r.gone
        /\ q.items[i] = [row EXCEPT !.seq = r.seq + 1]
        /\ \A j \in Items \ {i} : q.items[j] = r.items[j]
    BY <1>2, <2>1, PutItemIs
  <2>3. RoomOK(q)
    BY <2>1, PutItemFits
  <2>4. row.list = l /\ q.items[i].list = l /\ q.items[i] # None
    <3> PICK n \in Nat : n = r.seq + 1
      BY <1>2 DEF Room
    <3> DEFINE e == [row EXCEPT !.seq = n]
    <3>1. q.items[i] = e
      BY <2>2
    <3>2. e # None /\ e.list = row.list
      BY ItemRowIs
    <3>3. row.list = l
      BY <2>1 DEF ItemMayBe
    <3> HIDE DEF e
    <3> QED BY <3>1, <3>2, <3>3
  <2> QED BY <1>1, <2>2, <2>4 DEF ShareStays, ListOf
<1>4. CASE ListIsPut(r, op, q)
  <2>1. PICK row \in ListRow : /\ ListMayBe(r, l, row) /\ q = PutList(r, l, row)
                               /\ l \in RealLists(r) /\ row.name = r.lists[l].name
    BY <1>1, <1>4 DEF ListIsPut
  <2>2. /\ q \in Room /\ q.seq = r.seq + 1
        /\ q.name = r.name /\ q.items = r.items /\ q.gone = r.gone
        /\ q.lists[l] = [row EXCEPT !.seq = r.seq + 1]
        /\ \A m \in Lists \ {l} : q.lists[m] = r.lists[m]
    BY <1>1, <1>2, <2>1, PutListIs
  <2>3. q.lists[l] # None /\ q.lists[l].name = r.lists[l].name
    <3> PICK n \in Nat : n = r.seq + 1
      BY <1>2 DEF Room
    <3> DEFINE e == [row EXCEPT !.seq = n]
    <3>1. q.lists[l] = e
      BY <2>2
    <3>2. e # None /\ e.name = row.name
      BY ListRowIs
    <3> HIDE DEF e
    <3> QED BY <2>1, <3>1, <3>2
  <2> QED BY <1>1, <2>2, <2>3 DEF ShareStays
<1>5. CASE ListAndItemsArePut(r, op, q)
  <2>1. PICK row \in ListRow, rows \in UNION {[S -> ItemRow] : S \in SUBSET Items} :
          /\ l \in RealLists(r) /\ ListMayBe(r, l, row) /\ RowsMayBe(r, l, rows)
          /\ q = PutItems(PutList(r, l, row), rows) /\ row.name = r.lists[l].name
    BY <1>5 DEF ListAndItemsArePut
  <2> PICK mid : mid = PutList(r, l, row)
    OBVIOUS
  <2> DEFINE S == DOMAIN rows
  <2>2. /\ RoomOK(mid) /\ RowsMayBe(mid, l, rows)
        /\ mid.seq = r.seq + 1 /\ mid.items = r.items /\ mid.name = r.name
        /\ mid.lists[l] = [row EXCEPT !.seq = r.seq + 1]
        /\ \A m \in Lists \ {l} : mid.lists[m] = r.lists[m]
    BY <2>1, BothWrites
  <2>3. mid \in Room /\ S \in SUBSET Items /\ rows \in [S -> ItemRow] /\ q = PutItems(mid, rows)
    BY <2>1, <2>2 DEF RoomOK, RowsOK, RowsMayBe, ItemsIn
  <2>4. \A i \in S : ListOf(r.items[i]) = l
    BY <2>1 DEF RowsMayBe, ItemsIn, ListOf
  <2> HIDE DEF S
  <2>5. /\ q.name = mid.name /\ q.lists = mid.lists
        /\ \A i \in Items \ S : q.items[i] = mid.items[i]
    BY <2>3, PutItemsIs
  <2>6. q.lists[l] # None /\ q.lists[l].name = r.lists[l].name
    <3> PICK n \in Nat : n = r.seq + 1
      BY <1>2 DEF Room
    <3> DEFINE e == [row EXCEPT !.seq = n]
    <3>1. q.lists[l] = e
      BY <2>2, <2>5
    <3>2. e # None /\ e.name = row.name
      BY ListRowIs
    <3> HIDE DEF e
    <3> QED BY <2>1, <3>1, <3>2
  <2>7. \A i \in Items : q.items[i] # r.items[i] => ListOf(r.items[i]) = l
    BY <2>2, <2>4, <2>5
  <2> QED BY <1>1, <2>2, <2>5, <2>6, <2>7 DEF ShareStays
<1>6. CASE ItemHasLeft(r, op, q)
  <2>1. /\ q.name = r.name
        /\ \A m \in Lists : q.lists[m] = r.lists[m]
        /\ \A i \in Items : q.items[i] # r.items[i] => i = op.item
    BY <1>6 DEF ItemHasLeft, RowsLeave
  <2>2. ListOf(r.items[op.item]) = l
    BY <1>6 DEF ItemHasLeft, ItemsIn, ListOf
  <2> QED BY <1>1, <2>1, <2>2 DEF ShareStays
<1> QED BY <1>1, <1>3, <1>4, <1>5, <1>6 DEF OpChange, RoomIsRenamed, ListHasLeft

-----------------------------------------------------------------------------
\* SingleModeKept of one op.
SingleKept(r, q) ==
    \A l \in RealLists(r) \cap RealLists(q) :
       /\ "single" \in q.lists[l].settings
       /\ "single" \notin r.lists[l].settings \/ l \in OneTagEach(r)
       => l \in OneTagEach(q)

\* Nothing of a list's settings or items changes.
LEMMA OneTagStays ==
    ASSUME NEW r, NEW q, NEW l \in RealLists(r) \cap RealLists(q),
           "single" \in q.lists[l].settings,
           "single" \notin r.lists[l].settings \/ l \in OneTagEach(r),
           q.lists[l].settings = r.lists[l].settings,
           \A i \in ItemsIn(q, l) : q.items[i] = r.items[i] /\ i \in Items
    PROVE  l \in OneTagEach(q)
BY DEF OneTagEach, ItemsIn

\* Whatever an op does but an undo, one tag per item stays so.
LEMMA ChangeKeepsOneTag ==
    ASSUME NEW r, RoomOK(r), NEW op, OpOK(op), NEW q, OpChange(r, op, q), op.type # "item.restore"
    PROVE  SingleKept(r, q)
<1> SUFFICES ASSUME NEW l \in RealLists(r) \cap RealLists(q),
                    "single" \in q.lists[l].settings,
                    "single" \notin r.lists[l].settings \/ l \in OneTagEach(r)
             PROVE  l \in OneTagEach(q)
  BY DEF SingleKept
<1>1. r \in Room /\ l \in Lists /\ r.lists[l] # None /\ q.lists[l] # None
  BY DEF RoomOK, RowsOK, RealLists
<1>2. RoomOK(q) /\ q \in Room
  BY ChangeFits DEF RoomOK, RowsOK
<1>3. \A i \in Items : /\ r.items[i] # None => Len(r.items[i].tags) \in Nat
                       /\ q.items[i] # None => Len(q.items[i].tags) \in Nat
  <2>1. ASSUME NEW i \in Items, r.items[i] # None PROVE Len(r.items[i].tags) \in Nat
    <3>1. r.items[i].tags \in Seq(Tags)
      BY <1>1, <2>1 DEF Room, ItemRow
    <3> QED BY <3>1
  <2>2. ASSUME NEW i \in Items, q.items[i] # None PROVE Len(q.items[i].tags) \in Nat
    <3>1. q.items[i].tags \in Seq(Tags)
      BY <1>2, <2>2 DEF Room, ItemRow
    <3> QED BY <3>1
  <2> QED BY <2>1, <2>2
<1>4. CASE q.lists[l].settings = r.lists[l].settings
           /\ \A i \in ItemsIn(q, l) : q.items[i] = r.items[i] /\ i \in Items
  BY <1>4, OneTagStays
<1>5. CASE ItemIsPut(r, op, q)
  <2>1. PICK i \in Items, row \in ItemRow :
           ItemMayBe(r, op.list, i, row) /\ q = PutItem(r, i, row) /\ FewTags(r, op, i, row)
    BY <1>5 DEF ItemIsPut
  <2>2. /\ q \in Room /\ q.seq = r.seq + 1
        /\ q.name = r.name /\ q.lists = r.lists /\ q.gone = r.gone
        /\ q.items[i] = [row EXCEPT !.seq = r.seq + 1]
        /\ \A j \in Items \ {i} : q.items[j] = r.items[j]
    BY <1>1, <2>1, PutItemIs
  <2>3. q.items[i].list = op.list /\ q.items[i].tags = row.tags
    <3> PICK n \in Nat : n = r.seq + 1
      BY <1>1 DEF Room
    <3> DEFINE e == [row EXCEPT !.seq = n]
    <3>1. q.items[i] = e
      BY <2>2
    <3>2. e.list = row.list /\ e.tags = row.tags
      BY ItemRowIs
    <3>3. row.list = op.list
      BY <2>1 DEF ItemMayBe
    <3> HIDE DEF e
    <3> QED BY <3>1, <3>2, <3>3
  <2>4. l \in OneTagEach(r) /\ "single" \in r.lists[l].settings
    BY <2>2
  <2>5. \A j \in ItemsIn(r, l) : Len(r.items[j].tags) <= 1
    BY <2>4 DEF OneTagEach
  <2>6. ASSUME NEW j \in ItemsIn(q, l) PROVE Len(q.items[j].tags) <= 1
    <3>1. j \in Items /\ q.items[j] # None /\ q.items[j].list = l
      BY DEF ItemsIn
    <3>2. CASE j = i
      <4>1. op.list = l
        BY <2>3, <3>1, <3>2
      <4>2. Len(row.tags) <= 1 \/ (i \in ItemsIn(r, l) /\ Len(row.tags) <= Len(r.items[i].tags))
        BY <2>1, <2>4, <4>1 DEF FewTags
      <4>3. i \in ItemsIn(r, l) => /\ Len(r.items[i].tags) \in Nat
                                   /\ Len(r.items[i].tags) <= 1
        BY <1>3, <2>5 DEF ItemsIn
      <4>4. Len(q.items[i].tags) \in Nat
        BY <1>3, <3>1, <3>2
      <4> QED BY <2>3, <3>2, <4>2, <4>3, <4>4
    <3>3. CASE j # i
      <4>1. q.items[j] = r.items[j] /\ j \in ItemsIn(r, l)
        BY <2>2, <3>1, <3>3 DEF ItemsIn
      <4> QED BY <2>5, <4>1
    <3> QED BY <3>2, <3>3
  <2> QED BY <2>6 DEF OneTagEach
<1>6. CASE ListIsPut(r, op, q)
  <2>1. PICK row \in ListRow : /\ ListMayBe(r, op.list, row) /\ q = PutList(r, op.list, row)
                               /\ op.list \in RealLists(r) => row.settings = r.lists[op.list].settings
    BY <1>6 DEF ListIsPut
  <2> PICK m : m = op.list
    OBVIOUS
  <2>2. m \in Lists /\ ListMayBe(r, m, row) /\ q = PutList(r, m, row)
        /\ (m \in RealLists(r) => row.settings = r.lists[m].settings)
    BY <2>1 DEF ListMayBe
  <2>3. /\ q.items = r.items
        /\ q.lists[m] = [row EXCEPT !.seq = r.seq + 1]
        /\ \A o \in Lists \ {m} : q.lists[o] = r.lists[o]
    BY <1>1, <2>2, PutListIs
  <2>4. q.lists[m].settings = row.settings
    <3> PICK n \in Nat : n = r.seq + 1
      BY <1>1 DEF Room
    <3> DEFINE e == [row EXCEPT !.seq = n]
    <3>1. q.lists[m] = e
      BY <2>3
    <3>2. e.settings = row.settings
      BY ListRowIs
    <3> HIDE DEF e
    <3> QED BY <3>1, <3>2
  <2>5. q.lists[l].settings = r.lists[l].settings
    BY <1>1, <2>2, <2>3, <2>4
  <2>6. \A i \in ItemsIn(q, l) : q.items[i] = r.items[i] /\ i \in Items
    BY <2>3 DEF ItemsIn
  <2> QED BY <2>5, <2>6, OneTagStays
<1>7. CASE ListAndItemsArePut(r, op, q)
  <2> PICK m : m = op.list
    OBVIOUS
  <2>1. PICK row \in ListRow, rows \in UNION {[S -> ItemRow] : S \in SUBSET Items} :
          /\ m \in RealLists(r) /\ ListMayBe(r, m, row) /\ RowsMayBe(r, m, rows)
          /\ q = PutItems(PutList(r, m, row), rows)
          /\ OneTagWritten(r, m, row, rows)
    BY <1>7 DEF ListAndItemsArePut
  <2> PICK mid : mid = PutList(r, m, row)
    OBVIOUS
  <2> DEFINE S == DOMAIN rows
  <2>2. /\ RoomOK(mid) /\ RowsMayBe(mid, m, rows)
        /\ mid.seq = r.seq + 1 /\ mid.items = r.items /\ mid.name = r.name
        /\ mid.lists[m] = [row EXCEPT !.seq = r.seq + 1]
        /\ \A o \in Lists \ {m} : mid.lists[o] = r.lists[o]
    BY <2>1, BothWrites
  <2>3. mid \in Room /\ S \in SUBSET Items /\ rows \in [S -> ItemRow] /\ q = PutItems(mid, rows)
    BY <2>1, <2>2 DEF RoomOK, RowsOK, RowsMayBe, ItemsIn
  <2>4. \A i \in S : i \in Items /\ r.items[i] # None /\ r.items[i].list = m /\ rows[i].list = m
    BY <2>1 DEF RowsMayBe, ItemsIn
  <2>5. "single" \in row.settings =>
          IF "single" \in r.lists[m].settings
          THEN \A i \in S : Len(rows[i].tags) <= Len(r.items[i].tags)
          ELSE \A i \in ItemsIn(r, m) :
                  IF i \in S THEN Len(rows[i].tags) <= 1 ELSE Len(r.items[i].tags) <= 1
    BY <2>1 DEF OneTagWritten
  <2> HIDE DEF S
  <2>6. /\ q.lists = mid.lists
        /\ \A i \in Items \ S : q.items[i] = mid.items[i]
    BY <2>3, PutItemsIs
  <2>7. ASSUME NEW i \in S
        PROVE  /\ q.items[i] # None /\ q.items[i].list = rows[i].list
               /\ q.items[i].tags = rows[i].tags
    <3>1. mid \in Room /\ S \in SUBSET Items /\ rows \in [S -> ItemRow]
      BY <2>3
    <3>2. q = PutItems(mid, rows)
      BY <2>3
    <3>3. IsWritten(mid, q, rows, i)
      BY <3>1, <3>2, PutItemsIs
    <3> QED BY <3>3 DEF IsWritten
  <2>8. q.lists[m].settings = row.settings
    <3> PICK n \in Nat : n = r.seq + 1
      BY <1>1 DEF Room
    <3> DEFINE e == [row EXCEPT !.seq = n]
    <3>1. q.lists[m] = e
      BY <2>2, <2>6
    <3>2. e.settings = row.settings
      BY ListRowIs
    <3> HIDE DEF e
    <3> QED BY <3>1, <3>2
  <2>9. CASE l # m
    <3>1. q.lists[l].settings = r.lists[l].settings
      BY <1>1, <2>2, <2>6, <2>9
    <3>2. ASSUME NEW i \in ItemsIn(q, l)
          PROVE  i \in Items /\ i \notin S
      <4>1. i \in Items /\ q.items[i].list = l
        BY DEF ItemsIn
      <4>2. i \in S => q.items[i].list = rows[i].list
        BY <2>7
      <4>3. i \in S => rows[i].list = m
        BY <2>4
      <4> QED BY <2>9, <4>1, <4>2, <4>3
    <3>3. \A i \in ItemsIn(q, l) : q.items[i] = r.items[i] /\ i \in Items
      BY <2>2, <2>6, <3>2
    <3> QED BY <3>1, <3>3, OneTagStays
  <2>10. CASE l = m
    <3>1. "single" \in row.settings
      BY <2>8, <2>10
    <3>2. ASSUME NEW i \in ItemsIn(q, l) PROVE Len(q.items[i].tags) <= 1
      <4>1. /\ i \in Items /\ q.items[i] # None
            /\ i \in S => q.items[i].tags = rows[i].tags
            /\ i \notin S => q.items[i] = r.items[i]
            /\ i \in ItemsIn(r, l)
        <5>1. i \in Items /\ q.items[i] # None /\ q.items[i].list = l
          BY DEF ItemsIn
        <5>2. CASE i \in S
          <6>1. q.items[i].tags = rows[i].tags
            BY <2>7, <5>2
          <6>2. r.items[i] # None /\ r.items[i].list = l
            BY <2>4, <2>10, <5>2
          <6> QED BY <5>1, <5>2, <6>1, <6>2 DEF ItemsIn
        <5>3. CASE i \notin S
          <6>1. q.items[i] = r.items[i]
            BY <2>2, <2>6, <5>1, <5>3
          <6> QED BY <5>1, <5>3, <6>1 DEF ItemsIn
        <5> QED BY <5>2, <5>3
      <4>2. Len(q.items[i].tags) \in Nat /\ Len(r.items[i].tags) \in Nat
        BY <1>3, <4>1 DEF ItemsIn
      <4>3. CASE "single" \notin r.lists[l].settings
        BY <2>5, <2>10, <3>1, <4>1, <4>3
      <4>4. CASE "single" \in r.lists[l].settings
        <5>1. Len(r.items[i].tags) <= 1
          BY <4>1, <4>4 DEF OneTagEach
        <5>2. i \in S => Len(rows[i].tags) <= Len(r.items[i].tags)
          BY <2>5, <2>10, <3>1, <4>4
        <5> QED BY <4>1, <4>2, <5>1, <5>2
      <4> QED BY <4>3, <4>4
    <3> QED BY <3>2 DEF OneTagEach
  <2> QED BY <2>9, <2>10
<1>8. CASE q = r
  <2>1. \A i \in ItemsIn(q, l) : q.items[i] = r.items[i] /\ i \in Items
    BY <1>8 DEF ItemsIn
  <2> QED BY <1>4, <1>8, <2>1
<1>9. CASE RoomIsRenamed(r, op, q)
  <2>1. q.lists = r.lists /\ q.items = r.items
    BY <1>1, <1>9 DEF RoomIsRenamed, Room
  <2>2. \A i \in ItemsIn(q, l) : q.items[i] = r.items[i] /\ i \in Items
    BY <2>1 DEF ItemsIn
  <2> QED BY <1>4, <2>1, <2>2
<1>10. ASSUME NEW is, NEW ls, RowsLeave(r, q, is, ls)
       PROVE  l \in OneTagEach(q)
  <2>1. q.lists[l] = r.lists[l]
    BY <1>1, <1>10 DEF RowsLeave
  <2>2. \A i \in ItemsIn(q, l) : q.items[i] = r.items[i] /\ i \in Items
    BY <1>10 DEF ItemsIn, RowsLeave
  <2> QED BY <1>4, <2>1, <2>2
<1> QED BY <1>5, <1>6, <1>7, <1>8, <1>9, <1>10 DEF OpChange, ListHasLeft, ItemHasLeft

-----------------------------------------------------------------------------
\* The row an op is about.
RowIn(r, op) ==
    IF op.item \in Items THEN r.items[op.item]
    ELSE IF op.list \in Lists THEN r.lists[op.list] ELSE None

\* An op with a base changes its row only if that has not been written since.
LEMMA ChangeIsOfBase ==
    ASSUME NEW r, RoomOK(r), NEW op, OpOK(op), NEW q, OpChange(r, op, q),
           op.base # None, RowIn(q, op) # RowIn(r, op)
    PROVE  RowIn(r, op) # None /\ RowIn(r, op).seq <= op.base
<1>1. op.type \in {"list.rename", "item.set_done", "item.edit"}
  BY DEF OpOK
<1>2. q # r
  OBVIOUS
<1>3. CASE op.type \in {"item.delete"} \cup NewItemTypes \cup RowTypes /\ ItemIsPut(r, op, q)
  <2>1. op.item \in Items
    BY <1>3 DEF OpOK
  <2>2. r.items[op.item] # None /\ r.items[op.item].seq <= op.base
    BY <1>3 DEF ItemIsPut
  <2> QED BY <2>1, <2>2 DEF RowIn
<1>4. CASE op.type \notin {"item.delete"} \cup NewItemTypes \cup RowTypes /\ ListIsPut(r, op, q)
  <2>1. op.item = None /\ op.item \notin Items
    BY <1>4, NoneIsNone DEF OpOK
  <2>2. op.list \in Lists /\ r.lists[op.list] # None /\ r.lists[op.list].seq <= op.base
    BY <1>4 DEF ListIsPut, RealLists
  <2> QED BY <2>1, <2>2 DEF RowIn
<1> QED BY <1>1, <1>2, <1>3, <1>4
        DEF OpChange, ListAndItemsArePut, RoomIsRenamed, ListHasLeft, ItemHasLeft

\* A row that is there after a write and is not the one before has a new seq.
LEMMA RowIsNew ==
    ASSUME NEW r, NEW q, TellsChange(r, q), NEW op, RowIn(q, op) \notin {RowIn(r, op), None}
    PROVE  RowIn(q, op).seq > r.seq
BY DEF TellsChange, RowIn

\* A composed op is one that a page can send; its row, while nobody has written
\* it after the op's base, is the one its author saw.
DraftOK(r, d) ==
    /\ d = [op |-> d.op, seen |-> d.seen, age |-> d.age]
    /\ OpOK(d.op) /\ d.op.type \in OpTypes
    /\ d.op.base # None =>
          /\ d.op.base <= r.seq
          /\ RowIn(r, d.op) # None /\ RowIn(r, d.op).seq <= d.op.base => RowIn(r, d.op) = d.seen

TablesInv ==
    /\ RoomOK(room)
    /\ \A id \in DOMAIN drafts : DraftOK(room, drafts[id])

-----------------------------------------------------------------------------
(* The ops of a page.                                                      *)

\* The tags an item is put back with.
LEMMA TagsOfAnItem ==
    ASSUME NEW kept \in ItemTags
    PROVE  kept \in Seq(Tags) /\ IsInjective(kept)
<1>1. CASE kept = <<>>
  BY <1>1, NoTagIs
<1>2. CASE kept \in SetToSeqs(Tags)
  <2>1. kept \in [1..Cardinality(Tags) -> Tags] /\ IsInjective(kept)
    BY <1>2 DEF SetToSeqs, IsInjective
  <2>2. Cardinality(Tags) \in Nat
    BY Finite
  <2> QED BY <2>1, <2>2
<1> QED BY <1>1, <1>2 DEF ItemTags

\* Ops on the room.
LEMMA RoomOpsAreOK ==
    ASSUME NEW op \in OpsOnRoom
    PROVE  OpOK(op) /\ op.base = None
<1>1. ASSUME NEW s, NEW n \in Names, op = Op("room.rename", s, None, None, n, None, None, None)
      PROVE  OpOK(op) /\ op.base = None
  BY <1>1 DEF Op, OpOK, KnownTypes, SettingsTypes, NewItemTypes, RowTypes
<1>2. ASSUME NEW s, NEW l \in Lists, NEW n \in Names,
             op = Op("list.create", s, l, None, n, None, None, None)
      PROVE  OpOK(op) /\ op.base = None
  BY <1>2 DEF Op, OpOK, KnownTypes, SettingsTypes, NewItemTypes, RowTypes
<1> QED BY <1>1, <1>2 DEF OpsOnRoom, FreshLists

\* Ops on a list and on new items.
LEMMA ListOpsAreOK ==
    ASSUME RoomOK(room), NEW l \in RealLists(room), NEW op \in OpsOnList(l)
    PROVE  OpOK(op) /\ (op.base # None => op.base <= room.seq)
<1> DEFINE Goal == OpOK(op) /\ (op.base # None => op.base <= room.seq)
<1>1. l \in Lists /\ room.lists[l].seq \in Nat /\ room.lists[l].seq <= room.seq
  <2>1. l \in Lists /\ room.lists[l] # None /\ room.lists[l].seq <= room.seq
    BY DEF RoomOK, RowsOK, RealLists
  <2>2. room.lists[l] \in ListRow
    BY <2>1, RoomIs DEF RoomOK, RowsOK
  <2> QED BY <2>1, <2>2 DEF ListRow
<1> PICK b \in Nat : b = room.lists[l].seq
  BY <1>1
<1>2. ASSUME NEW s, NEW n \in Names, op = Op("list.rename", s, l, None, n, None, None, b)
      PROVE  Goal
  BY <1>1, <1>2 DEF Op, OpOK, KnownTypes, SettingsTypes, NewItemTypes, RowTypes
<1>3. ASSUME NEW s, op = Op("list.delete", s, l, None, None, None, None, None)
      PROVE  Goal
  BY <1>1, <1>3 DEF Op, OpOK, KnownTypes, SettingsTypes, NewItemTypes, RowTypes
<1>4. ASSUME NEW s, NEW i \in Items, NEW n \in Names,
             op = Op("item.add", s, l, i, n, None, None, None)
      PROVE  Goal
  BY <1>1, <1>4 DEF Op, OpOK, KnownTypes, SettingsTypes, NewItemTypes, RowTypes
<1>5. ASSUME NEW s, NEW i \in Items, NEW n \in Names, NEW d \in BOOLEAN, NEW kept \in ItemTags,
             op = [Op("item.restore", s, l, i, n, d, 1, None) EXCEPT !.tags = kept]
      PROVE  Goal
  <2>1. kept \in Seq(Tags) /\ IsInjective(kept)
    BY TagsOfAnItem
  <2> QED BY <1>1, <1>5, <2>1 DEF Op, OpOK, KnownTypes, SettingsTypes, NewItemTypes, RowTypes
<1> HIDE DEF Goal
<1>6. Goal
  BY <1>2, <1>3, <1>4, <1>5 DEF OpsOnList, FreshItems
<1> QED BY <1>6 DEF Goal

\* Ops on tags and settings.
LEMMA TagOpsAreOK ==
    ASSUME NEW l \in RealLists(room), NEW op \in OpsOnTags(l)
    PROVE  OpOK(op) /\ op.base = None
<1> DEFINE Goal == OpOK(op) /\ op.base = None
<1>0. l \in Lists
  BY DEF RealLists
<1>1. ASSUME NEW type \in {"list.tag_add", "list.tag_remove"}, NEW s, NEW t \in Tags,
             op = ListTagOp(type, s, l, t)
      PROVE  Goal
  BY <1>0, <1>1 DEF ListTagOp, Op, OpOK, KnownTypes, SettingsTypes, NewItemTypes, RowTypes
<1>2. ASSUME NEW s, NEW t \in Tags, NEW given \in BOOLEAN,
             op = [ListTagOp("list.tag_color", s, l, t) EXCEPT !.done = given]
      PROVE  Goal
  BY <1>0, <1>2 DEF ListTagOp, Op, OpOK, KnownTypes, SettingsTypes, NewItemTypes, RowTypes
<1>3. ASSUME NEW s, NEW t \in Tags, NEW new \in Tags,
             op = [ListTagOp("list.tag_rename", s, l, t) EXCEPT !.newTag = new]
      PROVE  Goal
  BY <1>0, <1>3 DEF ListTagOp, Op, OpOK, KnownTypes, SettingsTypes, NewItemTypes, RowTypes
<1>4. ASSUME NEW type \in SettingsTypes, NEW s, NEW sent,
             DOMAIN sent \subseteq TagSettings \cup Visibility,
             op = [ListTagOp(type, s, l, None) EXCEPT !.sent = sent]
      PROVE  Goal
  BY <1>0, <1>4 DEF ListTagOp, Op, OpOK, KnownTypes, SettingsTypes, NewItemTypes, RowTypes
<1> HIDE DEF Goal
<1>5. \/ \E type \in {"list.tag_add", "list.tag_remove"}, s \in Scopes, t \in Tags :
            op = ListTagOp(type, s, l, t)
      \/ \E s \in Scopes, t \in Tags, given \in BOOLEAN :
            op = [ListTagOp("list.tag_color", s, l, t) EXCEPT !.done = given]
      \/ \E s \in Scopes, t \in Tags, new \in Tags :
            op = [ListTagOp("list.tag_rename", s, l, t) EXCEPT !.newTag = new]
      \/ \E s \in Scopes, sent \in UNION {[f -> BOOLEAN] : f \in (SUBSET TagSettings) \ {{}}} :
            op = [ListTagOp("list.tag_settings", s, l, None) EXCEPT !.sent = sent]
      \/ \E s \in Scopes, sent \in UNION {[f -> BOOLEAN] : f \in (SUBSET Visibility) \ {{}}} :
            op = [ListTagOp("list.visibility", s, l, None) EXCEPT !.sent = sent]
  BY DEF OpsOnTags
<1>6. ASSUME NEW S, NEW sent \in UNION {[f -> BOOLEAN] : f \in (SUBSET S) \ {{}}}
      PROVE  DOMAIN sent \subseteq S
  BY <1>6
<1>7. /\ \A sent \in UNION {[f -> BOOLEAN] : f \in (SUBSET TagSettings) \ {{}}} :
            DOMAIN sent \subseteq TagSettings \cup Visibility
      /\ \A sent \in UNION {[f -> BOOLEAN] : f \in (SUBSET Visibility) \ {{}}} :
            DOMAIN sent \subseteq TagSettings \cup Visibility
  <2>1. ASSUME NEW sent \in UNION {[f -> BOOLEAN] : f \in (SUBSET TagSettings) \ {{}}}
        PROVE  DOMAIN sent \subseteq TagSettings \cup Visibility
    BY <1>6
  <2>2. ASSUME NEW sent \in UNION {[f -> BOOLEAN] : f \in (SUBSET Visibility) \ {{}}}
        PROVE  DOMAIN sent \subseteq TagSettings \cup Visibility
    BY <1>6
  <2> QED BY <2>1, <2>2
<1>8. Goal
  BY <1>1, <1>2, <1>3, <1>4, <1>5, <1>7 DEF SettingsTypes
<1> QED BY <1>8 DEF Goal

\* Ops on an item.
LEMMA ItemOpsAreOK ==
    ASSUME RoomOK(room), NEW l \in RealLists(room), NEW i \in Items, room.items[i] # None,
           NEW op \in OpsOnItem(l, i)
    PROVE  OpOK(op) /\ (op.base # None => op.base <= room.seq)
<1> DEFINE Goal == OpOK(op) /\ (op.base # None => op.base <= room.seq)
<1>1. l \in Lists /\ room.items[i].seq \in Nat /\ room.items[i].seq <= room.seq
  <2>1. l \in Lists /\ room.items[i].seq <= room.seq
    BY DEF RoomOK, RowsOK, RealLists
  <2>2. room.items[i] \in ItemRow
    BY RoomIs DEF RoomOK, RowsOK
  <2> QED BY <2>1, <2>2 DEF ItemRow
<1> PICK c \in Nat : c = room.items[i].seq
  BY <1>1
<1>2. ASSUME NEW s, NEW d \in BOOLEAN, NEW b \in {c, None},
             op = Op("item.set_done", s, l, i, None, d, None, b)
      PROVE  Goal
  BY <1>1, <1>2 DEF Op, OpOK, KnownTypes, SettingsTypes, NewItemTypes, RowTypes
<1>3. ASSUME NEW s, NEW n \in Names, NEW qty \in {None, 1},
             op = Op("item.edit", s, l, i, n, None, qty, c)
      PROVE  Goal
  BY <1>1, <1>3 DEF Op, OpOK, KnownTypes, SettingsTypes, NewItemTypes, RowTypes
<1>4. ASSUME NEW s, NEW d \in {-1, 1},
             op = Op("item.quantity_delta", s, l, i, None, None, d, None)
      PROVE  Goal
  BY <1>1, <1>4 DEF Op, OpOK, KnownTypes, SettingsTypes, NewItemTypes, RowTypes
<1>5. ASSUME NEW s, NEW d, NEW t \in Tags,
             op = [Op("item.toggle_tag", s, l, i, None, d, None, None) EXCEPT !.tag = t]
      PROVE  Goal
  BY <1>1, <1>5 DEF Op, OpOK, KnownTypes, SettingsTypes, NewItemTypes, RowTypes
<1>6. ASSUME NEW s, op = Op("item.delete", s, l, i, None, None, None, None)
      PROVE  Goal
  BY <1>1, <1>6 DEF Op, OpOK, KnownTypes, SettingsTypes, NewItemTypes, RowTypes
<1> HIDE DEF Goal
<1>7. Goal
  BY <1>2, <1>3, <1>4, <1>5, <1>6 DEF OpsOnItem
<1> QED BY <1>7 DEF Goal

\* Any op a page can send.
LEMMA OpsNowAreOK ==
    ASSUME RoomOK(room), NEW op \in OpsNow
    PROVE  OpOK(op) /\ op.type \in OpTypes /\ (op.base # None => op.base <= room.seq)
<1>1. op.type \in OpTypes
  BY DEF OpsNow
<1>2. CASE op \in OpsOnRoom
  BY <1>1, <1>2, RoomOpsAreOK
<1>3. ASSUME NEW l \in RealLists(room), op \in OpsOnList(l)
      PROVE  OpOK(op) /\ (op.base # None => op.base <= room.seq)
  BY <1>3, ListOpsAreOK
<1>4. ASSUME NEW l \in RealLists(room), op \in OpsOnTags(l)
      PROVE  OpOK(op) /\ (op.base # None => op.base <= room.seq)
  BY <1>4, TagOpsAreOK
<1>5. ASSUME NEW l \in RealLists(room), NEW i \in {j \in Items : room.items[j] # None},
             op \in OpsOnItem(l, i)
      PROVE  OpOK(op) /\ (op.base # None => op.base <= room.seq)
  BY <1>5, ItemOpsAreOK
<1>6. \/ op \in OpsOnRoom
      \/ \E l \in RealLists(room) : op \in OpsOnList(l) \/ op \in OpsOnTags(l)
      \/ \E l \in RealLists(room) : \E i \in {j \in Items : room.items[j] # None} :
            op \in OpsOnItem(l, i)
  <2> DEFINE OnLists == UNION {OpsOnList(l) \cup OpsOnTags(l) : l \in RealLists(room)}
             OnItems == UNION {OpsOnItem(l, i) : l \in RealLists(room),
                                                 i \in {j \in Items : room.items[j] # None}}
  <2>1. op \in OpsOnRoom \cup OnLists \cup OnItems
    BY DEF OpsNow
  <2>2. op \in OnLists => \E l \in RealLists(room) : op \in OpsOnList(l) \/ op \in OpsOnTags(l)
    OBVIOUS
  <2>3. op \in OnItems => \E l \in RealLists(room) : \E i \in {j \in Items : room.items[j] # None} :
                             op \in OpsOnItem(l, i)
    OBVIOUS
  <2> HIDE DEF OnLists, OnItems
  <2> QED BY <2>1, <2>2, <2>3
<1> QED BY <1>1, <1>2, <1>3, <1>4, <1>5, <1>6

-----------------------------------------------------------------------------
\* The rooms at the start fit.
LEMMA TablesFitFirst ==
    ASSUME Init
    PROVE  TablesInv
<1>1. PICK n \in Names,
           ls \in [Lists -> {None} \cup [name : Names, tags : StartTags, colored : {{}},
                                         settings : {{}}, seq : {1}]],
           is \in [Items -> {None} \cup [list : Lists, name : Names, done : StartDone,
                                         qty : {1}, tags : ItemTags, seq : {2}]] :
             room = [seq |-> 2, name |-> n, lists |-> ls, items |-> is, gone |-> {}]
  BY DEF Init
<1>2. room.seq = 2 /\ room.name = n /\ room.lists = ls /\ room.items = is /\ room.gone = {}
  BY <1>1
<1>3. \A T \in StartTags : T \in SUBSET Tags /\ Cardinality(T) <= MaxTags
  <2>1. MaxTags \in Nat
    BY LimitsAreNats
  <2> QED BY <2>1, FS_EmptySet DEF StartTags
<1>4. ASSUME NEW l \in Lists, ls[l] # None
      PROVE  ls[l] \in ListRow /\ ls[l].seq = 1 /\ ls[l].colored = {} /\ ls[l].tags \in StartTags
  <2>1. ls[l] \in [name : Names, tags : StartTags, colored : {{}}, settings : {{}}, seq : {1}]
    BY <1>4
  <2> QED BY <1>3, <2>1 DEF ListRow
<1>5. ASSUME NEW i \in Items, is[i] # None
      PROVE  is[i] \in ItemRow /\ is[i].seq = 2 /\ IsInjective(is[i].tags)
  <2>1. is[i] \in [list : Lists, name : Names, done : StartDone, qty : {1}, tags : ItemTags, seq : {2}]
    BY <1>5
  <2>2. is[i].tags \in ItemTags
    BY <2>1
  <2>3. is[i].tags \in Seq(Tags) /\ IsInjective(is[i].tags)
    BY <2>2, TagsOfAnItem
  <2>4. StartDone \subseteq BOOLEAN
    BY DEF StartDone
  <2> QED BY <2>1, <2>3, <2>4 DEF ItemRow
<1>6. room \in Room
  <2>1. ls \in [Lists -> ListRow \cup {None}]
    BY <1>4
  <2>2. is \in [Items -> ItemRow \cup {None}]
    BY <1>5
  <2> QED BY <1>1, <2>1, <2>2 DEF Room
<1>7. RowsOK(room)
  <2>1. \A l \in RealLists(room) : room.lists[l].seq <= room.seq
    BY <1>2, <1>4 DEF RealLists
  <2>2. \A i \in Items : room.items[i] # None => room.items[i].seq <= room.seq
    BY <1>2, <1>5
  <2> QED BY <1>6, <2>1, <2>2 DEF RowsOK
<1>8. TablesOK
  BY DEF Init
<1>9. \A i \in Items : room.items[i] # None => room.items[i].list \in RealLists(room)
  <2>1. \A i \in Items : room.items[i] # None => room.items[i].list \in Lists
    BY <1>2, <1>5 DEF ItemRow
  <2>2. \A i \in Items : room.items[i] # None => room.lists[room.items[i].list] # None
    BY <1>8 DEF TablesOK
  <2> QED BY <2>1, <2>2 DEF RealLists
<1>10. ItemsFit(room)
  <2>1. ASSUME NEW i \in Items, NEW j \in Items, room.items[i] # None, room.items[j] # None,
               room.items[i].list = room.items[j].list, room.items[i].name = room.items[j].name
        PROVE  i = j
    <3> PICK l, name : l = room.items[i].list /\ name = room.items[i].name
      OBVIOUS
    <3> DEFINE same == Named(room, l, name)
    <3>1. i \in same /\ j \in same
      BY <2>1 DEF Named, ItemsIn
    <3>2. l \in RealLists(room)
      BY <1>9, <2>1
    <3>3. name \in Names
      BY <1>2, <1>5, <2>1 DEF ItemRow
    <3>4. Cardinality(same) <= 1
      BY <1>8, <3>2, <3>3 DEF TablesOK
    <3>5. same \in SUBSET Items
      BY DEF Named, ItemsIn
    <3> HIDE DEF same
    <3>6. IsFiniteSet(same)
      BY <3>5, Finite
    <3> QED BY <3>1, <3>4, <3>6, OneAtMost
  <2>2. \A l \in RealLists(room) : Cardinality(ItemsIn(room, l)) <= MaxItems
    BY <1>8 DEF TablesOK
  <2>3. \A i \in Items : room.items[i] # None =>
           i \notin room.gone /\ IsInjective(room.items[i].tags)
    BY <1>2, <1>5
  <2> QED BY <1>9, <2>1, <2>2, <2>3 DEF ItemsFit
<1>11. ListsFit(room)
  <2>1. /\ \A l, m \in RealLists(room) : room.lists[l].name = room.lists[m].name => l = m
        /\ Cardinality(RealLists(room)) <= MaxLists
    BY <1>8 DEF TablesOK
  <2>2. \A l \in RealLists(room) :
           /\ l \notin room.gone
           /\ room.lists[l].colored \subseteq room.lists[l].tags
           /\ Cardinality(room.lists[l].tags) <= MaxTags
    BY <1>2, <1>3, <1>4 DEF RealLists
  <2> QED BY <2>1, <2>2 DEF ListsFit
<1>12. DOMAIN drafts = {}
  BY DEF Init
<1> QED BY <1>7, <1>10, <1>11, <1>12 DEF TablesInv, RoomOK

\* Drafts stay what they are while the room moves on.
LEMMA DraftStays ==
    ASSUME NEW r, RoomOK(r), NEW q, TellsChange(r, q), RoomOK(q), NEW d, DraftOK(r, d)
    PROVE  DraftOK(q, d)
<1> PICK op, seen : op = d.op /\ seen = d.seen
  OBVIOUS
<1> SUFFICES ASSUME op.base # None
             PROVE  /\ op.base <= q.seq
                    /\ RowIn(q, op) # None /\ RowIn(q, op).seq <= op.base => RowIn(q, op) = seen
  BY DEF DraftOK
<1>1. OpOK(op) /\ op.base \in Nat /\ op.base <= r.seq
  BY DEF DraftOK, OpOK
<1>2. r.seq \in Nat /\ q.seq \in Nat /\ q.seq >= r.seq
  <2>1. r \in Room /\ q \in Room
    BY DEF RoomOK, RowsOK
  <2> QED BY <2>1, RoomIs DEF TellsChange
<1>3. CASE RowIn(q, op) = RowIn(r, op) \/ RowIn(q, op) = None
  BY <1>1, <1>2, <1>3 DEF DraftOK
<1>4. CASE RowIn(q, op) \notin {RowIn(r, op), None}
  <2>1. RowIn(q, op).seq > r.seq
    BY <1>4, RowIsNew
  <2>2. RowIn(q, op).seq \in Nat
    <3>1. /\ \A l \in Lists : q.lists[l] # None => q.lists[l].seq \in Nat
          /\ \A i \in Items : q.items[i] # None => q.items[i].seq \in Nat
      BY DEF RoomOK, RowsOK, Room, ListRow, ItemRow
    <3> QED BY <1>4, <3>1 DEF RowIn
  <2> QED BY <1>1, <1>2, <2>1, <2>2
<1> QED BY <1>3, <1>4

\* An op that runs changes the room as its handler does.
LEMMA RunOpChanges ==
    ASSUME TablesInv, NEW id \in OpIds, RunOp(id)
    PROVE  /\ id \in DOMAIN drafts /\ drafts' = drafts
           /\ DraftOK(room, drafts[id])
           /\ OpChange(room, drafts[id].op, room')
<1>1. id \in DOMAIN drafts /\ drafts' = drafts
  BY DEF RunOp, MaySend
<1>2. DraftOK(room, drafts[id]) /\ OpOK(drafts[id].op) /\ RoomOK(room)
  BY <1>1 DEF TablesInv, DraftOK
<1>3. room' = room \/ room' = Outcome(room, drafts[id].op).room
  BY DEF RunOp
<1>4. CASE room' = room
  BY <1>1, <1>2, <1>4 DEF OpChange
<1>5. CASE room' = Outcome(room, drafts[id].op).room
  <2> PICK op, q : op = drafts[id].op /\ q = room'
    OBVIOUS
  <2>1. RoomOK(room) /\ OpOK(op) /\ q = Outcome(room, op).room
    BY <1>2, <1>5
  <2>2. OpChange(room, op, q)
    BY <2>1, OutcomeIs
  <2> QED BY <1>1, <1>2, <2>2
<1> QED BY <1>1, <1>2, <1>3, <1>4, <1>5

\* Every step keeps the invariant of the tables.
LEMMA TablesInvNext ==
    ASSUME TablesInv, [Next]_vars
    PROVE  TablesInv'
<1>1. ASSUME NEW id \in OpIds, Compose(id)
      PROVE  TablesInv'
  <2>1. PICK op \in OpsNow :
           drafts' = Stored(drafts, id, [op |-> op, seen |-> RowOf(op), age |-> "fresh"])
    BY <1>1 DEF Compose
  <2>2. room' = room
    BY <1>1 DEF Compose
  <2>3. OpOK(op) /\ op.type \in OpTypes /\ (op.base # None => op.base <= room.seq)
    BY OpsNowAreOK DEF TablesInv
  <2> DEFINE d == [op |-> op, seen |-> RowOf(op), age |-> "fresh"]
  <2>4. DraftOK(room, d)
    BY <2>3 DEF DraftOK, RowOf, RowIn
  <2>5. drafts' = Stored(drafts, id, d)
    BY <2>1
  <2> HIDE DEF d
  <2>6. /\ DOMAIN drafts' = DOMAIN drafts \cup {id}
        /\ drafts'[id] = d
        /\ \A e \in DOMAIN drafts \ {id} : drafts'[e] = drafts[e]
    BY <2>5 DEF Stored
  <2> QED BY <2>2, <2>4, <2>6 DEF TablesInv
<1>2. ASSUME NEW id \in OpIds, RunOp(id)
      PROVE  TablesInv'
  <2>1. drafts' = drafts /\ OpChange(room, drafts[id].op, room') /\ RoomOK(room)
    BY <1>2, RunOpChanges DEF TablesInv
  <2> PICK op, q : op = drafts[id].op /\ q = room'
    OBVIOUS
  <2>2. RoomOK(q) /\ TellsChange(room, q)
    BY <2>1, ChangeFits, ChangeTells
  <2>3. \A e \in DOMAIN drafts : DraftOK(q, drafts[e])
    BY <2>1, <2>2, DraftStays DEF TablesInv
  <2> QED BY <2>1, <2>2, <2>3 DEF TablesInv
<1>3. ASSUME NEW id \in OpIds, Hold(id) \/ Approve(id)
      PROVE  TablesInv'
  <2>1. PICK age : drafts' = [drafts EXCEPT ![id] = [drafts[id] EXCEPT !.age = age]]
    BY <1>3 DEF Hold, Approve
  <2>2. room' = room /\ id \in DOMAIN drafts
    BY <1>3 DEF Hold, Approve
  <2>3. ASSUME NEW d, DraftOK(room, d)
        PROVE  DraftOK(room, [d EXCEPT !.age = age])
    <3> PICK op, seen : op = d.op /\ seen = d.seen
      OBVIOUS
    <3>1. [d EXCEPT !.age = age] = [op |-> op, seen |-> seen, age |-> age]
      BY <2>3 DEF DraftOK
    <3> QED BY <2>3, <3>1 DEF DraftOK
  <2> DEFINE d == [drafts[id] EXCEPT !.age = age]
  <2>4. DraftOK(room, d)
    BY <2>2, <2>3 DEF TablesInv
  <2>5. drafts' = [drafts EXCEPT ![id] = d]
    BY <2>1
  <2> HIDE DEF d
  <2>6. /\ DOMAIN drafts' = DOMAIN drafts
        /\ drafts'[id] = d
        /\ \A e \in DOMAIN drafts \ {id} : drafts'[e] = drafts[e]
    BY <2>2, <2>5
  <2> QED BY <2>2, <2>4, <2>6 DEF TablesInv
<1>4. CASE UNCHANGED <<room, drafts>>
  BY <1>4 DEF TablesInv
<1>5. ASSUME NEW id \in OpIds, ReplayOp(id) \/ Forget(id)
      PROVE  TablesInv'
  BY <1>4, <1>5 DEF ReplayOp, Forget
<1>6. CASE UNCHANGED vars
  BY <1>4, <1>6 DEF vars
<1> QED BY <1>1, <1>2, <1>3, <1>5, <1>6 DEF Next

-----------------------------------------------------------------------------
(* The theorems about the tables.                                          *)

\* The inductive invariant of the room's tables and of the ops on their way.
THEOREM TablesInvariant == Spec => []TablesInv
<1>1. Init => TablesInv
  BY TablesFitFirst
<1>2. TablesInv /\ [Next]_vars => TablesInv'
  BY TablesInvNext
<1> QED BY <1>1, <1>2, PTL DEF Spec

\* The tables and the stored answers keep the shape that src/database_crud.py
\* and run_once_locked give them.
THEOREM TypeCorrect == Spec => []TypeOK
<1>1. TablesInv /\ RetryInv => TypeOK
  <2> SUFFICES ASSUME TablesInv, RetryInv PROVE TypeOK
    OBVIOUS
  <2>1. room \in Room
    BY DEF TablesInv, RoomOK, RowsOK
  <2>2. DOMAIN processed \subseteq DOMAIN heard /\ runs \in [OpIds -> Nat]
    BY DEF RetryInv
  <2>3. \A id \in DOMAIN drafts : drafts[id].op.type \in OpTypes
    BY DEF TablesInv, DraftOK
  <2>4. \A id \in DOMAIN drafts : drafts[id].age \in {"fresh", "held", "approved"}
    BY DEF RetryInv, IsDraft, Ages
  <2> QED BY <2>1, <2>2, <2>3, <2>4 DEF TypeOK
<1> QED BY <1>1, TablesInvariant, RetryInvariant, PTL

\* The row by row form of the tables' invariants.
LEMMA RowsFit ==
    ASSUME RoomOK(room)
    PROVE  TablesOK /\ TagsOK
<1>1. ASSUME NEW l \in RealLists(room), NEW n \in Names
      PROVE  Cardinality(Named(room, l, n)) <= 1
  <2> DEFINE same == Named(room, l, n)
  <2>1. same \in SUBSET Items /\ \A i, j \in same : i = j
    BY DEF Named, ItemsIn, RoomOK, ItemsFit
  <2> HIDE DEF same
  <2>2. IsFiniteSet(same)
    BY <2>1, Finite
  <2>3. Cardinality(same) <= 1
    BY <2>1, <2>2, OneAtMost
  <2> QED BY <2>3 DEF same
<1>2. TablesOK
  <2>1. \A l \in RealLists(room) :
           /\ Cardinality(ItemsIn(room, l)) <= MaxItems
           /\ \A m \in RealLists(room) : room.lists[l].name = room.lists[m].name => l = m
    BY DEF RoomOK, ItemsFit, ListsFit
  <2>2. Cardinality(RealLists(room)) <= MaxLists
    BY DEF RoomOK, ListsFit
  <2>3. \A i \in Items : room.items[i] # None =>
           room.lists[room.items[i].list] # None /\ i \notin room.gone
    BY DEF RoomOK, ItemsFit, RealLists
  <2>4. \A l \in Lists : room.lists[l] # None => l \notin room.gone
    BY DEF RoomOK, ListsFit, RealLists
  <2> QED BY <1>1, <2>1, <2>2, <2>3, <2>4 DEF TablesOK
<1>3. TagsOK
  BY DEF TagsOK, RoomOK, ItemsFit, ListsFit
<1> QED BY <1>2, <1>3

\* Whatever ops devices send and in whatever order they run: the names in a list
\* and of a room's lists stay unique, the limits hold, an item's list exists and
\* a deleted uid never comes back (src/database_crud.py, ops.py).
THEOREM TablesFit == Spec => []TablesOK
<1>1. TablesInv => TablesOK
  BY RowsFit DEF TablesInv
<1> QED BY <1>1, TablesInvariant, PTL

\* A list's colors are of its tags, its tags within the limit, and no item has a
\* tag twice, whatever is added, renamed and removed (change_list_tag_locked,
\* rename_list_tag_locked, toggle_item_active_tag_locked).
THEOREM TagsFit == Spec => []TagsOK
<1>1. TablesInv => TagsOK
  BY RowsFit DEF TablesInv
<1> QED BY <1>1, TablesInvariant, PTL

\* A step changes nothing of the room, or runs one op on it.
LEMMA StepIsChange ==
    ASSUME TablesInv, [Next]_vars
    PROVE  \/ room' = room
           \/ \E id \in OpIds : /\ RunOp(id) /\ OpOK(drafts[id].op)
                                /\ OpChange(room, drafts[id].op, room')
<1>1. ASSUME NEW id \in OpIds, RunOp(id)
      PROVE  OpOK(drafts[id].op) /\ OpChange(room, drafts[id].op, room')
  BY <1>1, RunOpChanges DEF DraftOK
<1>2. ASSUME NEW id \in OpIds,
             Compose(id) \/ ReplayOp(id) \/ Hold(id) \/ Approve(id) \/ Forget(id)
      PROVE  room' = room
  BY <1>2 DEF Compose, ReplayOp, Hold, Approve, Forget
<1>3. UNCHANGED vars => room' = room
  BY DEF vars
<1> QED BY <1>1, <1>2, <1>3 DEF Next

\* A set op with a base never overwrites what its author has not seen: what it
\* changes is still the row it was made from (_check_base_seq).
THEOREM UnseenIsKept == Spec => NeverOverwritesUnseen
<1>1. TablesInv /\ [Next]_vars =>
        [\A id \in OpIds :
            RunOp(id) /\ drafts[id].op.base # None
               /\ RowOf(drafts[id].op)' # RowOf(drafts[id].op)
            => RowOf(drafts[id].op) = drafts[id].seen]_vars
  <2> SUFFICES ASSUME TablesInv, NEW id \in OpIds, RunOp(id), drafts[id].op.base # None,
                      RowOf(drafts[id].op)' # RowOf(drafts[id].op)
               PROVE  RowOf(drafts[id].op) = drafts[id].seen
    OBVIOUS
  <2>1. /\ id \in DOMAIN drafts /\ drafts' = drafts
        /\ DraftOK(room, drafts[id])
        /\ OpChange(room, drafts[id].op, room')
    BY RunOpChanges
  <2> PICK op, q, d : op = drafts[id].op /\ q = room' /\ d = drafts[id]
    OBVIOUS
  <2>2. RowOf(drafts[id].op) = RowIn(room, op) /\ RowOf(drafts[id].op)' = RowIn(q, op)
    BY <2>1 DEF RowOf, RowIn
  <2>3. /\ OpOK(op) /\ op.base # None /\ RoomOK(room) /\ OpChange(room, op, q)
        /\ RowIn(q, op) # RowIn(room, op)
    BY <2>1, <2>2 DEF DraftOK, TablesInv
  <2>4. RowIn(room, op) # None /\ RowIn(room, op).seq <= op.base
    BY <2>3, ChangeIsOfBase
  <2>5. RowIn(room, op) = d.seen
    BY <2>1, <2>3, <2>4 DEF DraftOK
  <2> QED BY <2>2, <2>5
<1> QED BY <1>1, TablesInvariant, PTL DEF Spec, NeverOverwritesUnseen

\* The room's seq moves exactly when what its pages show changes, and each item
\* that changed has a seq of its own (the row triggers and the no-write paths of
\* src/database_crud.py).
THEOREM SeqTells == Spec => SeqTellsEveryChange
<1>1. TablesInv /\ [Next]_vars =>
        [/\ room'.seq >= room.seq
         /\ room'.seq > room.seq <=> Shown(room)' # Shown(room)
         /\ \A i \in Items : room'.items[i] \notin {room.items[i], None} =>
               /\ room'.items[i].seq > room.seq
               /\ \A j \in Items \ {i} : room'.items[j] # None =>
                     room'.items[j].seq # room'.items[i].seq]_vars
  <2> SUFFICES ASSUME TablesInv, [Next]_vars
               PROVE  /\ room'.seq >= room.seq
                      /\ room'.seq > room.seq <=> Shown(room)' # Shown(room)
                      /\ \A i \in Items : room'.items[i] \notin {room.items[i], None} =>
                            /\ room'.items[i].seq > room.seq
                            /\ \A j \in Items \ {i} : room'.items[j] # None =>
                                  room'.items[j].seq # room'.items[i].seq
    OBVIOUS
  <2> PICK q : q = room'
    OBVIOUS
  <2>1. RoomOK(room)
    BY DEF TablesInv
  <2>2. TellsChange(room, q)
    BY <2>1, StepIsChange, ChangeTells, SameTells
  <2>3. Shown(room)' = Shown(q)
    BY DEF Shown, RealLists
  <2>4. /\ q.seq >= room.seq
        /\ q.seq > room.seq <=> Shown(q) # Shown(room)
        /\ \A i \in Items : q.items[i] \notin {room.items[i], None} =>
              /\ q.items[i].seq > room.seq
              /\ \A j \in Items \ {i} : q.items[j] # None => q.items[j].seq # q.items[i].seq
    BY <2>2 DEF TellsChange
  <2> QED BY <2>3, <2>4
<1> QED BY <1>1, TablesInvariant, PTL DEF Spec, SeqTellsEveryChange

\* An op through a share link changes the items, tags and settings of its own
\* list and nothing else of the room (SHARE_OP_TYPES, OpScope.list_id).
THEOREM ShareLinksStay == Spec => ShareStaysInList
<1>1. TablesInv /\ [Next]_vars =>
        [\A id \in OpIds :
            RunOp(id) /\ drafts[id].op.scope # None =>
               LET own == drafts[id].op.scope
               IN /\ room'.name = room.name
                  /\ \A l \in Lists : room'.lists[l] # room.lists[l] =>
                        /\ l = own
                        /\ room'.lists[l] # None
                        /\ room'.lists[l].name = room.lists[l].name
                  /\ \A i \in Items : room'.items[i] # room.items[i] =>
                        own \in {ListOf(room.items[i]), ListOf(room'.items[i])}]_vars
  <2> SUFFICES ASSUME TablesInv, NEW id \in OpIds, RunOp(id), drafts[id].op.scope # None
               PROVE  LET own == drafts[id].op.scope
                      IN /\ room'.name = room.name
                         /\ \A l \in Lists : room'.lists[l] # room.lists[l] =>
                               /\ l = own
                               /\ room'.lists[l] # None
                               /\ room'.lists[l].name = room.lists[l].name
                         /\ \A i \in Items : room'.items[i] # room.items[i] =>
                               own \in {ListOf(room.items[i]), ListOf(room'.items[i])}
    OBVIOUS
  <2> PICK op, q : op = drafts[id].op /\ q = room'
    OBVIOUS
  <2>1. RoomOK(room) /\ OpOK(op) /\ OpChange(room, op, q)
    BY RunOpChanges DEF TablesInv, DraftOK
  <2>2. ShareStays(room, op, q)
    BY <2>1, ChangeStays
  <2> QED BY <2>2 DEF ShareStays
<1> QED BY <1>1, TablesInvariant, PTL DEF Spec, ShareStaysInList

\* A list switched to one tag per item has no item with more, and only the undo
\* of a delete brings one back (_keep_first_item_tag_locked,
\* toggle_item_active_tag_locked).
THEOREM OneTagIsKept == Spec => SingleModeKept
<1>1. TablesInv /\ [Next]_vars =>
        [\A l \in RealLists(room) \cap RealLists(room') :
            /\ "single" \in room'.lists[l].settings
            /\ "single" \notin room.lists[l].settings \/ l \in OneTagEach(room)
            /\ \A id \in OpIds : RunOp(id) => drafts[id].op.type # "item.restore"
            => l \in OneTagEach(room')]_vars
  <2> SUFFICES ASSUME TablesInv, [Next]_vars,
                      NEW l \in RealLists(room) \cap RealLists(room'),
                      "single" \in room'.lists[l].settings,
                      "single" \notin room.lists[l].settings \/ l \in OneTagEach(room),
                      \A id \in OpIds : RunOp(id) => drafts[id].op.type # "item.restore"
               PROVE  l \in OneTagEach(room')
    OBVIOUS
  <2> PICK q : q = room'
    OBVIOUS
  <2>1. RoomOK(room)
    BY DEF TablesInv
  <2>2. CASE q = room
    BY <2>2
  <2>3. ASSUME NEW id \in OpIds, RunOp(id), OpOK(drafts[id].op),
               OpChange(room, drafts[id].op, q)
        PROVE  l \in OneTagEach(room')
    <3>1. drafts[id].op.type # "item.restore"
      BY <2>3
    <3>2. SingleKept(room, q)
      BY <2>1, <2>3, <3>1, ChangeKeepsOneTag
    <3> QED BY <3>2 DEF SingleKept
  <2> QED BY <2>2, <2>3, StepIsChange
<1> QED BY <1>1, TablesInvariant, PTL DEF Spec, SingleModeKept
=============================================================================
