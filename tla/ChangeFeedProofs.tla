-------------------------- MODULE ChangeFeedProofs --------------------------
(***************************************************************************)
(* Proofs about ChangeFeed, for any finite sets of uids, any values and    *)
(* any bound.  Every server write is one case of WriteStep, which says of  *)
(* a write all that a copy needs to know; the client steps then follow     *)
(* from two facts about copies: a write leaves them able to catch up       *)
(* (CopySurvivesWrite), and merging an answer catches them up              *)
(* (MergeCatchesUp).                                                       *)
(*                                                                         *)
(* The share seq of a list is proved exact from ShareInv: all that names a *)
(* list lies in the room's past, a write gives a later seq to a list whose *)
(* view it changes (NamedOrNot), and pruning leaves a floor where the      *)
(* greatest of the pruned records was (PruneFollows).                      *)
(***************************************************************************)
EXTENDS ChangeFeed, FiniteSetTheorems, WellFoundedInduction, TLAPS

\* What one write means for any copy: changed rows and new deletion records
\* carry a later seq, and a record that goes is covered by prunedSeq.
WriteStep ==
    /\ changeSeq <= changeSeq'
    /\ prunedSeq <= prunedSeq'
    /\ \A l \in Lists :
          \/ lists'[l] = lists[l]
          \/ lists'[l] # NoRow /\ lists'[l].seq > changeSeq
          \/ lists'[l] = NoRow /\ \E d \in deletions' :
                d.kind = "list" /\ d.uid = l /\ d.seq > changeSeq
    /\ \A i \in Items :
          \/ items'[i] = items[i]
          \/ items'[i] # NoRow /\ items'[i].seq > changeSeq
          \/ items'[i] = NoRow /\ \E d \in deletions' :
                d.kind = "item" /\ d.uid = i /\ d.seq > changeSeq
    /\ \A d \in deletions : d \in deletions' \/ d.seq <= prunedSeq'

ServerTypeOK ==
    /\ changeSeq \in Nat
    /\ lists \in ListRows
    /\ items \in ItemRows
    /\ deletions \in SUBSET Deletion
    /\ prunedSeq \in Nat
    /\ floors \in [Lists -> Nat]

\* A list row and an item row are never taken for "no such row".
LEMMA RowNotNoRow ==
    /\ NoRow \notin ListRow
    /\ NoRow \notin ItemRow
  BY RowsAreRows DEF ListRow, ItemRow

\* Whatever order one statement visits its rows in, the seqs it hands out lie after the
\* seq it started at and not past the number of rows.
LEMMA OrderRange ==
    ASSUME NEW S \in SUBSET Items, NEW rank \in Orders(S), NEW i \in S
    PROVE  /\ Cardinality(S) \in Nat
           /\ rank[i] \in Nat
           /\ 1 <= rank[i]
           /\ rank[i] <= Cardinality(S)
  <1>1. IsFiniteSet(S)
    BY FiniteUids, FS_Subset
  <1>2. Cardinality(S) \in Nat
    BY <1>1, FS_CardinalityType
  <1>3. rank \in [S -> 1..Cardinality(S)]
    BY DEF Orders
  <1>. QED  BY <1>2, <1>3

-----------------------------------------------------------------------------
(* One lemma per write.                                                    *)

WriteOK == WriteStep /\ ServerTypeOK' /\ TablesOK'

\* Renaming the room keeps the tables in order and erases no news.
LEMMA RenameRoomOK ==
    ASSUME ServerTypeOK, TablesOK, RenameRoom
    PROVE  WriteOK
  BY DEF ServerTypeOK, TablesOK, RenameRoom, WriteStep, WriteOK, ListRows, ItemRows,
         ListRow, ItemRow, Deletion

\* A new list gets the next seq; its uid named neither a row nor a deletion record.
LEMMA CreateListOK ==
    ASSUME ServerTypeOK, TablesOK, NEW l \in Lists, NEW v \in Values, CreateList(l, v)
    PROVE  WriteOK
  BY RowNotNoRow DEF ServerTypeOK, TablesOK, CreateList, ListUidInUse, WriteStep, WriteOK,
         ListRows, ItemRows, ListRow, ItemRow, Deletion

\* A new item gets the next seq and lies in a list that exists.
LEMMA CreateItemOK ==
    ASSUME ServerTypeOK, TablesOK, NEW i \in Items, NEW l \in Lists, NEW v \in Values,
           CreateItem(i, l, v)
    PROVE  WriteOK
  BY RowNotNoRow DEF ServerTypeOK, TablesOK, CreateItem, ItemUidInUse, WriteStep, WriteOK,
         ListRows, ItemRows, ListRow, ItemRow, Deletion

\* A list row that is written gets the next seq.
LEMMA UpdateListOK ==
    ASSUME ServerTypeOK, TablesOK, NEW l \in Lists, NEW v \in Values, UpdateList(l, v)
    PROVE  WriteOK
  BY RowNotNoRow DEF ServerTypeOK, TablesOK, UpdateList, WriteStep, WriteOK,
         ListRows, ItemRows, ListRow, ItemRow, Deletion

\* An item row that is written gets the next seq and stays in its list.
LEMMA UpdateItemOK ==
    ASSUME ServerTypeOK, TablesOK, NEW i \in Items, NEW v \in Values, UpdateItem(i, v)
    PROVE  WriteOK
  BY RowNotNoRow DEF ServerTypeOK, TablesOK, UpdateItem, WriteStep, WriteOK,
         ListRows, ItemRows, ListRow, ItemRow, Deletion

\* A tag change writes the list row and then items, each with a seq of its own.
LEMMA RetagListOK ==
    ASSUME ServerTypeOK, TablesOK, NEW l \in Lists, NEW S \in SUBSET Items, NEW v \in Values,
           RetagList(l, S, v)
    PROVE  WriteOK
  <1>1. PICK rank \in Orders(S) :
           items' = [i \in Items |->
                       IF i \in S THEN [list |-> l, val |-> v, seq |-> changeSeq + 1 + rank[i]]
                       ELSE items[i]]
    BY DEF RetagList
  <1>2. Cardinality(S) \in Nat /\ changeSeq \in Nat
    BY FiniteUids, FS_Subset, FS_CardinalityType DEF ServerTypeOK
  <1>3. /\ changeSeq' = changeSeq + 1 + Cardinality(S)
        /\ lists' = [lists EXCEPT ![l] = [val |-> v, seq |-> changeSeq + 1]]
        /\ lists[l] # NoRow
        /\ UNCHANGED <<deletions, prunedSeq, floors>>
    BY DEF RetagList
  <1>4. \A i \in S : /\ items'[i] \in ItemRow
                     /\ items'[i].list = l
                     /\ items'[i].seq > changeSeq
                     /\ items'[i].seq <= changeSeq'
                     /\ items[i] # NoRow
    <2>1. SUFFICES ASSUME NEW i \in S
                   PROVE  /\ items'[i] \in ItemRow
                          /\ items'[i].list = l
                          /\ items'[i].seq > changeSeq
                          /\ items'[i].seq <= changeSeq'
                          /\ items[i] # NoRow
      OBVIOUS
    <2>2. rank[i] \in Nat /\ 1 <= rank[i] /\ rank[i] <= Cardinality(S)
      BY OrderRange
    <2>3. items'[i] = [list |-> l, val |-> v, seq |-> changeSeq + 1 + rank[i]]
      BY <1>1
    <2>4. items[i] # NoRow
      BY DEF RetagList, ItemsOf
    <2>. QED  BY <1>2, <1>3, <2>2, <2>3, <2>4 DEF ItemRow
  <1>5. \A i \in Items \ S : items'[i] = items[i]
    BY <1>1
  <1>6. /\ lists'[l] \in ListRow
        /\ lists'[l].seq = changeSeq + 1
        /\ \A m \in Lists \ {l} : lists'[m] = lists[m]
        /\ DOMAIN lists' = Lists
        /\ lists' \in ListRows
    BY <1>2, <1>3 DEF ServerTypeOK, ListRows, ListRow
  <1>7. items' \in ItemRows
    BY <1>1, <1>4, <1>5 DEF ServerTypeOK, ItemRows
  <1>8. WriteStep
    BY <1>2, <1>3, <1>4, <1>5, <1>6, RowNotNoRow DEF WriteStep, ServerTypeOK
  <1>9. ServerTypeOK'
    BY <1>2, <1>3, <1>6, <1>7 DEF ServerTypeOK
  <1>10. \A i \in Items : items'[i] # NoRow =>
            /\ items'[i].seq <= changeSeq'
            /\ lists'[items'[i].list] # NoRow
            /\ \A d \in deletions' : ~(d.kind = "item" /\ d.uid = i)
    <2>1. ASSUME NEW i \in S
          PROVE  /\ items'[i].seq <= changeSeq'
                 /\ lists'[items'[i].list] # NoRow
                 /\ \A d \in deletions' : ~(d.kind = "item" /\ d.uid = i)
      BY <2>1, <1>3, <1>4, <1>6, RowNotNoRow DEF TablesOK
    <2>2. ASSUME NEW i \in Items \ S, items[i] # NoRow
          PROVE  /\ items'[i].seq <= changeSeq'
                 /\ lists'[items'[i].list] # NoRow
                 /\ \A d \in deletions' : ~(d.kind = "item" /\ d.uid = i)
      <3>1. items'[i] = items[i] /\ items[i] \in ItemRow
        BY <2>2, <1>5 DEF ServerTypeOK, ItemRows
      <3>2. items[i].list \in Lists /\ items[i].seq \in Nat
        BY <3>1 DEF ItemRow
      <3>3. lists'[items[i].list] # NoRow
        BY <2>2, <3>2, <1>6, RowNotNoRow DEF TablesOK
      <3>. QED  BY <2>2, <3>1, <3>2, <3>3, <1>2, <1>3 DEF TablesOK
    <2>. QED  BY <2>1, <2>2, <1>5
  <1>11. TablesOK'
    <2>1. \A m \in Lists : lists'[m] # NoRow =>
            /\ lists'[m].seq <= changeSeq'
            /\ \A d \in deletions' : ~(d.kind = "list" /\ d.uid = m)
      BY <1>2, <1>3, <1>6 DEF TablesOK, ServerTypeOK, ListRows, ListRow
    <2>2. prunedSeq' <= changeSeq' /\ \A d \in deletions' : d.seq <= changeSeq'
      BY <1>2, <1>3 DEF TablesOK, ServerTypeOK, Deletion
    <2>. QED  BY <1>10, <2>1, <2>2 DEF TablesOK
  <1>. QED  BY <1>8, <1>9, <1>11 DEF WriteOK

\* A deleted item leaves a record at the next seq.
LEMMA DeleteItemOK ==
    ASSUME ServerTypeOK, TablesOK, NEW i \in Items, DeleteItem(i)
    PROVE  WriteOK
  <1>. DEFINE e == [kind |-> "item", uid |-> i, list |-> items[i].list, seq |-> changeSeq + 1]
  <1>1. /\ changeSeq' = changeSeq + 1
        /\ items' = [items EXCEPT ![i] = NoRow]
        /\ deletions' = deletions \cup {e}
        /\ items[i] # NoRow
        /\ UNCHANGED <<lists, prunedSeq, floors>>
    BY DEF DeleteItem
  <1>2. changeSeq \in Nat /\ items[i] \in ItemRow
    BY <1>1 DEF ServerTypeOK, ItemRows
  <1>3. /\ e \in Deletion /\ e \in deletions'
        /\ e.kind = "item" /\ e.uid = i /\ e.seq = changeSeq + 1
    BY <1>1, <1>2 DEF Deletion, ItemRow
  <1>. HIDE DEF e
  <1>4. /\ items'[i] = NoRow
        /\ \A j \in Items \ {i} : items'[j] = items[j]
        /\ items' \in ItemRows
    BY <1>1 DEF ServerTypeOK, ItemRows
  <1>5. WriteStep
    BY <1>1, <1>2, <1>3, <1>4 DEF WriteStep, ServerTypeOK
  <1>6. ServerTypeOK'
    BY <1>1, <1>2, <1>3, <1>4 DEF ServerTypeOK
  <1>7. TablesOK'
    <2>1. prunedSeq' <= changeSeq' /\ \A d \in deletions' : d.seq <= changeSeq'
      BY <1>1, <1>2, <1>3 DEF TablesOK, ServerTypeOK, Deletion
    <2>2. \A m \in Lists : lists'[m] # NoRow =>
            /\ lists'[m].seq <= changeSeq'
            /\ \A d \in deletions' : ~(d.kind = "list" /\ d.uid = m)
      BY <1>1, <1>2, <1>3 DEF TablesOK, ServerTypeOK, ListRows, ListRow
    <2>3. \A j \in Items : items'[j] # NoRow =>
            /\ items'[j].seq <= changeSeq'
            /\ lists'[items'[j].list] # NoRow
            /\ \A d \in deletions' : ~(d.kind = "item" /\ d.uid = j)
      BY <1>1, <1>2, <1>3, <1>4 DEF TablesOK, ServerTypeOK, ItemRows, ItemRow
    <2>. QED  BY <2>1, <2>2, <2>3 DEF TablesOK
  <1>. QED  BY <1>5, <1>6, <1>7 DEF WriteOK

\* A deleted list takes its items with it and leaves a record for every one of them.
LEMMA DeleteListOK ==
    ASSUME ServerTypeOK, TablesOK, NEW l \in Lists, DeleteList(l)
    PROVE  WriteOK
  <1>. DEFINE doomed == ItemsOf(l)
              n == Cardinality(doomed)
  <1>1. doomed \in SUBSET Items
    BY DEF ItemsOf
  <1>2. n \in Nat /\ changeSeq \in Nat
    BY <1>1, FiniteUids, FS_Subset, FS_CardinalityType DEF ServerTypeOK
  <1>3. PICK rank \in Orders(doomed) :
           deletions' = deletions
              \cup {[kind |-> "item", uid |-> i, list |-> l, seq |-> changeSeq + rank[i]]
                       : i \in doomed}
              \cup {[kind |-> "list", uid |-> l, list |-> l, seq |-> changeSeq + n + 1]}
    BY DEF DeleteList
  <1>4. /\ changeSeq' = changeSeq + n + 1
        /\ items' = [i \in Items |-> IF i \in doomed THEN NoRow ELSE items[i]]
        /\ lists' = [lists EXCEPT ![l] = NoRow]
        /\ lists[l] # NoRow
        /\ UNCHANGED <<prunedSeq, floors>>
    BY DEF DeleteList
  <1>. HIDE DEF n, doomed
  <1>5. \A i \in doomed : /\ rank[i] \in Nat
                          /\ 1 <= rank[i]
                          /\ rank[i] <= n
    BY <1>1, OrderRange DEF n
  <1>6. \A i \in doomed :
           \E d \in deletions' : d.kind = "item" /\ d.uid = i /\ d.seq > changeSeq
    <2>1. ASSUME NEW i \in doomed
          PROVE  \E d \in deletions' : d.kind = "item" /\ d.uid = i /\ d.seq > changeSeq
      <3>. DEFINE e == [kind |-> "item", uid |-> i, list |-> l, seq |-> changeSeq + rank[i]]
      <3>1. e \in deletions'
        BY <1>3
      <3>2. e.kind = "item" /\ e.uid = i /\ e.seq > changeSeq
        BY <1>2, <1>5
      <3>. QED  BY <3>1, <3>2
    <2>. QED  BY <2>1
  <1>7. \E d \in deletions' : d.kind = "list" /\ d.uid = l /\ d.seq > changeSeq
    <2>. DEFINE e == [kind |-> "list", uid |-> l, list |-> l, seq |-> changeSeq + n + 1]
    <2>1. e \in deletions'
      BY <1>3
    <2>2. e.kind = "list" /\ e.uid = l /\ e.seq > changeSeq
      BY <1>2
    <2>. QED  BY <2>1, <2>2
  <1>8. WriteStep
    BY <1>1, <1>2, <1>3, <1>4, <1>6, <1>7 DEF WriteStep, ServerTypeOK, ListRows
  <1>9. \A d \in deletions' :
           \/ d \in deletions
           \/ /\ d \in Deletion
              /\ d.seq <= changeSeq'
              /\ d.kind = "list" => d.uid = l
              /\ d.kind = "item" => d.uid \in doomed
    <2>1. ASSUME NEW i \in doomed
          PROVE  LET d == [kind |-> "item", uid |-> i, list |-> l, seq |-> changeSeq + rank[i]]
                 IN d \in Deletion /\ d.seq <= changeSeq'
      BY <1>1, <1>2, <1>4, <1>5 DEF Deletion
    <2>2. LET d == [kind |-> "list", uid |-> l, list |-> l, seq |-> changeSeq + n + 1]
          IN d \in Deletion /\ d.seq <= changeSeq'
      BY <1>2, <1>4 DEF Deletion
    <2>. QED  BY <1>3, <2>1, <2>2
  <1>10. ServerTypeOK'
    BY <1>1, <1>2, <1>4, <1>9 DEF ServerTypeOK, ListRows, ItemRows
  <1>11. TablesOK'
    <2>1. prunedSeq' <= changeSeq' /\ \A d \in deletions' : d.seq <= changeSeq'
      BY <1>2, <1>4, <1>9 DEF TablesOK, ServerTypeOK, Deletion
    <2>2. \A m \in Lists : lists'[m] # NoRow =>
            /\ lists'[m].seq <= changeSeq'
            /\ \A d \in deletions' : ~(d.kind = "list" /\ d.uid = m)
      BY <1>2, <1>4, <1>9 DEF TablesOK, ServerTypeOK, ListRows, ListRow
    <2>3. ASSUME NEW i \in Items, items'[i] # NoRow
          PROVE  /\ items'[i].seq <= changeSeq'
                 /\ lists'[items'[i].list] # NoRow
                 /\ \A d \in deletions' : ~(d.kind = "item" /\ d.uid = i)
      <3>1. i \notin doomed /\ items'[i] = items[i] /\ items[i] # NoRow
        BY <2>3, <1>4
      <3>2. items[i] \in ItemRow
        BY <3>1 DEF ServerTypeOK, ItemRows
      <3>3. items[i].list \in Lists /\ items[i].list # l /\ items[i].seq \in Nat
        BY <3>1, <3>2 DEF ItemRow, doomed, ItemsOf
      <3>. QED  BY <3>1, <3>3, <1>2, <1>4, <1>9 DEF TablesOK, ServerTypeOK, ListRows
    <2>. QED  BY <2>1, <2>2, <2>3 DEF TablesOK
  <1>. QED  BY <1>8, <1>10, <1>11 DEF WriteOK

\* Larger picks the greater of two seqs.
LEMMA LargerIsMax ==
    ASSUME NEW a \in Nat, NEW b \in Nat
    PROVE  /\ Larger(a, b) \in Nat
           /\ a <= Larger(a, b)
           /\ b <= Larger(a, b)
           /\ Larger(a, b) = a \/ Larger(a, b) = b
  BY DEF Larger

\* A finite set of seqs that is not empty has a greatest one, so a CHOOSE of it is in the set.
LEMMA NatSetHasMax ==
    ASSUME NEW T \in SUBSET Nat, T # {}, NEW m \in Nat, \A t \in T : t <= m
    PROVE  \E s \in T : \A t \in T : t <= s
  <1>. DEFINE gaps == {m - t : t \in T}
              R == OpToRel(<, Nat)
  <1>1. gaps \subseteq Nat /\ gaps # {}
    <2>1. \A t \in T : t \in Nat /\ m - t \in Nat
      OBVIOUS
    <2>2. \A g \in gaps : g \in Nat
      BY <2>1
    <2>3. gaps # {}
      <3>1. PICK t \in T : TRUE
        OBVIOUS
      <3>2. m - t \in gaps
        OBVIOUS
      <3>. QED  BY <3>2
    <2>. QED  BY <2>2, <2>3
  <1>2. IsWellFoundedOn(R, Nat)
    BY NatLessThanWellFounded
  <1>3. \A x, y \in Nat : x < y => <<x, y>> \in R
    BY DEF OpToRel
  <1>. HIDE DEF R
  <1>4. \E x \in gaps : \A y \in gaps : ~(<<y, x>> \in R)
    BY <1>1, <1>2, WFMin
  <1>5. PICK s \in T : \A y \in gaps : ~(<<y, m - s>> \in R)
    BY <1>4
  <1>6. \A t \in T : ~(m - t < m - s)
    <2>1. \A t \in T : m - t \in gaps
      OBVIOUS
    <2>3. \A t \in T : m - t \in Nat
      <3>1. \A t \in T : t \in Nat
        OBVIOUS
      <3>. HIDE DEF gaps
      <3>. QED  BY <3>1
    <2>2. m - s \in Nat
      OBVIOUS
    <2>. QED  BY <1>3, <1>5, <2>1, <2>2, <2>3
  <1>. QED  BY <1>6

\* Pruning forgets records only up to prunedSeq, which stays in the past of the room.
LEMMA PruneDeletionsOK ==
    ASSUME ServerTypeOK, TablesOK, PruneDeletions
    PROVE  WriteOK
  <1>1. PICK cut \in {d.seq : d \in deletions} :
           /\ deletions' = {d \in deletions : d.seq > cut}
           /\ floors' = [l \in Lists |-> IF lists[l] = NoRow THEN 0
                                         ELSE Larger(floors[l], PrunedOf(l, cut))]
           /\ prunedSeq' = Larger(prunedSeq, cut)
           /\ UNCHANGED <<changeSeq, lists, items>>
    BY DEF PruneDeletions
  <1>2. cut \in Nat /\ cut <= changeSeq
    BY DEF ServerTypeOK, TablesOK, Deletion
  <1>3. /\ prunedSeq' \in Nat
        /\ prunedSeq <= prunedSeq' /\ cut <= prunedSeq' /\ prunedSeq' <= changeSeq
    BY <1>1, <1>2, LargerIsMax DEF ServerTypeOK, TablesOK
  <1>4. \A l \in Lists : PrunedOf(l, cut) \in Nat
    <2>1. TAKE l \in Lists
    <2>. DEFINE seqs == {d.seq : d \in {e \in deletions : e.list = l /\ e.seq <= cut}}
    <2>2. seqs \in SUBSET Nat /\ \A s \in seqs : s <= cut
      BY DEF ServerTypeOK, Deletion
    <2>3. CASE seqs = {}
      BY <2>3 DEF PrunedOf
    <2>4. CASE seqs # {}
      <3>. HIDE DEF seqs
      <3>1. \E s \in seqs : \A t \in seqs : t <= s
        BY <1>2, <2>2, <2>4, NatSetHasMax
      <3>2. (CHOOSE s \in seqs : \A t \in seqs : t <= s) \in seqs
        BY <3>1
      <3>3. PrunedOf(l, cut) = (CHOOSE s \in seqs : \A t \in seqs : t <= s)
        BY <2>4 DEF PrunedOf, seqs
      <3>. QED  BY <2>2, <3>2, <3>3
    <2>. QED  BY <2>3, <2>4
  <1>5. floors' \in [Lists -> Nat]
    BY <1>1, <1>4, LargerIsMax DEF ServerTypeOK
  <1>6. WriteStep
    BY <1>1, <1>2, <1>3 DEF WriteStep, ServerTypeOK, Deletion
  <1>7. ServerTypeOK'
    BY <1>1, <1>3, <1>5 DEF ServerTypeOK
  <1>8. TablesOK'
    BY <1>1, <1>3 DEF TablesOK
  <1>. QED  BY <1>6, <1>7, <1>8 DEF WriteOK

\* The lemmas above together: every write keeps the tables and their types in order,
\* and only erases a record that prunedSeq covers.
LEMMA WriteStepOK ==
    ASSUME ServerTypeOK, TablesOK, Write
    PROVE  WriteOK /\ UNCHANGED clientVars
  <1>1. WriteOK
    BY RenameRoomOK, CreateListOK, CreateItemOK, UpdateListOK, UpdateItemOK, RetagListOK,
       DeleteItemOK, DeleteListOK, PruneDeletionsOK DEF Write
  <1>2. UNCHANGED clientVars
    BY DEF Write, RenameRoom, CreateList, CreateItem, UpdateList, UpdateItem, RetagList,
           DeleteItem, DeleteList, PruneDeletions
  <1>. QED  BY <1>1, <1>2

-----------------------------------------------------------------------------
(* Copies.                                                                 *)

\* A write leaves every copy able to catch up.
LEMMA CopySurvivesWrite ==
    ASSUME ServerTypeOK, ServerTypeOK', WriteStep, NEW copy \in Copy, CanCatchUp(copy)
    PROVE  CanCatchUp(copy)'
  <1>. USE DEF Copy, Deletion
  <1>1. /\ copy.seq \in Nat /\ changeSeq \in Nat /\ changeSeq' \in Nat
        /\ prunedSeq \in Nat /\ prunedSeq' \in Nat
        /\ copy.seq <= changeSeq /\ changeSeq <= changeSeq' /\ prunedSeq <= prunedSeq'
    BY DEF ServerTypeOK, WriteStep, CanCatchUp
  <1>2. ASSUME NEW d \in deletions, d.seq > copy.seq
        PROVE  copy.seq < prunedSeq' \/ d \in deletions'
    BY <1>1, <1>2 DEF WriteStep, ServerTypeOK
  <1>3. ASSUME NEW d \in deletions', d.seq > changeSeq
        PROVE  d.seq > copy.seq
    BY <1>1, <1>3 DEF ServerTypeOK
  <1>4. ASSUME NEW l \in Lists
        PROVE  \/ copy.lists[l] = lists'[l]
               \/ lists'[l] # NoRow /\ lists'[l].seq > copy.seq
               \/ lists'[l] = NoRow /\ (\/ copy.seq < prunedSeq'
                                        \/ \E d \in deletions' : /\ d.kind = "list"
                                                                 /\ d.uid = l
                                                                 /\ d.seq > copy.seq)
    <2>1. CASE lists'[l] = lists[l]
      BY <1>1, <1>2, <2>1 DEF CanCatchUp
    <2>2. CASE lists'[l] # NoRow /\ lists'[l].seq > changeSeq
      BY <1>1, <2>2 DEF ServerTypeOK, ListRows, ListRow
    <2>3. CASE lists'[l] = NoRow /\ \E d \in deletions' :
                  d.kind = "list" /\ d.uid = l /\ d.seq > changeSeq
      BY <1>3, <2>3
    <2>. QED  BY <2>1, <2>2, <2>3 DEF WriteStep
  <1>5. ASSUME NEW i \in Items
        PROVE  \/ copy.items[i] = items'[i]
               \/ items'[i] # NoRow /\ items'[i].seq > copy.seq
               \/ items'[i] = NoRow /\ (\/ copy.seq < prunedSeq'
                                        \/ \E d \in deletions' : /\ d.kind = "item"
                                                                 /\ d.uid = i
                                                                 /\ d.seq > copy.seq)
    <2>1. CASE items'[i] = items[i]
      BY <1>1, <1>2, <2>1 DEF CanCatchUp
    <2>2. CASE items'[i] # NoRow /\ items'[i].seq > changeSeq
      BY <1>1, <2>2 DEF ServerTypeOK, ItemRows, ItemRow
    <2>3. CASE items'[i] = NoRow /\ \E d \in deletions' :
                  d.kind = "item" /\ d.uid = i /\ d.seq > changeSeq
      BY <1>3, <2>3
    <2>. QED  BY <2>1, <2>2, <2>3 DEF WriteStep
  <1>. QED  BY <1>1, <1>4, <1>5 DEF CanCatchUp

\* The answer to any since is a feed.
LEMMA AnswerType ==
    ASSUME ServerTypeOK, NEW s \in Nat
    PROVE  ChangesSince(s) \in Feed
  BY DEF ServerTypeOK, ChangesSince, Feed, ListRows, ItemRows, ServedInFull

\* Merging a feed into a copy gives a copy.
LEMMA MergeType ==
    ASSUME NEW copy \in Copy, NEW f \in Feed
    PROVE  MergeFeed(copy, f) \in Copy
  BY DEF MergeFeed, Copy, Feed, ListRows, ItemRows

\* Merging the answer to a request made at the copy's own seq.
LEMMA MergeCatchesUp ==
    ASSUME ServerTypeOK, TablesOK, NEW copy \in Copy,
           CanCatchUp(copy) \/ copy.seq = 0
    PROVE  CanCatchUp(MergeFeed(copy, ChangesSince(copy.seq)))
  <1>. DEFINE f == ChangesSince(copy.seq)
              m == MergeFeed(copy, f)
  <1>1. m.seq = changeSeq
    BY DEF MergeFeed, ChangesSince
  <1>2. ASSUME NEW l \in Lists
        PROVE  m.lists[l] = lists[l]
    <2>1. CASE ServedInFull(copy.seq)
      BY <2>1 DEF MergeFeed, ChangesSince
    <2>2. CASE ~ServedInFull(copy.seq)
      <3>1. /\ copy.seq # 0 /\ ~(copy.seq < prunedSeq)
            /\ CanCatchUp(copy)
        BY <2>2 DEF ServedInFull
      <3>2. /\ ~f.full
            /\ f.lists[l] = IF lists[l] # NoRow /\ lists[l].seq > copy.seq
                            THEN lists[l] ELSE NoRow
            /\ l \in f.goneLists <=> \E d \in deletions :
                                        d.kind = "list" /\ d.uid = l /\ d.seq > copy.seq
        BY <2>2 DEF ChangesSince
      <3>3. m.lists[l] = IF l \in f.goneLists THEN NoRow
                         ELSE IF f.lists[l] # NoRow THEN f.lists[l] ELSE copy.lists[l]
        BY <3>2 DEF MergeFeed
      <3>. HIDE DEF m, f
      <3>4. CASE lists[l] = NoRow
        BY <3>1, <3>2, <3>3, <3>4 DEF CanCatchUp
      <3>5. CASE lists[l] # NoRow
        <4>1. l \notin f.goneLists
          BY <3>2, <3>5 DEF TablesOK
        <4>. QED  BY <3>1, <3>2, <3>3, <3>5, <4>1 DEF CanCatchUp
      <3>. QED  BY <3>4, <3>5
    <2>. QED  BY <2>1, <2>2
  <1>3. ASSUME NEW i \in Items
        PROVE  m.items[i] = items[i]
    <2>1. CASE ServedInFull(copy.seq)
      BY <2>1 DEF MergeFeed, ChangesSince
    <2>2. CASE ~ServedInFull(copy.seq)
      <3>. DEFINE in == IF f.items[i] # NoRow THEN f.items[i] ELSE copy.items[i]
      <3>1. /\ copy.seq # 0 /\ ~(copy.seq < prunedSeq)
            /\ CanCatchUp(copy)
        BY <2>2 DEF ServedInFull
      <3>2. /\ ~f.full
            /\ f.items[i] = IF items[i] # NoRow /\ items[i].seq > copy.seq
                            THEN items[i] ELSE NoRow
            /\ i \in f.goneItems <=> \E d \in deletions :
                                        d.kind = "item" /\ d.uid = i /\ d.seq > copy.seq
            /\ \A l \in f.goneLists : \E d \in deletions : d.kind = "list" /\ d.uid = l
        BY <2>2 DEF ChangesSince
      <3>3. m.items[i] = IF i \in f.goneItems \/ (in # NoRow /\ in.list \in f.goneLists)
                         THEN NoRow ELSE in
        BY <3>2 DEF MergeFeed
      <3>. HIDE DEF m, f
      <3>4. CASE items[i] = NoRow
        BY <3>1, <3>2, <3>3, <3>4 DEF CanCatchUp
      <3>5. CASE items[i] # NoRow
        <4>1. i \notin f.goneItems
          BY <3>2, <3>5 DEF TablesOK
        <4>2. in = items[i]
          BY <3>1, <3>2, <3>5 DEF CanCatchUp
        <4>3. items[i].list \in Lists /\ lists[items[i].list] # NoRow
          BY <3>5 DEF TablesOK, ServerTypeOK, ItemRows, ItemRow
        <4>4. items[i].list \notin f.goneLists
          BY <3>2, <4>3 DEF TablesOK
        <4>. QED  BY <3>3, <4>1, <4>2, <4>4
      <3>. QED  BY <3>4, <3>5
    <2>. QED  BY <2>1, <2>2
  <1>. HIDE DEF m, f
  <1>4. changeSeq \in Nat
    BY DEF ServerTypeOK
  <1>5. CanCatchUp(m)
    BY <1>1, <1>2, <1>3, <1>4 DEF CanCatchUp
  <1>. QED  BY <1>5 DEF m, f

-----------------------------------------------------------------------------
(* The invariant.                                                          *)

\* The type invariant covers the tables.
LEMMA TypeIsServerType == TypeOK => ServerTypeOK
  BY DEF TypeOK, ServerTypeOK

\* The page before its first answer is a copy, and "no answer" is a feed.
LEMMA EmptyCopyType == EmptyCopy \in Copy /\ NoFeed \in Feed
  BY DEF EmptyCopy, NoFeed, Copy, Feed, ListRows, ItemRows

\* The inductive invariant holds at the start.
LEMMA InitInv == Init => TypeOK /\ FeedInv
  <1>. SUFFICES ASSUME Init  PROVE TypeOK /\ FeedInv
    OBVIOUS
  <1>1. TypeOK
    <2>1. lists \in ListRows
      BY StartsAreValues DEF Init, ListRows, ListRow
    <2>2. items \in ItemRows
      BY StartsAreValues DEF Init, ItemRows, ItemRow
    <2>3. store \in Copy /\ saved \in Copy /\ feed \in Feed
      BY EmptyCopyType DEF Init
    <2>4. floors \in [Lists -> Nat] /\ deletions \in SUBSET Deletion
      BY DEF Init
    <2>. QED  BY <2>1, <2>2, <2>3, <2>4 DEF Init, TypeOK
  <1>2. TablesOK
    BY RowNotNoRow, StartsAreValues DEF Init, TablesOK, ListRow, ItemRow
  <1>3. CopiesCanCatchUp /\ (~store.ready => store = EmptyCopy)
    BY DEF Init, CopiesCanCatchUp, EmptyCopy
  <1>. QED  BY <1>1, <1>2, <1>3 DEF Init, FeedInv

\* Every write of the server keeps the inductive invariant.
LEMMA WriteKeepsInv ==
    ASSUME TypeOK, FeedInv, Write
    PROVE  TypeOK' /\ FeedInv'
  <1>1. WriteStep /\ ServerTypeOK /\ ServerTypeOK' /\ TablesOK' /\ UNCHANGED clientVars
    BY TypeIsServerType, WriteStepOK DEF FeedInv, WriteOK
  <1>2. TypeOK'
    BY <1>1 DEF TypeOK, ServerTypeOK, clientVars
  <1>3. ASSUME NEW copy \in Copy, CanCatchUp(copy)
        PROVE  CanCatchUp(copy)'
    BY <1>1, <1>3, CopySurvivesWrite
  <1>4. store \in Copy /\ saved \in Copy /\ MergeFeed(store, feed) \in Copy
    BY MergeType DEF TypeOK
  <1>5. CopiesCanCatchUp'
    BY <1>1, <1>3, <1>4 DEF CopiesCanCatchUp, FeedInv, clientVars, CanCatchUp
  <1>6. phase' = "answered" /\ ~Ignored' => CanCatchUp(MergeFeed(store, feed))'
    <2>. DEFINE m == MergeFeed(store, feed)
    <2>1. SUFFICES ASSUME phase' = "answered", ~Ignored'
                   PROVE  CanCatchUp(m)'
      OBVIOUS
    <2>2. CanCatchUp(m)
      BY <1>1, <2>1 DEF FeedInv, clientVars, Ignored
    <2>3. m' = m
      BY <1>1 DEF clientVars, MergeFeed
    <2>. HIDE DEF m
    <2>4. PICK copy \in Copy : copy = m
      BY <1>4 DEF m
    <2>5. CanCatchUp(copy)'
      BY <1>3, <2>2, <2>4
    <2>. QED  BY <2>3, <2>4, <2>5 DEF CanCatchUp
  <1>. QED  BY <1>1, <1>2, <1>5, <1>6 DEF FeedInv, clientVars

\* The client steps leave the server's tables alone.
LEMMA ClientStepsKeepInv ==
    ASSUME TypeOK, FeedInv,
           \/ Refresh \/ Answer \/ LoseAnswer \/ IgnoreFeed \/ ApplyFeed \/ SaveCopy
           \/ Interrupt
    PROVE  TypeOK' /\ FeedInv'
  <1>1. UNCHANGED serverVars
    BY DEF Refresh, Answer, LoseAnswer, IgnoreFeed, ApplyFeed, SaveCopy, Interrupt,
           Clear, Hydrate, Reload
  <1>2. TablesOK'
    BY <1>1 DEF FeedInv, TablesOK, serverVars
  <1>3. /\ store \in Copy /\ saved \in Copy /\ feed \in Feed
        /\ EmptyCopy \in Copy /\ NoFeed \in Feed
    BY EmptyCopyType DEF TypeOK
  <1>4. ASSUME UNCHANGED store, saved' = saved \/ saved' = store
        PROVE  CopiesCanCatchUp' /\ (~store'.ready => store' = EmptyCopy)
    BY <1>1, <1>4 DEF FeedInv, CopiesCanCatchUp, CanCatchUp, serverVars
  <1>5. CASE Refresh
    <2>1. TypeOK'
      BY <1>1, <1>5 DEF Refresh, TypeOK, serverVars, Copy
    <2>. QED  BY <1>2, <1>4, <1>5, <2>1 DEF Refresh, FeedInv
  <1>6. CASE Answer
    <2>1. feed' \in Feed
      BY <1>6, AnswerType, TypeIsServerType DEF Answer, TypeOK
    <2>2. TypeOK'
      BY <1>1, <1>6, <2>1 DEF Answer, TypeOK, serverVars
    <2>3. CopiesCanCatchUp' /\ (~store'.ready => store' = EmptyCopy)
      BY <1>1, <1>6 DEF Answer, FeedInv, CopiesCanCatchUp, CanCatchUp, serverVars
    <2>4. ASSUME ~Ignored'
          PROVE  CanCatchUp(MergeFeed(store, feed))'
      <3>1. ~stale /\ since = store.seq /\ feed' = ChangesSince(store.seq)
        BY <1>6, <2>4 DEF Answer, Ignored, FeedInv
      <3>2. CanCatchUp(store) \/ store.seq = 0
        BY DEF FeedInv, CopiesCanCatchUp, EmptyCopy
      <3>. DEFINE m == MergeFeed(store, ChangesSince(store.seq))
      <3>3. CanCatchUp(m)
        BY <1>3, <3>2, MergeCatchesUp, TypeIsServerType DEF FeedInv
      <3>4. MergeFeed(store, feed)' = m
        BY <1>6, <3>1 DEF Answer, MergeFeed
      <3>. HIDE DEF m
      <3>5. CanCatchUp(MergeFeed(store, feed))' <=> CanCatchUp(m)
        BY <1>1, <3>4 DEF CanCatchUp, serverVars
      <3>. QED  BY <3>3, <3>5
    <2>. QED  BY <1>2, <1>6, <2>2, <2>3, <2>4 DEF FeedInv, Answer
  <1>7. CASE LoseAnswer
    <2>1. TypeOK'
      BY <1>1, <1>3, <1>7 DEF LoseAnswer, TypeOK, serverVars
    <2>. QED  BY <1>2, <1>4, <1>7, <2>1 DEF LoseAnswer, FeedInv
  <1>8. CASE IgnoreFeed
    <2>1. TypeOK'
      BY <1>1, <1>3, <1>8 DEF IgnoreFeed, TypeOK, serverVars
    <2>. QED  BY <1>2, <1>4, <1>8, <2>1 DEF IgnoreFeed, FeedInv
  <1>9. CASE ApplyFeed
    <2>. DEFINE m == MergeFeed(store, feed)
    <2>1. CanCatchUp(m) /\ m \in Copy /\ m.ready
      BY <1>3, <1>9, MergeType DEF ApplyFeed, FeedInv, MergeFeed
    <2>2. store' = m /\ phase' = "saving" /\ feed' = NoFeed /\ UNCHANGED <<saved, since, stale>>
      BY <1>9 DEF ApplyFeed
    <2>. HIDE DEF m
    <2>3. TypeOK'
      BY <1>1, <1>3, <2>1, <2>2 DEF TypeOK, serverVars
    <2>4. CopiesCanCatchUp'
      BY <1>1, <2>1, <2>2 DEF FeedInv, CopiesCanCatchUp, CanCatchUp, serverVars
    <2>. QED  BY <1>2, <2>1, <2>2, <2>3, <2>4 DEF FeedInv
  <1>10. CASE SaveCopy
    <2>1. TypeOK'
      BY <1>1, <1>3, <1>10 DEF SaveCopy, TypeOK, serverVars
    <2>. QED  BY <1>2, <1>4, <1>10, <2>1 DEF SaveCopy, FeedInv
  <1>11. CASE Interrupt
    <2>1. /\ store' = EmptyCopy \/ (store' = saved /\ saved.ready)
          /\ saved' = saved \/ saved' = EmptyCopy
          /\ phase' # "idle" => stale'
          /\ phase' \in {phase, "idle"} /\ since' \in {since, 0} /\ feed' \in {feed, NoFeed}
          /\ stale' \in BOOLEAN
      BY <1>11 DEF Interrupt, Clear, Hydrate, Reload, TypeOK
    <2>2. TypeOK'
      BY <1>1, <1>3, <2>1 DEF TypeOK, serverVars
    <2>3. ~EmptyCopy.ready
      BY DEF EmptyCopy
    <2>4. CopiesCanCatchUp' /\ (~store'.ready => store' = EmptyCopy)
      BY <1>1, <2>1, <2>3 DEF FeedInv, CopiesCanCatchUp, CanCatchUp, serverVars
    <2>. QED  BY <1>2, <2>1, <2>2, <2>4 DEF FeedInv, Ignored
  <1>. QED  BY <1>5, <1>6, <1>7, <1>8, <1>9, <1>10, <1>11

\* Every step of the server and of the page keeps the inductive invariant.
LEMMA NextKeepsInv == TypeOK /\ FeedInv /\ [Next]_vars => TypeOK' /\ FeedInv'
  <1>1. ASSUME TypeOK, FeedInv, Next
        PROVE  TypeOK' /\ FeedInv'
    BY <1>1, WriteKeepsInv, ClientStepsKeepInv DEF Next
  <1>2. ASSUME TypeOK, FeedInv, UNCHANGED vars
        PROVE  TypeOK' /\ FeedInv'
    <2>1. TypeOK'
      BY <1>2 DEF vars, TypeOK
    <2>2. TablesOK' /\ CopiesCanCatchUp'
      BY <1>2 DEF vars, FeedInv, TablesOK, CopiesCanCatchUp, CanCatchUp
    <2>. QED  BY <1>2, <2>1, <2>2 DEF vars, FeedInv, CanCatchUp, Ignored, MergeFeed
  <1>. QED  BY <1>1, <1>2

\* The tables, the copies and the messages keep their shape.
THEOREM TypeCorrect == Spec => []TypeOK
  BY InitInv, NextKeepsInv, PTL DEF Spec

\* Every copy, and the page with the answer that is on its way, can catch up.
THEOREM FeedInvariant == Spec => []FeedInv
  BY InitInv, NextKeepsInv, PTL DEF Spec

\* The inductive invariant leaves nothing to catch up with for a copy at the room's seq.
LEMMA InvGivesCurrentCopy == TypeOK /\ FeedInv => CurrentCopyIsRoom
  <1>. SUFFICES ASSUME TypeOK, FeedInv, store.ready, store.seq = changeSeq
                PROVE  Sees(store)
    BY DEF CurrentCopyIsRoom
  <1>1. CanCatchUp(store) /\ changeSeq \in Nat /\ prunedSeq <= changeSeq /\ prunedSeq \in Nat
    BY DEF FeedInv, CopiesCanCatchUp, TablesOK, TypeOK
  <1>2. \A l \in Lists : store.lists[l] = lists[l]
    BY <1>1 DEF CanCatchUp, FeedInv, TablesOK, TypeOK, ListRows, ListRow, Deletion
  <1>3. \A i \in Items : store.items[i] = items[i]
    BY <1>1 DEF CanCatchUp, FeedInv, TablesOK, TypeOK, ItemRows, ItemRow, Deletion
  <1>4. store.lists \in ListRows /\ store.items \in ItemRows
    BY DEF TypeOK, Copy
  <1>5. store.lists = lists
    BY <1>2, <1>4 DEF TypeOK, ListRows
  <1>6. store.items = items
    BY <1>3, <1>4 DEF TypeOK, ItemRows
  <1>. QED  BY <1>5, <1>6 DEF Sees

\* A page that has reached the room's seq shows exactly the room's rows.
THEOREM CurrentCopyCorrect == Spec => []CurrentCopyIsRoom
  BY InitInv, NextKeepsInv, InvGivesCurrentCopy, PTL DEF Spec

-----------------------------------------------------------------------------
(* The share seq of a list.  It is the greatest of the seqs that name the  *)
(* list; all of them lie in the room's past, so there is a greatest, and a *)
(* new one is greater than each.                                           *)

FloorsOK == \A l \in Lists : floors[l] <= changeSeq

ShareInv == ServerTypeOK /\ TablesOK /\ FloorsOK

\* The seqs that name list l, and the greatest of some seqs.
SeqsOf(l) ==
    {lists[l].seq} \cup {items[i].seq : i \in ItemsOf(l)}
      \cup {d.seq : d \in {e \in deletions : e.list = l}} \cup {floors[l]}
Greatest(S) == CHOOSE s \in S : \A t \in S : t <= s

LEMMA ShareSeqIs ==
    \A l \in Lists : ShareSeq(l) = Greatest(SeqsOf(l)) /\ ShareSeq(l)' = Greatest(SeqsOf(l)')
  BY DEF ShareSeq, SeqsOf, Greatest, ItemsOf

LEMMA GreatestIs ==
    ASSUME NEW S \in SUBSET Nat, S # {}, NEW m \in Nat, \A s \in S : s <= m
    PROVE  Greatest(S) \in S /\ \A s \in S : s <= Greatest(S)
  <1>1. \E s \in S : \A t \in S : t <= s
    BY NatSetHasMax
  <1>. QED  BY <1>1 DEF Greatest

\* All that names a list lies in the room's past.
LEMMA SeqsArePast ==
    ASSUME ShareInv, NEW l \in Lists, lists[l] # NoRow
    PROVE  SeqsOf(l) \in SUBSET Nat /\ SeqsOf(l) # {} /\ \A s \in SeqsOf(l) : s <= changeSeq
  <1>1. lists[l].seq \in Nat /\ lists[l].seq <= changeSeq
    BY DEF ShareInv, ServerTypeOK, TablesOK, ListRows, ListRow
  <1>2. \A i \in ItemsOf(l) : items[i].seq \in Nat /\ items[i].seq <= changeSeq
    BY DEF ShareInv, ServerTypeOK, TablesOK, ItemRows, ItemRow, ItemsOf
  <1>3. \A d \in deletions : d.seq \in Nat /\ d.seq <= changeSeq
    BY DEF ShareInv, ServerTypeOK, TablesOK, Deletion
  <1>4. floors[l] \in Nat /\ floors[l] <= changeSeq
    BY DEF ShareInv, ServerTypeOK, FloorsOK
  <1>. QED  BY <1>1, <1>2, <1>3, <1>4 DEF SeqsOf

\* The same after a step, for what the step leaves of the invariant.
LEMMA SeqsArePastThen ==
    ASSUME ShareInv', NEW l \in Lists, lists'[l] # NoRow
    PROVE  SeqsOf(l)' \in SUBSET Nat /\ SeqsOf(l)' # {} /\ \A s \in SeqsOf(l)' : s <= changeSeq'
  <1>1. lists'[l].seq \in Nat /\ lists'[l].seq <= changeSeq'
    BY DEF ShareInv, ServerTypeOK, TablesOK, ListRows, ListRow
  <1>2. \A i \in Items : items'[i] # NoRow => items'[i].seq \in Nat /\ items'[i].seq <= changeSeq'
    BY DEF ShareInv, ServerTypeOK, TablesOK, ItemRows, ItemRow
  <1>3. \A d \in deletions' : d.seq \in Nat /\ d.seq <= changeSeq'
    BY DEF ShareInv, ServerTypeOK, TablesOK, Deletion
  <1>4. floors'[l] \in Nat /\ floors'[l] <= changeSeq'
    BY DEF ShareInv, ServerTypeOK, FloorsOK
  <1>. QED  BY <1>1, <1>2, <1>3, <1>4 DEF SeqsOf, ItemsOf

\* What a write can do to a list that stays: leave all that names it alone, or
\* change what its share link shows and name it by a later seq.
Unnamed(l) ==
    /\ lists'[l] = lists[l] /\ floors'[l] = floors[l]
    /\ ItemsOf(l)' = ItemsOf(l) /\ \A i \in ItemsOf(l) : items'[i] = items[i]
    /\ {d \in deletions' : d.list = l} = {d \in deletions : d.list = l}
Named(l) ==
    /\ ShareView(l)' # ShareView(l)
    /\ \E s \in SeqsOf(l)' : s > changeSeq

FollowsList(l) ==
    IF ShareView(l)' = ShareView(l) THEN ShareSeq(l)' = ShareSeq(l)
    ELSE ShareSeq(l)' > ShareSeq(l)

LEMMA UnnamedFollows ==
    ASSUME NEW l \in Lists, Unnamed(l)
    PROVE  FollowsList(l)
  <1>1. ShareView(l)' = ShareView(l)
    BY DEF Unnamed, ShareView
  <1>2. {items'[i].seq : i \in ItemsOf(l)'} = {items[i].seq : i \in ItemsOf(l)}
    BY DEF Unnamed
  <1>3. SeqsOf(l)' = SeqsOf(l)
    BY <1>2 DEF Unnamed, SeqsOf
  <1>. QED  BY <1>1, <1>3, ShareSeqIs DEF FollowsList

LEMMA NamedFollows ==
    ASSUME ShareInv, ShareInv', NEW l \in Lists, lists[l] # NoRow, lists'[l] # NoRow, Named(l)
    PROVE  FollowsList(l)
  <1>. DEFINE S == SeqsOf(l)
              T == SeqsOf(l)'
  <1>1. S \in SUBSET Nat /\ S # {} /\ \A s \in S : s <= changeSeq
    BY SeqsArePast
  <1>2. T \in SUBSET Nat /\ T # {} /\ \A s \in T : s <= changeSeq'
    BY SeqsArePastThen
  <1>3. changeSeq \in Nat /\ changeSeq' \in Nat
    BY DEF ShareInv, ServerTypeOK
  <1>4. PICK s \in T : s > changeSeq
    BY DEF Named
  <1>5. ShareSeq(l) = Greatest(S) /\ ShareSeq(l)' = Greatest(T)
    BY ShareSeqIs
  <1>. HIDE DEF S, T
  <1>6. Greatest(S) \in S
    BY <1>1, <1>3, GreatestIs
  <1>7. Greatest(T) \in T /\ s <= Greatest(T)
    BY <1>2, <1>3, <1>4, GreatestIs
  <1>8. Greatest(T) > Greatest(S)
    <2>1. Greatest(S) \in Nat /\ Greatest(S) <= changeSeq
      BY <1>1, <1>6
    <2>2. s \in Nat /\ Greatest(T) \in Nat
      BY <1>2, <1>4, <1>7
    <2>. QED  BY <1>3, <1>4, <1>7, <2>1, <2>2
  <1>9. ShareView(l)' # ShareView(l)
    BY DEF Named
  <1>. QED  BY <1>5, <1>8, <1>9 DEF FollowsList

\* A view changes with the row, with which items there are, and with each of them.
LEMMA ViewDiffers ==
    ASSUME NEW l \in Lists,
           \/ lists'[l] # lists[l]
           \/ ItemsOf(l)' # ItemsOf(l)
           \/ \E i \in ItemsOf(l) : items'[i] # items[i]
    PROVE  ShareView(l)' # ShareView(l)
  <1>1. SUFFICES ASSUME ShareView(l)' = ShareView(l) PROVE FALSE
    OBVIOUS
  <1>2. /\ ShareView(l).row = lists[l] /\ ShareView(l)'.row = lists'[l]
        /\ ShareView(l).items = [i \in ItemsOf(l) |-> items[i]]
        /\ ShareView(l)'.items = [i \in ItemsOf(l)' |-> items'[i]]
    BY DEF ShareView
  <1>3. [i \in ItemsOf(l) |-> items[i]] = [i \in ItemsOf(l)' |-> items'[i]]
    BY <1>1, <1>2
  <1>4. ItemsOf(l)' = ItemsOf(l)
    <2>1. DOMAIN [i \in ItemsOf(l) |-> items[i]] = ItemsOf(l)
      OBVIOUS
    <2>2. DOMAIN [i \in ItemsOf(l)' |-> items'[i]] = ItemsOf(l)'
      OBVIOUS
    <2>. QED  BY <1>3, <2>1, <2>2
  <1>5. ASSUME NEW i \in ItemsOf(l) PROVE items'[i] = items[i]
    <2>1. [j \in ItemsOf(l) |-> items[j]][i] = items[i]
      OBVIOUS
    <2>2. [j \in ItemsOf(l)' |-> items'[j]][i] = items'[i]
      BY <1>4
    <2>. QED  BY <1>3, <2>1, <2>2
  <1>. QED  BY <1>1, <1>2, <1>4, <1>5

\* A write names a list or leaves it alone.
NamedOrNot == \A l \in Lists : lists[l] # NoRow /\ lists'[l] # NoRow => Named(l) \/ Unnamed(l)

LEMMA RenameRoomNames ==
    ASSUME ServerTypeOK, RenameRoom
    PROVE  NamedOrNot
  BY DEF RenameRoom, NamedOrNot, Unnamed, ItemsOf

LEMMA CreateListNames ==
    ASSUME ServerTypeOK, NEW l \in Lists, NEW v \in Values, CreateList(l, v)
    PROVE  NamedOrNot
  <1>1. /\ lists[l] = NoRow /\ \A m \in Lists \ {l} : lists'[m] = lists[m]
        /\ UNCHANGED <<items, deletions, floors>>
    BY DEF CreateList, ListUidInUse, ServerTypeOK, ListRows
  <1>. QED  BY <1>1 DEF NamedOrNot, Unnamed, ItemsOf

LEMMA CreateItemNames ==
    ASSUME ServerTypeOK, NEW i \in Items, NEW l \in Lists, NEW v \in Values, CreateItem(i, l, v)
    PROVE  NamedOrNot
  <1>1. /\ items[i] = NoRow /\ items'[i] = [list |-> l, val |-> v, seq |-> changeSeq + 1]
        /\ \A j \in Items \ {i} : items'[j] = items[j]
        /\ UNCHANGED <<lists, deletions, floors>> /\ changeSeq \in Nat
    BY DEF CreateItem, ItemUidInUse, ServerTypeOK, ItemRows
  <1>2. items'[i] # NoRow
    BY <1>1, RowNotNoRow DEF ItemRow, CreateItem, ServerTypeOK
  <1>3. \A m \in Lists \ {l} : Unnamed(m)
    BY <1>1 DEF Unnamed, ItemsOf
  <1>4. i \in ItemsOf(l)' /\ i \notin ItemsOf(l)
    BY <1>1, <1>2 DEF ItemsOf
  <1>5. items'[i].seq \in SeqsOf(l)' /\ items'[i].seq > changeSeq
    BY <1>1, <1>4 DEF SeqsOf
  <1>6. Named(l)
    BY <1>4, <1>5, ViewDiffers DEF Named
  <1>. QED  BY <1>3, <1>6 DEF NamedOrNot

LEMMA UpdateListNames ==
    ASSUME ShareInv, NEW l \in Lists, NEW v \in Values, UpdateList(l, v)
    PROVE  NamedOrNot
  <1>1. /\ lists[l] # NoRow /\ lists'[l] = [val |-> v, seq |-> changeSeq + 1]
        /\ \A m \in Lists \ {l} : lists'[m] = lists[m]
        /\ UNCHANGED <<items, deletions, floors>> /\ changeSeq \in Nat
    BY DEF UpdateList, ShareInv, ServerTypeOK, ListRows
  <1>2. lists[l].seq \in Nat /\ lists[l].seq <= changeSeq
    BY <1>1 DEF ShareInv, ServerTypeOK, TablesOK, ListRows, ListRow
  <1>3. \A m \in Lists \ {l} : Unnamed(m)
    BY <1>1 DEF Unnamed, ItemsOf
  <1>4. lists'[l].seq \in SeqsOf(l)' /\ lists'[l].seq > changeSeq
    BY <1>1 DEF SeqsOf
  <1>5. lists'[l] # lists[l]
    BY <1>1, <1>2
  <1>6. Named(l)
    BY <1>4, <1>5, ViewDiffers DEF Named
  <1>. QED  BY <1>3, <1>6 DEF NamedOrNot

LEMMA UpdateItemNames ==
    ASSUME ServerTypeOK, NEW i \in Items, NEW v \in Values, UpdateItem(i, v)
    PROVE  NamedOrNot
  <1>1. /\ items[i] # NoRow /\ items[i].val # v
        /\ items' = [items EXCEPT ![i].val = v, ![i].seq = changeSeq + 1]
        /\ UNCHANGED <<lists, deletions, floors>> /\ changeSeq \in Nat
    BY DEF UpdateItem, ServerTypeOK
  <1>2. items[i] \in ItemRow /\ items \in [Items -> ItemRow \cup {NoRow}]
    BY <1>1 DEF ServerTypeOK, ItemRows
  <1>3. PICK l \in Lists : l = items[i].list
    BY <1>2 DEF ItemRow
  <1>4. /\ items'[i] \in ItemRow /\ items'[i].list = l /\ items'[i].val = v
        /\ items'[i].seq = changeSeq + 1
        /\ \A j \in Items \ {i} : items'[j] = items[j]
    <2>. DEFINE row == [items[i] EXCEPT !.val = v, !.seq = changeSeq + 1]
    <2>1. items' = [items EXCEPT ![i] = row]
      BY <1>1, <1>2 DEF ItemRow
    <2>2. /\ row \in ItemRow /\ row.list = l /\ row.val = v
          /\ row.seq = changeSeq + 1
      <3>1. PICK old \in ItemRow : old = items[i]
        BY <1>2
      <3>2. PICK next \in Nat : next = changeSeq + 1
        BY <1>1
      <3>3. row = [old EXCEPT !.val = v, !.seq = next]
        BY <3>1, <3>2
      <3>. HIDE DEF row
      <3>4. row \in ItemRow /\ row.list = old.list /\ row.val = v /\ row.seq = next
        BY <3>1, <3>2, <3>3 DEF ItemRow
      <3>. QED  BY <1>3, <3>1, <3>2, <3>4
    <2>. HIDE DEF row
    <2>. QED  BY <1>2, <2>1, <2>2
  <1>5. items'[i] # items[i]
    BY <1>1, <1>4
  <1>6. items'[i] # NoRow
    BY <1>4, RowNotNoRow
  <1>7. i \in ItemsOf(l)' /\ i \in ItemsOf(l)
    BY <1>1, <1>3, <1>4, <1>6 DEF ItemsOf
  <1>8. \A m \in Lists \ {l} : Unnamed(m)
    <2>1. ASSUME NEW m \in Lists \ {l} PROVE Unnamed(m)
      <3>1. i \notin ItemsOf(m) /\ i \notin ItemsOf(m)'
        BY <1>3, <1>4 DEF ItemsOf
      <3>2. ItemsOf(m)' = ItemsOf(m)
        BY <1>4, <3>1 DEF ItemsOf
      <3>3. \A j \in ItemsOf(m) : items'[j] = items[j]
        BY <1>4, <3>1 DEF ItemsOf
      <3>. QED  BY <1>1, <3>2, <3>3 DEF Unnamed
    <2>. QED  BY <2>1
  <1>9. items'[i].seq \in SeqsOf(l)'
    BY <1>7 DEF SeqsOf
  <1>10. items'[i].seq > changeSeq
    BY <1>1, <1>4
  <1>11. ShareView(l)' # ShareView(l)
    BY <1>5, <1>7, ViewDiffers
  <1>12. Named(l)
    BY <1>9, <1>10, <1>11 DEF Named
  <1>. QED  BY <1>8, <1>12 DEF NamedOrNot

LEMMA RetagListNames ==
    ASSUME ShareInv, NEW l \in Lists, NEW S \in SUBSET Items, NEW v \in Values,
           RetagList(l, S, v)
    PROVE  NamedOrNot
  <1>1. PICK rank \in Orders(S) :
           items' = [i \in Items |->
                       IF i \in S THEN [list |-> l, val |-> v, seq |-> changeSeq + 1 + rank[i]]
                       ELSE items[i]]
    BY DEF RetagList
  <1>2. /\ lists[l] # NoRow /\ S \subseteq ItemsOf(l)
        /\ lists'[l] = [val |-> v, seq |-> changeSeq + 1]
        /\ \A m \in Lists \ {l} : lists'[m] = lists[m]
        /\ UNCHANGED <<deletions, floors>> /\ changeSeq \in Nat
    BY DEF RetagList, ShareInv, ServerTypeOK, ListRows
  <1>3. lists[l].seq \in Nat /\ lists[l].seq <= changeSeq
    BY <1>2 DEF ShareInv, ServerTypeOK, TablesOK, ListRows, ListRow
  <1>4. /\ \A i \in Items \ S : items'[i] = items[i]
        /\ \A i \in S : items'[i].list = l /\ items[i].list = l
    BY <1>1, <1>2 DEF ItemsOf
  <1>5. \A m \in Lists \ {l} : Unnamed(m)
    BY <1>2, <1>4 DEF Unnamed, ItemsOf
  <1>6. lists'[l].seq \in SeqsOf(l)' /\ lists'[l].seq > changeSeq
    BY <1>2 DEF SeqsOf
  <1>7. lists'[l] # lists[l]
    BY <1>2, <1>3
  <1>8. Named(l)
    BY <1>6, <1>7, ViewDiffers DEF Named
  <1>. QED  BY <1>5, <1>8 DEF NamedOrNot

LEMMA DeleteItemNames ==
    ASSUME ServerTypeOK, NEW i \in Items, DeleteItem(i)
    PROVE  NamedOrNot
  <1>1. /\ items[i] # NoRow /\ items'[i] = NoRow
        /\ \A j \in Items \ {i} : items'[j] = items[j]
        /\ UNCHANGED <<lists, floors>> /\ changeSeq \in Nat
    BY DEF DeleteItem, ServerTypeOK, ItemRows
  <1>2. PICK l \in Lists : l = items[i].list
    BY <1>1 DEF ServerTypeOK, ItemRows, ItemRow
  <1>3. PICK e : /\ deletions' = deletions \cup {e}
                 /\ e.list = l /\ e.seq = changeSeq + 1
    <2>. DEFINE record == [kind |-> "item", uid |-> i, list |-> items[i].list,
                           seq |-> changeSeq + 1]
    <2>1. deletions' = deletions \cup {record}
      BY DEF DeleteItem
    <2>2. record.list = l /\ record.seq = changeSeq + 1
      BY <1>2
    <2>. QED  BY <2>1, <2>2
  <1>4. i \in ItemsOf(l) /\ i \notin ItemsOf(l)'
    BY <1>1, <1>2 DEF ItemsOf
  <1>5. ASSUME NEW m \in Lists \ {l} PROVE Unnamed(m)
    <2>1. {d \in deletions' : d.list = m} = {d \in deletions : d.list = m}
      BY <1>3
    <2>2. i \notin ItemsOf(m) /\ i \notin ItemsOf(m)'
      BY <1>1, <1>2 DEF ItemsOf
    <2>3. ItemsOf(m)' = ItemsOf(m) /\ \A j \in ItemsOf(m) : items'[j] = items[j]
      BY <1>1, <2>2 DEF ItemsOf
    <2>. QED  BY <1>1, <2>1, <2>3 DEF Unnamed
  <1>6. e.seq \in SeqsOf(l)'
    BY <1>3 DEF SeqsOf
  <1>7. e.seq > changeSeq
    BY <1>1, <1>3
  <1>8. ShareView(l)' # ShareView(l)
    BY <1>4, ViewDiffers
  <1>9. Named(l)
    BY <1>6, <1>7, <1>8 DEF Named
  <1>. QED  BY <1>5, <1>9 DEF NamedOrNot

LEMMA DeleteListNames ==
    ASSUME ServerTypeOK, NEW l \in Lists, DeleteList(l)
    PROVE  NamedOrNot
  <1>1. /\ items' = [i \in Items |-> IF i \in ItemsOf(l) THEN NoRow ELSE items[i]]
        /\ lists'[l] = NoRow /\ \A m \in Lists \ {l} : lists'[m] = lists[m]
        /\ UNCHANGED floors
    BY DEF DeleteList, ServerTypeOK, ListRows
  <1>2. /\ \A d \in deletions : d \in deletions'
        /\ \A d \in deletions' : d \in deletions \/ d.list = l
    BY DEF DeleteList
  <1>3. ASSUME NEW m \in Lists \ {l} PROVE Unnamed(m)
    <2>1. {d \in deletions' : d.list = m} = {d \in deletions : d.list = m}
      BY <1>2
    <2>2. ItemsOf(m)' = ItemsOf(m) /\ \A i \in ItemsOf(m) : items'[i] = items[i]
      BY <1>1 DEF ItemsOf
    <2>. QED  BY <1>1, <2>1, <2>2 DEF Unnamed
  <1>. QED  BY <1>1, <1>3 DEF NamedOrNot

\* Two sets of seqs, each of whose seqs the other reaches, have the same greatest.
LEMMA SameGreatest ==
    ASSUME NEW m \in Nat,
           NEW S \in SUBSET Nat, S # {}, \A s \in S : s <= m,
           NEW T \in SUBSET Nat, T # {}, \A t \in T : t <= m,
           \A t \in T : \E s \in S : t <= s,
           \A s \in S : \E t \in T : s <= t
    PROVE  Greatest(T) = Greatest(S)
  <1>1. Greatest(S) \in S /\ \A s \in S : s <= Greatest(S)
    BY GreatestIs
  <1>2. Greatest(T) \in T /\ \A t \in T : t <= Greatest(T)
    BY GreatestIs
  <1>3. PICK s \in S : Greatest(T) <= s
    BY <1>2
  <1>4. PICK t \in T : Greatest(S) <= t
    BY <1>1
  <1>5. s <= Greatest(S) /\ t <= Greatest(T)
    BY <1>1, <1>2
  <1>6. /\ Greatest(S) \in Nat /\ Greatest(T) \in Nat /\ s \in Nat /\ t \in Nat
    BY <1>1, <1>2
  <1>. HIDE DEF Greatest
  <1>. QED  BY <1>3, <1>4, <1>5, <1>6

\* The floor that pruning leaves: a pruned record's seq, and no less than any.
LEMMA PrunedOfIs ==
    ASSUME ServerTypeOK, NEW l \in Lists, NEW cut \in Nat
    PROVE  LET gone == {d \in deletions : d.list = l /\ d.seq <= cut}
           IN  /\ PrunedOf(l, cut) \in Nat /\ PrunedOf(l, cut) <= cut
               /\ \A d \in gone : d.seq <= PrunedOf(l, cut)
               /\ PrunedOf(l, cut) = 0 \/ \E d \in gone : PrunedOf(l, cut) = d.seq
  <1>. DEFINE gone == {d \in deletions : d.list = l /\ d.seq <= cut}
              seqs == {d.seq : d \in gone}
  <1>1. seqs \in SUBSET Nat /\ \A s \in seqs : s <= cut
    BY DEF ServerTypeOK, Deletion
  <1>2. PrunedOf(l, cut) = IF seqs = {} THEN 0 ELSE Greatest(seqs)
    BY DEF PrunedOf, Greatest
  <1>3. CASE seqs = {}
    <2>1. gone = {}
      BY <1>3
    <2>. QED  BY <1>2, <1>3, <2>1
  <1>4. CASE seqs # {}
    <2>. HIDE DEF gone
    <2>1. Greatest(seqs) \in seqs /\ \A s \in seqs : s <= Greatest(seqs)
      <3>. HIDE DEF seqs
      <3>. QED  BY <1>1, <1>4, GreatestIs
    <2>2. \A d \in gone : d.seq \in seqs
      OBVIOUS
    <2>3. \A s \in seqs : \E d \in gone : s = d.seq
      OBVIOUS
    <2>. HIDE DEF seqs
    <2>4. PrunedOf(l, cut) = Greatest(seqs)
      BY <1>2, <1>4
    <2>. QED  BY <1>1, <2>1, <2>2, <2>3, <2>4 DEF gone
  <1>. QED  BY <1>3, <1>4

\* What is pruned leaves a floor in its place.
LEMMA PruneFollows ==
    ASSUME ShareInv, PruneDeletions
    PROVE  FloorsOK' /\ \A l \in Lists : lists[l] # NoRow => FollowsList(l)
  <1>1. PICK cut \in {d.seq : d \in deletions} :
           /\ deletions' = {d \in deletions : d.seq > cut}
           /\ floors' = [l \in Lists |-> IF lists[l] = NoRow THEN 0
                                         ELSE Larger(floors[l], PrunedOf(l, cut))]
           /\ UNCHANGED <<changeSeq, lists, items>>
    BY DEF PruneDeletions
  <1>2. cut \in Nat /\ cut <= changeSeq /\ changeSeq \in Nat
    BY DEF ShareInv, ServerTypeOK, TablesOK, Deletion
  <1>3. \A l \in Lists : floors[l] \in Nat /\ floors[l] <= changeSeq
    BY DEF ShareInv, ServerTypeOK, FloorsOK
  <1>4. \A d \in deletions : d.seq \in Nat
    BY DEF ShareInv, ServerTypeOK, Deletion
  <1>5. ASSUME NEW l \in Lists
        PROVE  LET gone == {d \in deletions : d.list = l /\ d.seq <= cut}
               IN  /\ PrunedOf(l, cut) \in Nat /\ PrunedOf(l, cut) <= cut
                   /\ \A d \in gone : d.seq <= PrunedOf(l, cut)
                   /\ PrunedOf(l, cut) = 0 \/ \E d \in gone : PrunedOf(l, cut) = d.seq
    BY <1>2, PrunedOfIs DEF ShareInv
  <1>6. FloorsOK'
    <2>1. ASSUME NEW l \in Lists PROVE floors'[l] <= changeSeq'
      <3>1. PrunedOf(l, cut) \in Nat /\ PrunedOf(l, cut) <= changeSeq
        BY <1>2, <1>5
      <3>2. floors'[l] = 0 \/ floors'[l] = Larger(floors[l], PrunedOf(l, cut))
        BY <1>1
      <3>3. Larger(floors[l], PrunedOf(l, cut)) \in {floors[l], PrunedOf(l, cut)}
        BY <1>3, <3>1, LargerIsMax
      <3>4. floors'[l] <= changeSeq
        BY <1>2, <1>3, <3>1, <3>2, <3>3
      <3>. QED  BY <1>1, <3>4
    <2>. QED  BY <2>1 DEF FloorsOK
  <1>7. ASSUME NEW l \in Lists, lists[l] # NoRow
        PROVE  FollowsList(l)
    <2>. DEFINE S == SeqsOf(l)
                T == SeqsOf(l)'
                p == PrunedOf(l, cut)
                base == {lists[l].seq} \cup {items[i].seq : i \in ItemsOf(l)}
    <2>1. ShareView(l)' = ShareView(l)
      BY <1>1 DEF ShareView, ItemsOf
    <2>2. S = base \cup {d.seq : d \in {e \in deletions : e.list = l}} \cup {floors[l]}
      BY DEF SeqsOf
    <2>3. T = base \cup {d.seq : d \in {e \in deletions' : e.list = l}} \cup {floors'[l]}
      <3>1. ItemsOf(l)' = ItemsOf(l)
        BY <1>1 DEF ItemsOf
      <3>. QED  BY <1>1, <3>1 DEF SeqsOf
    <2>4. /\ p \in Nat /\ floors[l] \in Nat
          /\ floors'[l] = Larger(floors[l], p)
          /\ floors[l] <= floors'[l] /\ p <= floors'[l] /\ floors'[l] \in {floors[l], p}
      <3>1. floors'[l] = Larger(floors[l], p) /\ p \in Nat
        BY <1>1, <1>5, <1>7
      <3>. HIDE DEF p
      <3>. QED  BY <1>3, <3>1, LargerIsMax
    <2>5. /\ S \in SUBSET Nat /\ S # {} /\ \A s \in S : s <= changeSeq
      BY <1>7, SeqsArePast
    <2>6. /\ \A d \in deletions : d.list = l => d.seq \in S
          /\ floors[l] \in S /\ base \subseteq S
      BY <2>2
    <2>7. /\ \A d \in deletions : d.list = l /\ d.seq > cut => d.seq \in T
          /\ floors'[l] \in T /\ base \subseteq T
      BY <1>1, <2>3
    <2>8. \A s \in S : s \in base \/ s = floors[l] \/ \E d \in deletions : d.list = l /\ s = d.seq
      BY <2>2
    <2>9. \A t \in T : t \in base \/ t = floors'[l] \/ \E d \in deletions : d.list = l /\ t = d.seq
      BY <1>1, <2>3
    <2>10. /\ \A d \in deletions : d.list = l /\ d.seq <= cut => d.seq <= p
           /\ p = 0 \/ \E d \in deletions : d.list = l /\ p = d.seq
      BY <1>5
    <2>. HIDE DEF S, T, p, base
    <2>11. \A t \in T : \E s \in S : t <= s
      <3>1. ASSUME NEW t \in T PROVE t \in S \/ t <= floors[l]
        <4>1. CASE t = floors'[l]
          BY <2>4, <2>6, <2>10, <4>1
        <4>2. CASE t \in base \/ \E d \in deletions : d.list = l /\ t = d.seq
          BY <2>6, <4>2
        <4>. QED  BY <2>9, <4>1, <4>2
      <3>2. ASSUME NEW t \in T PROVE \E s \in S : t <= s
        <4>1. CASE t \in S
          <5>1. t \in Nat
            BY <2>5, <4>1
          <5>2. t <= t
            BY <5>1
          <5>. QED  BY <4>1, <5>2
        <4>2. CASE t <= floors[l]
          BY <2>6, <4>2
        <4>. QED  BY <3>1, <4>1, <4>2
      <3>. QED  BY <3>2
    <2>12. \A s \in S : \E t \in T : s <= t
      <3>1. ASSUME NEW s \in S PROVE s \in T \/ s <= floors'[l]
        <4>1. CASE s \in base \/ s = floors[l]
          BY <2>4, <2>7, <4>1
        <4>2. CASE \E d \in deletions : d.list = l /\ s = d.seq
          <5>1. PICK d \in deletions : d.list = l /\ s = d.seq
            BY <4>2
          <5>2. CASE d.seq > cut
            BY <2>7, <5>1, <5>2
          <5>3. CASE ~(d.seq > cut)
            <6>1. s \in Nat /\ s <= cut
              BY <1>2, <1>4, <5>1, <5>3
            <6>2. s <= p
              BY <2>10, <5>1, <6>1
            <6>3. floors'[l] \in Nat
              BY <2>4
            <6>. QED  BY <2>4, <6>1, <6>2, <6>3
          <5>. QED  BY <5>2, <5>3
        <4>. QED  BY <2>8, <4>1, <4>2
      <3>2. \A s \in S : s \in Nat
        BY <2>5
      <3>. QED  BY <2>7, <3>1, <3>2
    <2>13. T \in SUBSET Nat /\ T # {} /\ \A t \in T : t <= changeSeq
      <3>1. T # {} /\ \A t \in T : t \in S \/ t = floors'[l]
        BY <2>6, <2>7, <2>9
      <3>2. floors'[l] \in Nat /\ floors'[l] <= changeSeq
        BY <1>1, <1>6, <2>4 DEF FloorsOK
      <3>. QED  BY <2>5, <3>1, <3>2
    <2>14. Greatest(T) = Greatest(S)
      BY <1>2, <2>5, <2>11, <2>12, <2>13, SameGreatest
    <2>15. ShareSeq(l)' = ShareSeq(l)
      BY <2>14, ShareSeqIs DEF S, T
    <2>. QED  BY <2>1, <2>15 DEF FollowsList
  <1>. QED  BY <1>6, <1>7

\* Writes other than pruning leave the floors where they are.
LEMMA WritesFollow ==
    ASSUME ShareInv, Write
    PROVE  /\ ShareInv'
           /\ \A l \in Lists : lists[l] # NoRow /\ lists'[l] # NoRow => FollowsList(l)
  <1>1. ServerTypeOK' /\ TablesOK' /\ changeSeq <= changeSeq'
    BY WriteStepOK DEF ShareInv, WriteOK, WriteStep
  <1>2. CASE PruneDeletions
    BY <1>1, <1>2, PruneFollows DEF ShareInv
  <1>3. CASE ~PruneDeletions
    <2>1. NamedOrNot
      BY <1>3, RenameRoomNames, CreateListNames, CreateItemNames, UpdateListNames,
         UpdateItemNames, RetagListNames, DeleteItemNames, DeleteListNames DEF Write, ShareInv
    <2>2. UNCHANGED floors
      BY <1>3 DEF Write, RenameRoom, CreateList, CreateItem, UpdateList, UpdateItem,
                  RetagList, DeleteItem, DeleteList
    <2>3. FloorsOK'
      BY <1>1, <2>2 DEF ShareInv, ServerTypeOK, FloorsOK
    <2>4. ShareInv'
      BY <1>1, <2>3 DEF ShareInv
    <2>. QED  BY <2>1, <2>4, NamedFollows, UnnamedFollows DEF NamedOrNot
  <1>. QED  BY <1>2, <1>3

LEMMA StepsFollow ==
    ASSUME ShareInv, [Next]_vars
    PROVE  /\ ShareInv'
           /\ \A l \in Lists : lists[l] # NoRow /\ lists'[l] # NoRow => FollowsList(l)
  <1>1. CASE Write
    BY <1>1, WritesFollow
  <1>2. CASE UNCHANGED serverVars
    <2>1. ShareInv'
      BY <1>2 DEF serverVars, ShareInv, ServerTypeOK, TablesOK, FloorsOK
    <2>2. \A l \in Lists : Unnamed(l)
      BY <1>2 DEF serverVars, Unnamed, ItemsOf
    <2>. QED  BY <2>1, <2>2, UnnamedFollows
  <1>3. Write \/ UNCHANGED serverVars
    BY DEF Next, vars, serverVars, Refresh, Answer, LoseAnswer, IgnoreFeed, ApplyFeed, SaveCopy,
           Interrupt, Clear, Hydrate, Reload
  <1>. QED  BY <1>1, <1>2, <1>3

\* The share seq of a list moves exactly when what its share link shows moves, and
\* only up, whatever writes, deletions and prunings come.
THEOREM ShareSeqIsExact == Spec => ShareSeqFollowsList
  <1>1. Init => ShareInv
    <2>1. ASSUME Init PROVE ShareInv
      <3>1. ServerTypeOK /\ TablesOK
        BY <2>1, InitInv, TypeIsServerType DEF FeedInv
      <3>2. FloorsOK
        BY <2>1 DEF Init, FloorsOK
      <3>. QED  BY <3>1, <3>2 DEF ShareInv
    <2>. QED  BY <2>1
  <1>2. ShareInv /\ [Next]_vars => ShareInv'
    BY StepsFollow
  <1>3. ShareInv /\ [Next]_vars =>
           [\A l \in Lists : lists[l] # NoRow /\ lists'[l] # NoRow =>
               IF ShareView(l)' = ShareView(l)
               THEN ShareSeq(l)' = ShareSeq(l)
               ELSE ShareSeq(l)' > ShareSeq(l)]_vars
    BY StepsFollow DEF FollowsList
  <1>. QED  BY <1>1, <1>2, <1>3, PTL DEF Spec, ShareSeqFollowsList
=============================================================================
