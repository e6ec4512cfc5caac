----------------------------- MODULE ChangeFeed -----------------------------
(***************************************************************************)
(* Change tracking and the changes feed of one room (docs/change-tracking  *)
(* .md, docs/api-sync.md), and the copy of the room one page keeps.        *)
(*                                                                         *)
(* Server side: SQLite triggers raise rooms.change_seq on every write to a *)
(* list or an item and stamp the row with it; a delete leaves a deletion   *)
(* record; old records are pruned.  Each action below is one committed     *)
(* transaction, so it is atomic (every write holds _DB_LOCK and SQLite's   *)
(* write lock).                                                            *)
(*                                                                         *)
(* Client side: RoomStore asks for the changes after its seq, one request  *)
(* at a time, and merges the answer; between the request and the merge the *)
(* server moves on, the page may be cleared (signed out) or hydrated from  *)
(* the device's saved copy, reloaded, or lose the answer.                  *)
(***************************************************************************)
EXTENDS Integers, FiniteSets

CONSTANTS Lists,       \* uids a list of this room can have
          Items,       \* uids an item can have
          Values,      \* everything else a row holds
          StartValues, \* what the rows of a room hold at the start
          NoRow,       \* "no such row"
          MaxSeq       \* bound: writes stop when rooms.change_seq reaches it

ASSUME FiniteUids == IsFiniteSet(Lists) /\ IsFiniteSet(Items)
ASSUME BoundIsNat == MaxSeq \in Nat
ASSUME StartsAreValues == StartValues \subseteq Values
ASSUME RowsAreRows == NoRow \notin [val : Values, seq : Nat]
                                      \cup [list : Lists, val : Values, seq : Nat]

VARIABLES
    changeSeq,  \* rooms.change_seq
    lists,      \* the lists table, by uid
    items,      \* the items table, by uid
    deletions,  \* the deletions table
    prunedSeq,  \* rooms.deletions_pruned_seq
    floors,     \* share_seq_floors, 0 where the table has no row
    store,      \* RoomStore: #server, seq and whether status is 'ready'
    saved,      \* the copy of the room on the device (snapshot store)
    phase,      \* where RoomStore.#load is
    since,      \* the since of the request that is out
    stale,      \* clearVersion changed since the request went out
    feed        \* the answer on its way

serverVars == <<changeSeq, lists, items, deletions, prunedSeq, floors>>
clientVars == <<store, saved, phase, since, stale, feed>>
vars == <<changeSeq, lists, items, deletions, prunedSeq, floors,
          store, saved, phase, since, stale, feed>>

ListRow  == [val : Values, seq : Nat]
ItemRow  == [list : Lists, val : Values, seq : Nat]
ListRows == [Lists -> ListRow \cup {NoRow}]
ItemRows == [Items -> ItemRow \cup {NoRow}]
Deletion == [kind : {"list", "item"}, uid : Lists \cup Items, list : Lists, seq : Nat]

\* What a page or a device holds of the room.
Copy == [ready : BOOLEAN, seq : Nat, lists : ListRows, items : ItemRows]
EmptyCopy == [ready |-> FALSE, seq |-> 0,
              lists |-> [l \in Lists |-> NoRow],
              items |-> [i \in Items |-> NoRow]]

\* One answer of GET /rooms/{slug}/changes.
Feed == [seq : Nat, full : BOOLEAN, lists : ListRows, items : ItemRows,
         goneLists : SUBSET Lists, goneItems : SUBSET Items]
NoFeed == [seq |-> 0, full |-> FALSE,
           lists |-> [l \in Lists |-> NoRow], items |-> [i \in Items |-> NoRow],
           goneLists |-> {}, goneItems |-> {}]

\* Every table, copy and message has the shape the code gives it.
TypeOK ==
    /\ changeSeq \in Nat
    /\ lists \in ListRows
    /\ items \in ItemRows
    /\ deletions \in SUBSET Deletion
    /\ prunedSeq \in Nat
    /\ floors \in [Lists -> Nat]
    /\ store \in Copy
    /\ saved \in Copy
    /\ phase \in {"idle", "asked", "answered", "saving"}
    /\ since \in Nat
    /\ stale \in BOOLEAN
    /\ feed \in Feed

-----------------------------------------------------------------------------
(* Server: writes.                                                         *)

ItemsOf(l) == {i \in Items : items[i] # NoRow /\ items[i].list = l}

\* uid_in_use_locked: a uid is taken by a row or by a deletion record.
ListUidInUse(l) == lists[l] # NoRow \/ \E d \in deletions : d.uid = l
ItemUidInUse(i) == items[i] # NoRow \/ \E d \in deletions : d.uid = i

\* The order in which one statement visits its rows: each row gets its own seq.
Orders(S) == {rank \in [S -> 1..Cardinality(S)] :
                  \A i, j \in S : rank[i] = rank[j] => i = j}

\* Trigger rooms_track_rename: a rename of the room stamps no row.
RenameRoom ==
    /\ changeSeq < MaxSeq
    /\ changeSeq' = changeSeq + 1
    /\ UNCHANGED <<lists, items, deletions, prunedSeq, floors, clientVars>>

CreateList(l, v) ==
    /\ changeSeq < MaxSeq
    /\ ~ListUidInUse(l)
    /\ changeSeq' = changeSeq + 1
    /\ lists' = [lists EXCEPT ![l] = [val |-> v, seq |-> changeSeq + 1]]
    /\ UNCHANGED <<items, deletions, prunedSeq, floors, clientVars>>

CreateItem(i, l, v) ==
    /\ changeSeq < MaxSeq
    /\ lists[l] # NoRow
    /\ ~ItemUidInUse(i)
    /\ changeSeq' = changeSeq + 1
    /\ items' = [items EXCEPT ![i] = [list |-> l, val |-> v, seq |-> changeSeq + 1]]
    /\ UNCHANGED <<lists, deletions, prunedSeq, floors, clientVars>>

\* A rename, settings or tag change that touches the list row alone, or a new
\* share token (then the visible value stays): triggers lists_track_update.
UpdateList(l, v) ==
    /\ changeSeq < MaxSeq
    /\ lists[l] # NoRow
    /\ changeSeq' = changeSeq + 1
    /\ lists' = [lists EXCEPT ![l] = [val |-> v, seq |-> changeSeq + 1]]
    /\ UNCHANGED <<items, deletions, prunedSeq, floors, clientVars>>

\* The write helpers skip an UPDATE that would store what is there.
UpdateItem(i, v) ==
    /\ changeSeq < MaxSeq
    /\ items[i] # NoRow
    /\ items[i].val # v
    /\ changeSeq' = changeSeq + 1
    /\ items' = [items EXCEPT ![i].val = v, ![i].seq = changeSeq + 1]
    /\ UNCHANGED <<lists, deletions, prunedSeq, floors, clientVars>>

\* Renaming a tag, or switching the list to one tag per item: the list row,
\* then some of its items, in one transaction.
RetagList(l, S, v) ==
    /\ lists[l] # NoRow
    /\ S # {} /\ S \subseteq ItemsOf(l)
    /\ changeSeq + 1 + Cardinality(S) <= MaxSeq
    /\ changeSeq' = changeSeq + 1 + Cardinality(S)
    /\ lists' = [lists EXCEPT ![l] = [val |-> v, seq |-> changeSeq + 1]]
    /\ \E rank \in Orders(S) :
          items' = [i \in Items |->
                      IF i \in S
                      THEN [list |-> l, val |-> v, seq |-> changeSeq + 1 + rank[i]]
                      ELSE items[i]]
    /\ UNCHANGED <<deletions, prunedSeq, floors, clientVars>>

\* Trigger items_track_delete: a record that names the item's list.
DeleteItem(i) ==
    /\ changeSeq < MaxSeq
    /\ items[i] # NoRow
    /\ changeSeq' = changeSeq + 1
    /\ items' = [items EXCEPT ![i] = NoRow]
    /\ deletions' = deletions \cup
          {[kind |-> "item", uid |-> i, list |-> items[i].list, seq |-> changeSeq + 1]}
    /\ UNCHANGED <<lists, prunedSeq, floors, clientVars>>

\* delete_list_locked: the items first, one record each, then the list.
DeleteList(l) ==
    LET doomed == ItemsOf(l)
        last   == changeSeq + Cardinality(doomed) + 1
    IN /\ lists[l] # NoRow
       /\ last <= MaxSeq
       /\ changeSeq' = last
       /\ items' = [i \in Items |-> IF i \in doomed THEN NoRow ELSE items[i]]
       /\ lists' = [lists EXCEPT ![l] = NoRow]
       /\ \E rank \in Orders(doomed) :
             deletions' = deletions
                \cup {[kind |-> "item", uid |-> i, list |-> l, seq |-> changeSeq + rank[i]]
                         : i \in doomed}
                \cup {[kind |-> "list", uid |-> l, list |-> l, seq |-> last]}
       /\ UNCHANGED <<prunedSeq, floors, clientVars>>

\* Variant: pruned records leave no floor.
PrunedOfNone(l, cut) == 0

\* The highest seq among the pruned records of list l (0 if none).
PrunedOf(l, cut) ==
    LET seqs == {d.seq : d \in {e \in deletions : e.list = l /\ e.seq <= cut}}
    IN IF seqs = {} THEN 0 ELSE CHOOSE s \in seqs : \A t \in seqs : t <= s

Larger(a, b) == IF a >= b THEN a ELSE b

\* prune_deletions: some records are over 90 days old; cut is the newest of
\* them, and every record up to it goes.  Floors of lists that are gone go too.
PruneDeletions ==
    \E cut \in {d.seq : d \in deletions} :
       /\ deletions' = {d \in deletions : d.seq > cut}
       /\ floors' = [l \in Lists |-> IF lists[l] = NoRow THEN 0
                                     ELSE Larger(floors[l], PrunedOf(l, cut))]
       /\ prunedSeq' = Larger(prunedSeq, cut)
       /\ UNCHANGED <<changeSeq, lists, items, clientVars>>

Write ==
    \/ RenameRoom
    \/ \E l \in Lists, v \in Values : CreateList(l, v)
    \/ \E i \in Items, l \in Lists, v \in Values : CreateItem(i, l, v)
    \/ \E l \in Lists, v \in Values : UpdateList(l, v)
    \/ \E i \in Items, v \in Values : UpdateItem(i, v)
    \/ \E l \in Lists : \E S \in SUBSET Items, v \in Values : RetagList(l, S, v)
    \/ \E i \in Items : DeleteItem(i)
    \/ \E l \in Lists : DeleteList(l)
    \/ PruneDeletions

-----------------------------------------------------------------------------
(* Server: reads.                                                          *)

\* Variant: pruned records are forgotten.
ServedInFullUnlessPruned(s) == s = 0 \/ s > changeSeq

\* No delta is possible: first load, a client ahead of the server, or one
\* that may have missed pruned records.
ServedInFull(s) == s = 0 \/ s > changeSeq \/ s < prunedSeq

ChangesSince(s) ==
    LET full == ServedInFull(s)
    IN [seq   |-> changeSeq,
        full  |-> full,
        lists |-> [l \in Lists |->
                     IF lists[l] # NoRow /\ (full \/ lists[l].seq > s)
                     THEN lists[l] ELSE NoRow],
        items |-> [i \in Items |->
                     IF items[i] # NoRow /\ (full \/ items[i].seq > s)
                     THEN items[i] ELSE NoRow],
        goneLists |-> {l \in Lists : ~full /\ \E d \in deletions :
                                 d.kind = "list" /\ d.uid = l /\ d.seq > s},
        goneItems |-> {i \in Items : ~full /\ \E d \in deletions :
                                 d.kind = "item" /\ d.uid = i /\ d.seq > s}]

\* get_share_seq_locked: the highest seq that names this list.
ShareSeq(l) ==
    LET seqs == {lists[l].seq} \cup {items[i].seq : i \in ItemsOf(l)}
                  \cup {d.seq : d \in {e \in deletions : e.list = l}} \cup {floors[l]}
    IN CHOOSE s \in seqs : \A t \in seqs : t <= s

\* What a share link shows of the list.
ShareView(l) == [row |-> lists[l], items |-> [i \in ItemsOf(l) |-> items[i]]]

-----------------------------------------------------------------------------
(* Client: RoomStore.#load and the device's saved copy.                    *)

\* mergeFeed: a full feed replaces everything; a delta upserts and removes.
MergeFeed(copy, f) ==
    LET listsIn == [l \in Lists |-> IF f.lists[l] # NoRow THEN f.lists[l]
                                    ELSE IF f.full THEN NoRow ELSE copy.lists[l]]
        itemsIn == [i \in Items |-> IF f.items[i] # NoRow THEN f.items[i]
                                    ELSE IF f.full THEN NoRow ELSE copy.items[i]]
    IN [ready |-> TRUE,
        seq   |-> f.seq,
        lists |-> [l \in Lists |-> IF l \in f.goneLists THEN NoRow ELSE listsIn[l]],
        items |-> [i \in Items |->
                     IF \/ i \in f.goneItems
                        \/ itemsIn[i] # NoRow /\ itemsIn[i].list \in f.goneLists
                     THEN NoRow ELSE itemsIn[i]]]

\* Variant: asks for what came from its seq on, not after it.
RefreshFromSeq ==
    /\ phase = "idle"
    /\ phase' = "asked"
    /\ since' = store.seq - 1
    /\ stale' = FALSE
    /\ UNCHANGED <<serverVars, store, saved, feed>>

\* refresh(): one request at a time.
Refresh ==
    /\ phase = "idle"
    /\ phase' = "asked"
    /\ since' = store.seq
    /\ stale' = FALSE
    /\ UNCHANGED <<serverVars, store, saved, feed>>

\* The server answers from one read transaction.
Answer ==
    /\ phase = "asked"
    /\ phase' = "answered"
    /\ feed' = ChangesSince(since)
    /\ since' = 0
    /\ UNCHANGED <<serverVars, store, saved, stale>>

\* No answer, or an error: the load fails, a later refresh starts over.
LoseAnswer ==
    /\ phase \in {"asked", "answered"}
    /\ phase' = "idle"
    /\ since' = 0
    /\ stale' = FALSE
    /\ feed' = NoFeed
    /\ UNCHANGED <<serverVars, store, saved>>

\* Variant: the view is not asked whether it was cleared meanwhile.
IgnoredWhenOlder == ~feed.full /\ feed.seq < store.seq

\* An answer for a view that was cleared or hydrated meanwhile is ignored, and
\* so is a delta older than what is shown.
Ignored == stale \/ (~feed.full /\ feed.seq < store.seq)

IgnoreFeed ==
    /\ phase = "answered"
    /\ Ignored
    /\ phase' = "idle"
    /\ stale' = FALSE
    /\ feed' = NoFeed
    /\ UNCHANGED <<serverVars, store, saved, since>>

ApplyFeed ==
    /\ phase = "answered"
    /\ ~Ignored
    /\ store' = MergeFeed(store, feed)
    /\ phase' = "saving"
    /\ feed' = NoFeed
    /\ UNCHANGED <<serverVars, saved, since, stale>>

\* feedApplied: the device's copy is written while the page goes on; a clear
\* meanwhile (stale) or a storage error leaves the old copy.
SaveCopy ==
    /\ phase = "saving"
    /\ phase' = "idle"
    /\ stale' = FALSE
    /\ \/ ~stale /\ saved' = store
       \/ UNCHANGED saved
    /\ UNCHANGED <<serverVars, store, since, feed>>

\* clear(): signed out or 401.  The saved copy goes too, unless storage fails.
Clear ==
    /\ store # EmptyCopy
    /\ store' = EmptyCopy
    /\ saved' \in {saved, EmptyCopy}
    /\ stale' = (phase # "idle")
    /\ UNCHANGED <<serverVars, phase, since, feed>>

\* hydrate(): the saved copy is shown until the first answer.
Hydrate ==
    /\ saved.ready
    /\ ~store.ready
    /\ store' = saved
    /\ stale' = (phase # "idle")
    /\ UNCHANGED <<serverVars, saved, phase, since, feed>>

\* The page is closed and opened again.
Reload ==
    /\ store' = EmptyCopy
    /\ phase' = "idle"
    /\ since' = 0
    /\ stale' = FALSE
    /\ feed' = NoFeed
    /\ UNCHANGED <<serverVars, saved>>

Interrupt == Clear \/ Hydrate \/ Reload

Next ==
    \/ Write
    \/ Refresh \/ Answer \/ LoseAnswer \/ IgnoreFeed \/ ApplyFeed \/ SaveCopy
    \/ Interrupt

-----------------------------------------------------------------------------

\* A room may hold rows from before change tracking: they have seq 0.
Init ==
    /\ changeSeq = 0
    /\ lists \in [Lists -> [val : StartValues, seq : {0}] \cup {NoRow}]
    /\ items \in [Items -> [list : {l \in Lists : lists[l] # NoRow},
                            val : StartValues, seq : {0}] \cup {NoRow}]
    /\ deletions = {}
    /\ prunedSeq = 0
    /\ floors = [l \in Lists |-> 0]
    /\ store = EmptyCopy
    /\ saved = EmptyCopy
    /\ phase = "idle"
    /\ since = 0
    /\ stale = FALSE
    /\ feed = NoFeed

Spec == Init /\ [][Next]_vars

\* The page keeps asking (LiveUpdates tells it of every new seq, and a failed
\* load is retried), answers get through again and again, and the user does
\* not sign out or reload for ever.
LiveSpec ==
    /\ Spec
    /\ WF_vars(Refresh) /\ SF_vars(Answer) /\ SF_vars(ApplyFeed)
    /\ WF_vars(IgnoreFeed) /\ WF_vars(SaveCopy)
    /\ <>[][~Interrupt]_vars

-----------------------------------------------------------------------------
(* Properties.                                                             *)

Sees(copy) == copy.lists = lists /\ copy.items = items

\* A page that has reached the room's seq shows exactly the room's rows:
\* nothing is missing, nothing deleted is left, whatever deltas, full feeds,
\* pruned records, reloads and clears led there (api/changes.py, feed.ts).
CurrentCopyIsRoom ==
    store.ready /\ store.seq = changeSeq => Sees(store)

\* Wherever a copy stands, the rest of the way is still to come: a row it has
\* wrong was changed after the copy's seq, and a row it should no longer have
\* is named by a deletion record after it, or the copy is behind the pruned
\* records and will be replaced.
CanCatchUp(copy) ==
    /\ copy.seq <= changeSeq
    /\ \A l \in Lists :
          \/ copy.lists[l] = lists[l]
          \/ lists[l] # NoRow /\ lists[l].seq > copy.seq
          \/ lists[l] = NoRow /\ (\/ copy.seq < prunedSeq
                                  \/ \E d \in deletions : /\ d.kind = "list"
                                                          /\ d.uid = l
                                                          /\ d.seq > copy.seq)
    /\ \A i \in Items :
          \/ copy.items[i] = items[i]
          \/ items[i] # NoRow /\ items[i].seq > copy.seq
          \/ items[i] = NoRow /\ (\/ copy.seq < prunedSeq
                                  \/ \E d \in deletions : /\ d.kind = "item"
                                                          /\ d.uid = i
                                                          /\ d.seq > copy.seq)

CopiesCanCatchUp ==
    /\ store.ready => CanCatchUp(store)
    /\ saved.ready => CanCatchUp(saved)

\* Seqs lie in the room's past, a uid names a row or a deletion record but not
\* both, and an item's list exists (the foreign key items.list_id).
TablesOK ==
    /\ prunedSeq <= changeSeq
    /\ \A l \in Lists : lists[l] # NoRow =>
          /\ lists[l].seq <= changeSeq
          /\ \A d \in deletions : ~(d.kind = "list" /\ d.uid = l)
    /\ \A i \in Items : items[i] # NoRow =>
          /\ items[i].seq <= changeSeq
          /\ lists[items[i].list] # NoRow
          /\ \A d \in deletions : ~(d.kind = "item" /\ d.uid = i)
    /\ \A d \in deletions : d.seq <= changeSeq

\* Every copy can catch up, and so can the page once it merges the answer that
\* is on its way: the reason CurrentCopyIsRoom is kept by every step.
FeedInv ==
    /\ TablesOK
    /\ CopiesCanCatchUp
    /\ ~store.ready => store = EmptyCopy
    /\ phase = "asked" /\ ~stale => since = store.seq
    /\ phase = "answered" /\ ~Ignored => CanCatchUp(MergeFeed(store, feed))

\* The share seq of a list moves exactly when what its share link shows moves,
\* and only up: a share page that compares seqs misses nothing and reloads for
\* nothing (get_share_seq_locked, share_seq_floors).
ShareSeqFollowsList ==
    [][\A l \in Lists : lists[l] # NoRow /\ lists'[l] # NoRow =>
          IF ShareView(l)' = ShareView(l)
          THEN ShareSeq(l)' = ShareSeq(l)
          ELSE ShareSeq(l)' > ShareSeq(l)]_vars

\* However answers are lost, views cleared and pages reloaded, once the writes
\* pause a page that is left alone comes to show the room as it is and keeps
\* doing so (RoomStore.refresh, LiveUpdates).
KeepsCatchingUp == <>[][~Write]_vars => <>[](store.ready /\ Sees(store))
=============================================================================
