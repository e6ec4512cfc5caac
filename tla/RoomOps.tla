------------------------------ MODULE RoomOps ------------------------------
(***************************************************************************)
(* The write endpoint of one room, POST /ops: each op runs once per op_id  *)
(* (src/api/idempotency.py, run_once_locked), in one write transaction     *)
(* with its answer, however often, late or out of order its request comes. *)
(*                                                                         *)
(* A device composes an op from the room it has just read: the op carries  *)
(* the changed_seq of the row the user looked at.  Its request may arrive  *)
(* at any later time, any number of times.  After 30 days the device holds *)
(* an op until the user approves it (HOLD_MS), and the server forgets the  *)
(* stored answer (PROCESSED_OP_DAYS).                                      *)
(***************************************************************************)
EXTENDS OpHandlers

CONSTANTS OpIds,       \* op_ids
          OpTypes,     \* the op types of this instance
          ShareLinks,  \* whether ops also come through share links
          StartTagged, \* whether rooms start with tags
          MaxHeld,     \* bound: ops that grow 30 days old
          MaxRuns      \* bound: an op that ran this often is not forgotten again

ASSUME BoundsAreNats == {MaxHeld, MaxRuns} \subseteq Nat

VARIABLES room,       \* the room's tables
          processed,  \* processed_ops: by op_id, the op (its request_hash) and its answer
          drafts,     \* by op_id, what devices sent or will send: the op, the row
                      \* it was made from and whether the device may send it
          runs,       \* how often each op's handler ran and applied
          heard       \* by op_id, the last answer each op got, errors aside

vars == <<room, processed, drafts, runs, heard>>

\* None: the member endpoint; a list: its share link.
Scopes == {None} \cup IF ShareLinks THEN Lists ELSE {}

\* The row an op is about, as the room has it now.
RowOf(op) ==
    IF op.item \in Items THEN room.items[op.item]
    ELSE IF op.list \in Lists THEN room.lists[op.list] ELSE None

\* uids nobody has used or is about to use: clients make them as UUIDs.
Composed == {drafts[id].op : id \in DOMAIN drafts}
FreshLists == {l \in Lists : ~UidInUse(room, l)} \ {op.list : op \in Composed}
FreshItems == {i \in Items : ~UidInUse(room, i)} \ {op.item : op \in Composed}

\* A row of the table is inserted or replaced.
Stored(table, id, row) == [d \in DOMAIN table \cup {id} |-> IF d = id THEN row ELSE table[d]]

\* The ops a page can send about the room it shows.
OpsOnRoom ==
    {Op("room.rename", s, None, None, n, None, None, None) : s \in Scopes, n \in Names}
      \cup {Op("list.create", s, l, None, n, None, None, None) :
               s \in Scopes, l \in FreshLists, n \in Names}

\* What an item's tags may be, at the start or as a page kept them of an item it
\* deleted.
ItemTags == {<<>>} \cup IF StartTagged THEN SetToSeqs(Tags) ELSE {}

OpsOnList(l) ==
    {Op("list.rename", s, l, None, n, None, None, room.lists[l].seq) : s \in Scopes, n \in Names}
      \cup {Op("list.delete", s, l, None, None, None, None, None) : s \in Scopes}
      \cup {Op("item.add", s, l, i, n, None, None, None) :
               s \in Scopes, i \in FreshItems, n \in Names}
      \cup {[Op("item.restore", s, l, i, n, d, 1, None) EXCEPT !.tags = kept] :
               s \in Scopes, i \in FreshItems, n \in Names, d \in BOOLEAN, kept \in ItemTags}

ListTagOp(type, s, l, tag) == [Op(type, s, l, None, None, None, None, None) EXCEPT !.tag = tag]

OpsOnTags(l) ==
    {ListTagOp(type, s, l, t) : type \in {"list.tag_add", "list.tag_remove"}, s \in Scopes,
                                t \in Tags}
      \cup {[ListTagOp("list.tag_color", s, l, t) EXCEPT !.done = given] :
               s \in Scopes, t \in Tags, given \in BOOLEAN}
      \cup {[ListTagOp("list.tag_rename", s, l, t) EXCEPT !.newTag = new] :
               s \in Scopes, t \in Tags, new \in Tags}
      \cup {[ListTagOp("list.tag_settings", s, l, None) EXCEPT !.sent = sent] :
               s \in Scopes, sent \in UNION {[f -> BOOLEAN] : f \in (SUBSET TagSettings) \ {{}}}}
      \cup {[ListTagOp("list.visibility", s, l, None) EXCEPT !.sent = sent] :
               s \in Scopes, sent \in UNION {[f -> BOOLEAN] : f \in (SUBSET Visibility) \ {{}}}}

OpsOnItem(l, i) ==
    LET seq == room.items[i].seq
    IN {Op("item.set_done", s, l, i, None, d, None, b) :
            s \in Scopes, d \in BOOLEAN, b \in {seq, None}}
       \cup {Op("item.edit", s, l, i, n, None, q, seq) :
                s \in Scopes, n \in Names, q \in {None, 1}}
       \cup {Op("item.quantity_delta", s, l, i, None, None, d, None) :
                s \in Scopes, d \in {-1, 1}}
       \cup {[Op("item.toggle_tag", s, l, i, None, d, None, None) EXCEPT !.tag = t] :
                s \in Scopes, d \in BOOLEAN \cup {None}, t \in Tags}
       \cup {Op("item.delete", s, l, i, None, None, None, None) : s \in Scopes}

OpsNow == {op \in OpsOnRoom
                    \cup (UNION {OpsOnList(l) \cup OpsOnTags(l) : l \in RealLists(room)})
                    \cup (UNION {OpsOnItem(l, i) : l \in RealLists(room),
                                                   i \in {j \in Items : room.items[j] # None}}) :
              op.type \in OpTypes}

Compose(id) ==
    /\ id \notin DOMAIN drafts
    /\ \E op \in OpsNow :
          drafts' = Stored(drafts, id, [op |-> op, seen |-> RowOf(op), age |-> "fresh"])
    /\ UNCHANGED <<room, processed, runs, heard>>

MaySend(id) == id \in DOMAIN drafts /\ drafts[id].age \in {"fresh", "approved"}

\* run_once_locked, no stored answer: the op runs, and its answer is stored with
\* it.  An HTTP error stores nothing.
RunOp(id) ==
    LET op      == drafts[id].op
        outcome == Outcome(room, op)
        answer  == AnswerTo(op, outcome)
    IN /\ MaySend(id)
       /\ id \notin DOMAIN processed
       /\ \/ /\ outcome.status = "error"
             /\ UNCHANGED <<room, processed, runs, heard>>
          \/ /\ outcome.status # "error"
             /\ room' = outcome.room
             /\ processed' = Stored(processed, id, [op |-> op, answer |-> answer])
             /\ runs' = [runs EXCEPT ![id] = IF answer.status = "applied" THEN @ + 1 ELSE @]
             /\ heard' = Stored(heard, id, answer)
       /\ UNCHANGED drafts

\* run_once_locked, stored: the answer is replayed, whatever the room is now.
ReplayOp(id) ==
    /\ MaySend(id)
    /\ id \in DOMAIN processed
    /\ processed[id].op = drafts[id].op
    /\ heard' = Stored(heard, id, processed[id].answer)
    /\ UNCHANGED <<room, processed, drafts, runs>>

\* 30 days after the user acted: classifyEntry holds the op.
Hold(id) ==
    /\ id \in DOMAIN drafts
    /\ drafts[id].age = "fresh"
    /\ Cardinality({d \in DOMAIN drafts : drafts[d].age # "fresh"}) < MaxHeld
    /\ drafts' = [drafts EXCEPT ![id].age = "held"]
    /\ UNCHANGED <<room, processed, runs, heard>>

\* The user chooses Send for a held op.
Approve(id) ==
    /\ id \in DOMAIN drafts
    /\ drafts[id].age = "held"
    /\ drafts' = [drafts EXCEPT ![id].age = "approved"]
    /\ UNCHANGED <<room, processed, runs, heard>>

\* Variant: answers are kept for less time than ops are sent.
ForgetEarly(id) ==
    /\ id \in DOMAIN processed
    /\ runs[id] < MaxRuns
    /\ processed' = [d \in DOMAIN processed \ {id} |-> processed[d]]
    /\ UNCHANGED <<room, drafts, runs, heard>>

\* prune_processed_ops: 30 days after the answer was stored, so later than 30
\* days after the user acted.
Forget(id) ==
    /\ id \in DOMAIN processed
    /\ runs[id] < MaxRuns
    /\ drafts[id].age # "fresh"
    /\ processed' = [d \in DOMAIN processed \ {id} |-> processed[d]]
    /\ UNCHANGED <<room, drafts, runs, heard>>

\* A color is that of a tag the list has, the count limit holds, and no item has
\* a tag twice: the tag ops keep three columns of two tables together.
TagsOK ==
    /\ \A l \in RealLists(room) : /\ room.lists[l].colored \subseteq room.lists[l].tags
                                  /\ Cardinality(room.lists[l].tags) <= MaxTags
    /\ \A i \in Items : room.items[i] # None => IsInjective(room.items[i].tags)

\* Whatever ops devices send and in whatever order they arrive: a list's item
\* names are unique and so are a room's list names, the count limits hold, an
\* item's list exists and a deleted uid never comes back.
TablesOK ==
    /\ \A l \in RealLists(room) :
          /\ \A n \in Names : Cardinality(Named(room, l, n)) <= 1
          /\ Cardinality(ItemsIn(room, l)) <= MaxItems
          /\ \A m \in RealLists(room) : room.lists[l].name = room.lists[m].name => l = m
    /\ Cardinality(RealLists(room)) <= MaxLists
    /\ \A i \in Items : room.items[i] # None => room.lists[room.items[i].list] # None
    /\ \A uid \in room.gone : uid \in Lists => room.lists[uid] = None
    /\ \A uid \in room.gone : uid \in Items => room.items[uid] = None

\* A room in use: any rows the tables may hold; where the ops on tags are looked
\* at, every list is full of tags and no item is checked.
StartTags == IF StartTagged THEN {T \in SUBSET Tags : Cardinality(T) = MaxTags} ELSE {{}}
StartDone == IF StartTagged THEN {FALSE} ELSE BOOLEAN

Init ==
    /\ room \in {[seq |-> 2, name |-> n, lists |-> ls, items |-> is, gone |-> {}] :
                    n \in Names,
                    ls \in [Lists -> {None} \cup [name : Names, tags : StartTags, colored : {{}},
                                                  settings : {{}}, seq : {1}]],
                    is \in [Items -> {None} \cup [list : Lists, name : Names, done : StartDone,
                                                  qty : {1}, tags : ItemTags, seq : {2}]]}
    /\ TablesOK
    /\ processed = [id \in {} |-> None]
    /\ drafts = [id \in {} |-> None]
    /\ runs = [id \in OpIds |-> 0]
    /\ heard = [id \in {} |-> None]

Next == \E id \in OpIds :
    \/ Compose(id)
    \/ RunOp(id)
    \/ ReplayOp(id)
    \/ Hold(id)
    \/ Approve(id)
    \/ Forget(id)

Spec == Init /\ [][Next]_vars

-----------------------------------------------------------------------------
(* Properties.                                                             *)

\* The tables and the stored answers have the shape the code gives them.
TypeOK ==
    /\ room \in Room
    /\ DOMAIN processed \subseteq DOMAIN heard
    /\ \A id \in DOMAIN drafts :
          /\ drafts[id].op.type \in OpTypes
          /\ drafts[id].age \in {"fresh", "held", "approved"}
    /\ runs \in [OpIds -> Nat]

\* A set op that carries its base never overwrites what its author had not
\* seen: the row it changes is the row it was made from (R2).
NeverOverwritesUnseen ==
    [][\A id \in OpIds :
          RunOp(id) /\ drafts[id].op.base # None /\ RowOf(drafts[id].op)' # RowOf(drafts[id].op)
             => RowOf(drafts[id].op) = drafts[id].seen]_vars

\* What the pages show: everything but the seqs.
Shown(r) == [name  |-> r.name,
             lists |-> [l \in RealLists(r) |-> [r.lists[l] EXCEPT !.seq = 0]],
             items |-> [i \in {j \in Items : r.items[j] # None} |->
                           [r.items[i] EXCEPT !.seq = 0]]]

\* The room's seq moves exactly when what its pages show changes, and each row
\* that changed took a seq of its own: a client that compares seqs misses
\* nothing and reads nothing for nothing (the no-write paths of the helpers).
SeqTellsEveryChange ==
    [][/\ room'.seq >= room.seq
       /\ room'.seq > room.seq <=> Shown(room)' # Shown(room)
       /\ \A i \in Items : room'.items[i] \notin {room.items[i], None} =>
             /\ room'.items[i].seq > room.seq
             /\ \A j \in Items \ {i} : room'.items[j] # None =>
                   room'.items[j].seq # room'.items[i].seq]_vars

\* A request that is repeated, late or out of order, runs its op once and gets
\* the same answer however the room moved on, unless the user approved it after
\* 30 days: the hold on the device is never shorter than the server's memory
\* (R10, docs/api-lists-items.md).
RetriesChangeNothing ==
    [][\A id \in OpIds :
          \/ runs[id] > 0 /\ runs'[id] # runs[id]
          \/ id \in DOMAIN heard /\ heard'[id] # heard[id]
          => drafts[id].age = "approved"]_vars

\* The lists with one tag per item that have no item with more.
OneTagEach(r) == {l \in RealLists(r) :
                     /\ "single" \in r.lists[l].settings
                     /\ \A i \in ItemsIn(r, l) : Len(r.items[i].tags) <= 1}

\* A list that is switched to one tag per item has no item with more, and no op
\* brings one back, except the undo of a delete: it restores the tags the item
\* had before the switch.
SingleModeKept ==
    [][\A l \in RealLists(room) \cap RealLists(room') :
          /\ "single" \in room'.lists[l].settings
          /\ "single" \notin room.lists[l].settings \/ l \in OneTagEach(room)
          /\ \A id \in OpIds : RunOp(id) => drafts[id].op.type # "item.restore"
          => l \in OneTagEach(room')]_vars

ListOf(row) == IF row = None THEN None ELSE row.list

\* An op through a share link touches its own list's items, tags and settings,
\* and nothing else of the room, not even that list's name.
ShareStaysInList ==
    [][\A id \in OpIds :
          RunOp(id) /\ drafts[id].op.scope # None =>
             LET own == drafts[id].op.scope
             IN /\ room'.name = room.name
                /\ \A l \in Lists : room'.lists[l] # room.lists[l] =>
                      /\ l = own
                      /\ room'.lists[l] # None
                      /\ room'.lists[l].name = room.lists[l].name
                /\ \A i \in Items : room'.items[i] # room.items[i] =>
                      own \in {ListOf(room.items[i]), ListOf(room'.items[i])}]_vars
=============================================================================
