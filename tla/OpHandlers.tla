----------------------------- MODULE OpHandlers -----------------------------
(***************************************************************************)
(* The write operations of POST /ops (src/api/ops.py) and the write helpers*)
(* they call (src/database_crud.py), as functions from a room and an op to *)
(* the room after it and the answer.                                       *)
(*                                                                         *)
(* A name stands for its duplicate key (outer spaces and case are left     *)
(* out), and for an item's description and due schedule too: an item.edit  *)
(* compares and stores them together.  A tag stands for its place in the   *)
(* order a list shows its tags in; of a color only whether the tag has one *)
(* is kept.                                                                *)
(***************************************************************************)
EXTENDS Integers, SequencesExt, SequenceFilter

CONSTANTS Lists,     \* uids of lists
          Items,     \* uids of items
          Names,     \* names of rooms, lists and items
          Tags,      \* tags, in the order a list shows them
          None,      \* no row, no uid, a field that was not sent
          MaxItems,  \* MAX_ITEMS_PER_LIST
          MaxLists,  \* MAX_LISTS_PER_ROOM
          MaxTags    \* MAX_TAGS_PER_LIST

ASSUME LimitsAreNats == {MaxItems, MaxLists, MaxTags} \cup Tags \subseteq Nat
ASSUME NoneIsNone == None \notin Lists \cup Items \cup Names \cup Int \cup BOOLEAN
\* A uid is that of a list or of an item (uid_in_use_locked looks at both), and
\* uids and tags have a bounded length.
ASSUME UidsAndTags == Lists \cap Items = {} /\ IsFiniteSet(Lists \cup Items \cup Tags)

\* The settings of a list, here all on or off: tag_mode is single, tags show on
\* items; the mode and the limits of the checked items it hides.
TagSettings == {"single", "showOnItems"}
Visibility  == {"hide", "limit"}

\* A list row: its tags, those with a color of their own, and its settings.
ListRow == [name : Names, tags : SUBSET Tags, colored : SUBSET Tags,
            settings : SUBSET (TagSettings \cup Visibility), seq : Nat]
ItemRow == [list : Lists, name : Names, done : BOOLEAN, qty : Nat \ {0}, tags : Seq(Tags),
            seq : Nat]

ASSUME NoneIsNoRow == None \notin ListRow \cup ItemRow

\* One room: rooms.change_seq and its name, the rows by uid, and the uids of
\* deletion records.
Room == [seq : Nat, name : Names,
         lists : [Lists -> ListRow \cup {None}],
         items : [Items -> ItemRow \cup {None}],
         gone  : SUBSET (Lists \cup Items)]

ItemsIn(room, l) == {i \in Items : room.items[i] # None /\ room.items[i].list = l}
RealLists(room)  == {l \in Lists : room.lists[l] # None}

\* uid_in_use_locked
UidInUse(room, uid) ==
    \/ uid \in room.gone
    \/ uid \in Lists /\ room.lists[uid] # None
    \/ uid \in Items /\ room.items[uid] # None

\* The row triggers: every write of a row takes the room's next seq.
PutItem(room, i, row) ==
    [room EXCEPT !.seq = @ + 1, !.items[i] = [row EXCEPT !.seq = room.seq + 1]]
PutList(room, l, row) ==
    [room EXCEPT !.seq = @ + 1, !.lists[l] = [row EXCEPT !.seq = room.seq + 1]]

\* Several items in one op, one seq each, in some order.
PutItems(room, rows) ==
    LET order == SetToSeq(DOMAIN rows)
        Turn(i) == CHOOSE n \in DOMAIN order : order[n] = i
    IN  [room EXCEPT !.seq = @ + Cardinality(DOMAIN rows),
                     !.items = [i \in Items |->
                        IF i \in DOMAIN rows THEN [rows[i] EXCEPT !.seq = room.seq + Turn(i)]
                        ELSE @[i]]]

\* Variant: every item write is stored, also of what is there.
PutItemAlways(room, i, row) == PutItem(room, i, row)

\* An item write that would store what is there is skipped (no new seq).
PutItemIfChanged(room, i, row) ==
    IF row = room.items[i] THEN room ELSE PutItem(room, i, row)

\* The same for a list.
PutListIfChanged(room, l, row) ==
    IF row = room.lists[l] THEN room ELSE PutList(room, l, row)

-----------------------------------------------------------------------------
(* Outcomes.  A rejection and an HTTP error leave the room as it was: the  *)
(* savepoint rolls back.                                                   *)

Applied(room, uid, cseq) ==
    [status |-> "applied", code |-> "", uid |-> uid, cseq |-> cseq, room |-> room]
Rejected(room, code, uid) ==
    [status |-> "rejected", code |-> code, uid |-> uid, cseq |-> 0, room |-> room]
HttpError(room, code) ==
    [status |-> "error", code |-> code, uid |-> None, cseq |-> 0, room |-> room]

AppliedItem(room, i) == Applied(room, i, room.items[i].seq)
AppliedList(room, l) == Applied(room, l, room.lists[l].seq)

\* Variant: the last write wins.
NeverStale(base, seq, alreadyStored) == FALSE

\* _check_base_seq: the row changed after the page's base, and the stored value
\* is not what the op wants.
Stale(base, seq, alreadyStored) == base # None /\ seq > base /\ ~alreadyStored

-----------------------------------------------------------------------------
(* Ops on the room and its lists.                                          *)

\* rename_room_locked: the same name is not written.
RoomRename(room, op) ==
    Applied(IF room.name = op.name THEN room
            ELSE [room EXCEPT !.seq = @ + 1, !.name = op.name], None, 0)

NewList(name) == [name |-> name, tags |-> {}, colored |-> {}, settings |-> {}, seq |-> 0]

\* create_or_find_list_locked: a list of that name is opened, not made again.
ListCreate(room, op) ==
    LET same == {l \in RealLists(room) : room.lists[l].name = op.name}
    IN IF same # {} THEN Applied(room, CHOOSE l \in same : TRUE, 0)
       ELSE IF Cardinality(RealLists(room)) >= MaxLists
            THEN Rejected(room, "too_many", None)
       ELSE Applied(PutList(room, op.list, NewList(op.name)), op.list, 0)

ListRename(room, op) ==
    LET row == room.lists[op.list]
    IN IF Stale(op.base, row.seq, row.name = op.name)
       THEN Rejected(room, "changed_meanwhile", None)
       ELSE IF \E l \in RealLists(room) \ {op.list} : room.lists[l].name = op.name
            THEN Rejected(room, "duplicate_name", None)
       ELSE AppliedList(PutListIfChanged(room, op.list, [row EXCEPT !.name = op.name]), op.list)

\* delete_list_locked: the items go first, one seq each.
ListDelete(room, op) ==
    LET doomed == ItemsIn(room, op.list)
    IN Applied([room EXCEPT
                  !.seq = @ + Cardinality(doomed) + 1,
                  !.items = [i \in Items |-> IF i \in doomed THEN None ELSE @[i]],
                  !.lists[op.list] = None,
                  !.gone = @ \cup doomed \cup {op.list}], None, 0)

-----------------------------------------------------------------------------
(* A list's tags and settings.                                             *)

WithoutTag(tags, tag) == Picked(tags, {n \in DOMAIN tags : tags[n] # tag})

\* The items of list l with tag among their tags.
Tagged(room, l, tag) == {i \in ItemsIn(room, l) : Contains(room.items[i].tags, tag)}

\* change_list_tag_locked, add
ListTagAdd(room, op) ==
    LET row == room.lists[op.list]
    IN IF op.tag \notin row.tags /\ Cardinality(row.tags) >= MaxTags
       THEN Rejected(room, "too_many", None)
       ELSE AppliedList(PutListIfChanged(room, op.list, [row EXCEPT !.tags = @ \cup {op.tag}]),
                        op.list)

\* Variant: the color stays behind.
ListTagRemoveOnly(room, op) ==
    AppliedList(PutListIfChanged(room, op.list, [room.lists[op.list] EXCEPT !.tags = @ \ {op.tag}]),
                op.list)

\* change_list_tag_locked, not add: the items keep theirs.
ListTagRemove(room, op) ==
    LET wanted == [room.lists[op.list] EXCEPT !.tags = @ \ {op.tag}, !.colored = @ \ {op.tag}]
    IN AppliedList(PutListIfChanged(room, op.list, wanted), op.list)

\* set_list_tag_color_locked; done tells whether a color is given or cleared.
ListTagColor(room, op) ==
    LET row == room.lists[op.list]
    IN IF op.tag \notin row.tags THEN Rejected(room, "unknown_tag", None)
       ELSE AppliedList(PutListIfChanged(room, op.list,
                           [row EXCEPT !.colored = IF op.done THEN @ \cup {op.tag}
                                                   ELSE @ \ {op.tag}]), op.list)

\* An item's tags with one renamed in place; of two copies the first stays.
RenamedTags(tags, tag, new) ==
    LET put == [n \in DOMAIN tags |-> IF tags[n] = tag THEN new ELSE tags[n]]
    IN  Picked(put, {n \in DOMAIN put : \A m \in 1..(n - 1) : put[m] # put[n]})

\* rename_list_tag_locked: the list's tags, its color, and the items that have it.
ListTagRename(room, op) ==
    LET row == room.lists[op.list]
        In(set) == IF op.tag \in set THEN (set \ {op.tag}) \cup {op.newTag} ELSE set
        rows == [i \in Tagged(room, op.list, op.tag) |->
                    [room.items[i] EXCEPT !.tags = RenamedTags(@, op.tag, op.newTag)]]
    IN CASE op.tag \notin row.tags -> Rejected(room, "unknown_tag", None)
         [] op.tag = op.newTag -> AppliedList(room, op.list)
         [] op.newTag \in row.tags \ {op.tag} -> Rejected(room, "duplicate_name", None)
         [] OTHER -> AppliedList(
                PutItems(PutList(room, op.list, [row EXCEPT !.tags = In(@), !.colored = In(@)]),
                         rows), op.list)

\* The tag that stays: the first in the list's order, then one the list lost.
FirstTag(row, tags) ==
    LET listed == ToSet(tags) \cap row.tags
    IN  IF listed # {} THEN Min(listed) ELSE Head(tags)

\* Variant: the items keep their tags when one is allowed.
SettingsOnly(room, op, wanted) == PutList(room, op.list, wanted)

\* Switching to one tag per item: each item keeps one (_keep_first_item_tag_locked).
PutSettings(room, op, wanted) ==
    LET row == room.lists[op.list]
        strip == IF "single" \in wanted.settings \ row.settings
                 THEN {i \in ItemsIn(room, op.list) : Len(room.items[i].tags) > 1} ELSE {}
    IN  PutItems(PutList(room, op.list, wanted),
                 [i \in strip |-> [room.items[i] EXCEPT !.tags = <<FirstTag(row, @)>>]])

\* update_list_tag_settings_locked and update_list_visibility_settings_locked:
\* what was not sent keeps its value.
ListSettings(room, op) ==
    LET row == room.lists[op.list]
        on == {f \in DOMAIN op.sent : op.sent[f]}
        wanted == [row EXCEPT !.settings = (@ \ DOMAIN op.sent) \cup on]
    IN AppliedList(IF wanted = row THEN room ELSE PutSettings(room, op, wanted), op.list)

-----------------------------------------------------------------------------
(* Ops on items.                                                           *)

NewItem(l, name, done, qty, tags) ==
    [list |-> l, name |-> name, done |-> done, qty |-> qty, tags |-> tags, seq |-> 0]

Named(room, l, name) == {i \in ItemsIn(room, l) : room.items[i].name = name}

\* Variant: a checked item of that name is not looked for.
AddWithoutRestore(room, op) ==
    IF \E i \in Named(room, op.list, op.name) : ~room.items[i].done
    THEN Rejected(room, "duplicate_active", None)
    ELSE AppliedItem(PutItem(room, op.item, NewItem(op.list, op.name, FALSE, 1, <<>>)),
                     op.item)

\* add_or_restore_item_locked: add, uncheck a checked one, or report an open one.
ItemAdd(room, op) ==
    LET same == Named(room, op.list, op.name)
        kept == CHOOSE i \in same : TRUE
    IN IF same # {}
       THEN IF room.items[kept].done
            THEN AppliedItem(PutItem(room, kept, [room.items[kept] EXCEPT !.done = FALSE]),
                             kept)
            ELSE Rejected(room, "duplicate_active", kept)
       ELSE IF Cardinality(ItemsIn(room, op.list)) >= MaxItems
            THEN Rejected(room, "too_many", None)
       ELSE AppliedItem(PutItem(room, op.item, NewItem(op.list, op.name, FALSE, 1, <<>>)),
                        op.item)

\* restore_deleted_item_locked: undo of a delete, as a new row.
ItemRestore(room, op) ==
    IF Named(room, op.list, op.name) # {} THEN Rejected(room, "undo_name_taken", None)
    ELSE IF Cardinality(ItemsIn(room, op.list)) >= MaxItems
         THEN Rejected(room, "too_many", None)
    ELSE AppliedItem(PutItem(room, op.item,
                             NewItem(op.list, op.name, op.done, op.qty, op.tags)), op.item)

\* item_set_done and update_item_done_locked.
ItemSetDone(room, op) ==
    LET row == room.items[op.item]
    IN IF Stale(op.base, row.seq, row.done = op.done)
       THEN Rejected(room, "changed_meanwhile", None)
       ELSE AppliedItem(PutItemIfChanged(room, op.item, [row EXCEPT !.done = op.done]), op.item)

\* Variant: a quantity goes as low as the deltas take it.
AddUnclamped(qty, delta) == qty + delta

\* Never below 1.
AddQuantity(qty, delta) == IF qty + delta < 1 THEN 1 ELSE qty + delta

\* adjust_item_quantity_locked
ItemQuantityDelta(room, op) ==
    LET row == room.items[op.item]
    IN AppliedItem(PutItemIfChanged(room, op.item,
                      [row EXCEPT !.qty = AddQuantity(@, op.qty)]), op.item)

\* item_edit and update_item_details_locked; a quantity that was not sent stays.
ItemEdit(room, op) ==
    LET row    == room.items[op.item]
        wanted == [row EXCEPT !.name = op.name,
                              !.qty  = IF op.qty = None THEN @ ELSE op.qty]
    IN IF Stale(op.base, row.seq, wanted = row)
       THEN Rejected(room, "changed_meanwhile", None)
       ELSE IF Named(room, op.list, op.name) \ {op.item} # {}
            THEN Rejected(room, "duplicate_name", None)
       ELSE AppliedItem(PutItemIfChanged(room, op.item, wanted), op.item)

\* toggle_item_active_tag_locked: without active it flips what is stored; in a
\* list with one tag per item the tag replaces the others.
ItemToggleTag(room, op) ==
    LET row    == room.items[op.item]
        has    == Contains(row.tags, op.tag)
        wanted == CASE op.done = FALSE \/ (op.done = None /\ has) -> WithoutTag(row.tags, op.tag)
                    [] OTHER -> IF "single" \in room.lists[op.list].settings THEN <<op.tag>>
                                ELSE IF has THEN row.tags ELSE Append(row.tags, op.tag)
    IN AppliedItem(PutItemIfChanged(room, op.item, [row EXCEPT !.tags = wanted]), op.item)

\* Deleting what is gone is not an error.
ItemDelete(room, op) ==
    IF op.item \notin ItemsIn(room, op.list) THEN Applied(room, None, 0)
    ELSE Applied([room EXCEPT !.seq = @ + 1, !.items[op.item] = None,
                              !.gone = @ \cup {op.item}], None, 0)

-----------------------------------------------------------------------------
(* One op.  Fields: type, list, item, name, done, qty, base, and scope (the*)
(* list of the share link it comes through, None for a member); tag and    *)
(* newTag, tags (of an item that is put back) and sent (settings).  A      *)
(* field that the type does not have, or that was not sent, is None.       *)

Op(type, scope, list, item, name, done, qty, base) ==
    [type |-> type, scope |-> scope, list |-> list, item |-> item,
     name |-> name, done |-> done, qty |-> qty, base |-> base,
     tag |-> None, newTag |-> None, tags |-> <<>>, sent |-> None]

NewItemTypes == {"item.add", "item.restore"}
SettingsTypes == {"list.tag_settings", "list.visibility"}
RowTypes     == {"item.set_done", "item.quantity_delta", "item.edit", "item.toggle_tag"}

\* SHARE_OP_TYPES: a share link does nothing to the room or to the list itself.
NotForShareLink(op) ==
    /\ op.scope # None
    /\ op.type \in {"room.rename", "list.create", "list.rename", "list.delete"}

\* _new_uid: a new row's uid must never have been used.
NewUidTaken(room, op) ==
    \/ op.type = "list.create" /\ UidInUse(room, op.list)
    \/ op.type \in NewItemTypes /\ UidInUse(room, op.item)

\* Variant: a share link reaches every list of its room.
ListMissing(room, op) ==
    op.type \notin {"room.rename", "list.create"} /\ room.lists[op.list] = None

\* OpScope.list_id: the list is gone, or not the one the share link opens.
ListUnavailable(room, op) ==
    /\ op.type \notin {"room.rename", "list.create"}
    /\ room.lists[op.list] = None \/ op.scope \notin {None, op.list}

\* _list_item_id: the item is gone, or in another list than the op names.
ItemNotFound(room, op) == op.type \in RowTypes /\ op.item \notin ItemsIn(room, op.list)

Handler(room, op) ==
    CASE op.type = "room.rename"         -> RoomRename(room, op)
      [] op.type = "list.create"         -> ListCreate(room, op)
      [] op.type = "list.rename"         -> ListRename(room, op)
      [] op.type = "list.delete"         -> ListDelete(room, op)
      [] op.type = "list.tag_add"        -> ListTagAdd(room, op)
      [] op.type = "list.tag_remove"     -> ListTagRemove(room, op)
      [] op.type = "list.tag_color"      -> ListTagColor(room, op)
      [] op.type = "list.tag_rename"     -> ListTagRename(room, op)
      [] op.type \in SettingsTypes       -> ListSettings(room, op)
      [] op.type = "item.add"            -> ItemAdd(room, op)
      [] op.type = "item.restore"        -> ItemRestore(room, op)
      [] op.type = "item.set_done"       -> ItemSetDone(room, op)
      [] op.type = "item.quantity_delta" -> ItemQuantityDelta(room, op)
      [] op.type = "item.edit"           -> ItemEdit(room, op)
      [] op.type = "item.toggle_tag"     -> ItemToggleTag(room, op)
      [] op.type = "item.delete"         -> ItemDelete(room, op)

\* _apply_locked: the checks in the order the handlers make them.
Outcome(room, op) ==
    IF NotForShareLink(op) THEN HttpError(room, "invalid_request")
    ELSE IF NewUidTaken(room, op) THEN HttpError(room, "invalid_request")
    ELSE IF ListUnavailable(room, op) THEN Rejected(room, "list_unavailable", None)
    ELSE IF ItemNotFound(room, op) THEN Rejected(room, "item_not_found", None)
    ELSE Handler(room, op)

\* What a member gets: the outcome with the room's seq after it.
AnswerOf(outcome) ==
    [status |-> outcome.status, code |-> outcome.code, uid |-> outcome.uid,
     cseq |-> outcome.cseq, seq |-> outcome.room.seq]

\* _answer_seq: through a share link it is the list's seq instead, which counts
\* pruned deletion records too.  ChangeFeed has it (ShareSeq); it is left out here.
AnswerTo(op, outcome) ==
    IF op.scope = None THEN AnswerOf(outcome) ELSE [AnswerOf(outcome) EXCEPT !.seq = None]
=============================================================================
