\* One tab: reloads, lost answers, refusals, sign-outs, discards, and another
\* device that writes the same row.
CONSTANTS
    Lists = {l1}
    Items = {i1}
    Names = {n1, n2}
    Tags = {1}
    MaxTags = 1
    None = None
    MaxItems = 1
    MaxLists = 1
    Tabs = {t1}
    OpIds = {o1, o2}
    OpTypes = {"item.quantity_delta", "item.edit"}
    TheList = l1
    TheItem = i1
    MaxForeign = 1
    Faults = {"close", "discard", "pause", "signOut", "refuse", "noAnswer", "401"}
    MaxFaults = 2
SPECIFICATION Spec
SYMMETRY Symmetry
INVARIANTS
    TypeOK
    CountedOnce
    AnsweredStaysShown
    ShownIsWaiting
CHECK_DEADLOCK FALSE
