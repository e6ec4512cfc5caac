\* Two tabs that share the stored queue; at any point one of them closes, loses an
\* answer, discards a change, is refused or signed out.
CONSTANTS
    Lists = {l1}
    Items = {i1}
    Names = {n1}
    Tags = {1}
    MaxTags = 1
    None = None
    MaxItems = 1
    MaxLists = 1
    Tabs = {t1, t2}
    OpIds = {o1, o2}
    OpTypes = {"item.quantity_delta", "item.edit"}
    TheList = l1
    TheItem = i1
    MaxForeign = 0
    Faults = {"close", "discard", "refuse", "noAnswer", "401"}
    MaxFaults = 1
SPECIFICATION Spec
SYMMETRY Symmetry
INVARIANTS
    OpIdMeansOneBody
PROPERTIES
    KeepsPromise
CHECK_DEADLOCK FALSE
