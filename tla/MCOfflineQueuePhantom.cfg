\* Two tabs: a change made in one is sent by the other.
CONSTANTS
    Lists = {l1}
    Items = {i1}
    Names = {n1, n2}
    Tags = {1}
    MaxTags = 1
    None = None
    MaxItems = 1
    MaxLists = 1
    Tabs = {t1, t2}
    OpIds = {o1, o2}
    OpTypes = {"item.quantity_delta"}
    TheList = l1
    TheItem = i1
    MaxForeign = 0
    Faults = {}
    MaxFaults = 0
SPECIFICATION Spec
SYMMETRY Symmetry
INVARIANTS
    CountedOnce
CHECK_DEADLOCK FALSE
