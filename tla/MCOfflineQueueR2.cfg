\* A tick queued behind a delta, and a rename by another device.
CONSTANTS
    Lists = {l1}
    Items = {i1}
    Names = {n1, n2}
    Tags = {1}
    MaxTags = 1
    None = None
    MaxItems = 1
    MaxLists = 1
    Tabs = {t1}
    OpIds = {o1, o2}
    OpTypes = {"item.quantity_delta", "item.set_done"}
    TheList = l1
    TheItem = i1
    MaxForeign = 1
    Faults = {}
    MaxFaults = 0
SPECIFICATION Spec
SYMMETRY Symmetry
PROPERTIES
    NoSilentOverwrite
CHECK_DEADLOCK FALSE
