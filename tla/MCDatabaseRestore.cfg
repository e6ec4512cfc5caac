\* One row is enough: the page keeps what the restored room never had.
CONSTANTS
    Lists = {l1}
    Items = {i1}
    Values = {v1, v2}
    StartValues = {v1}
    NoRow = NoRow
    MaxSeq = 4
SPECIFICATION RestoreSpec
INVARIANTS
    RestoreLeavesNoPhantom
