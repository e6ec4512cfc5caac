\* Every pair of member ops on the lists and items of a room, in any order, with
\* retries, held ops and forgotten answers.
CONSTANTS
    Lists = {l1, l2}
    Items = {i1, i2}
    Names = {n1, n2}
    Tags = {1}
    MaxTags = 1
    None = None
    MaxItems = 2
    MaxLists = 2
    OpIds = {o1, o2}
    OpTypes = {"room.rename", "list.create", "list.rename", "list.delete", "item.add", "item.restore", "item.set_done", "item.edit",
               "item.quantity_delta", "item.toggle_tag", "item.delete"}
    ShareLinks = FALSE
    StartTagged = FALSE
    MaxHeld = 1
    MaxRuns = 2
SPECIFICATION Spec
SYMMETRY Symmetry
INVARIANTS
    TypeOK
    TablesOK
PROPERTIES
    NeverOverwritesUnseen
    SeqTellsEveryChange
    RetriesChangeNothing
