\* Ops on tags and settings, by members and through share links, in a room at
\* its limits: one list, one item and one tag.
CONSTANTS
    Lists = {l1, l2}
    Items = {i1, i2}
    Names = {n1, n2}
    Tags = {1, 2}
    MaxTags = 1
    None = None
    MaxItems = 1
    MaxLists = 1
    OpIds = {o1, o2}
    OpTypes = {"list.tag_add", "list.tag_remove", "list.tag_color", "list.tag_rename",
               "list.tag_settings", "list.visibility", "item.toggle_tag", "item.add",
               "item.restore", "item.delete", "list.create", "list.rename", "room.rename"}
    ShareLinks = TRUE
    StartTagged = TRUE
    MaxHeld = 0
    MaxRuns = 1
SPECIFICATION Spec
SYMMETRY ListSymmetry
INVARIANTS
    TagsOK
PROPERTIES
    ShareStaysInList
    SingleModeKept
