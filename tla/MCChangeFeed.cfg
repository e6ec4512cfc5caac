\* Every interleaving of writes, prunes and one page with its saved copy; two
\* lists, to tell a write to one from a write to the other.  Liveness, so no
\* symmetry.
CONSTANTS
    Lists = {l1, l2}
    Items = {i1}
    Values = {v1, v2}
    StartValues = {v1}
    NoRow = NoRow
    MaxSeq = 3
SPECIFICATION LiveSpec
INVARIANTS
    TypeOK
    CurrentCopyIsRoom
PROPERTIES
    KeepsCatchingUp
    ShareSeqFollowsList
