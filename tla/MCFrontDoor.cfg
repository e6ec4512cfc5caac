\* Four requests at two ticks a second: failures fill the buckets of a room, of
\* all rooms and of the admin, and an invitation ends while rooms are made.
CONSTANTS
    Slugs = {r1, r2, r3}
    RoomLimit = 1
    AllRoomsLimit = 2
    AdminLimit = 1
    MaxBuckets = 4
    Window = 3
    Second = 2
    MaxNow = 4
    Requests = {q1, q2, q3, q4}
    Invitations = {i1}
    None = None
    Lifetime = 1
    Retention = 1
    MaxRooms = 1
    AdminSession = 3
SPECIFICATION Spec
SYMMETRY Symmetry
INVARIANTS
    TypeOK
    SlotsAreAttempts
    RetryAfterSuffices
    InvitationHolds
CHECK_DEADLOCK FALSE
