\* Two rooms that may share an id, two tokens and one stream.
CONSTANTS
    Slugs = {s1, s2}
    Passwords = {p1, p2}
    Requests = {r1, r2}
    None = None
    MaxSessions = 1
    MaxVersion = 2
    Streams = {st1}
    MaxSubscriptions = 1
    MaxSeq = 1
SPECIFICATION Spec
INVARIANTS
    TypeOK
    TokenProvesPassword
    SlotsAreHeld
    AsleepIsCurrent
PROPERTIES
    PasswordGuardsRoom
    SessionsEndForAReason
    RevokedEnds
CHECK_DEADLOCK FALSE
