---------------------------- MODULE SignInLimiter ----------------------------
(***************************************************************************)
(* The limit on sign-in attempts (src/sign_in_limiter.py,                  *)
(* api/sign_in_limit.py): time stamps in buckets, one bucket per slug, one *)
(* for all rooms and one for the admin.  An attempt takes a slot in each   *)
(* of its buckets; the password is checked outside the limiter's lock, and *)
(* a success gives the slots back.  The limiter lives as long as the       *)
(* process.                                                                *)
(***************************************************************************)
EXTENDS Integers, SequencesExt, SequenceFilter

CONSTANTS Slugs,         \* slugs that are tried, of rooms or not
          RoomLimit,     \* ROOM_LIMIT
          AllRoomsLimit, \* ALL_ROOMS_LIMIT
          AdminLimit,    \* ADMIN_LIMIT
          MaxBuckets,    \* MAX_BUCKETS
          Window,        \* WINDOW_SECONDS, in ticks
          Second,        \* ticks of the clock in a second
          MaxNow         \* bound: the clock stops there

\* The bound on the buckets is far from the number that can hold a live stamp:
\* every room's stamp is in the bucket of all rooms too.
ASSUME RoomForLiveBuckets == AllRoomsLimit + 2 <= MaxBuckets
ASSUME ClockTicks == {Second, Window, RoomLimit, AllRoomsLimit, AdminLimit} \subseteq Nat \ {0}
ASSUME BoundsAreNats == {MaxBuckets, MaxNow} \subseteq Nat

VARIABLES now,     \* the clock, in ticks
          buckets, \* the time stamps in each bucket; an absent bucket is empty
          order    \* the buckets present, in the order they were made (a dict)

limiter == <<buckets, order>>

AllRooms == "all rooms"
Admin == "admin"
Keys == Slugs \cup {AllRooms, Admin}

\* A bucket's key says of what kind it is.
ASSUME SlugsAreRooms == {AllRooms, Admin} \cap Slugs = {}

LimitOf(k) == IF k = AllRooms THEN AllRoomsLimit ELSE IF k = Admin THEN AdminLimit ELSE RoomLimit

\* reserve_room_sign_in and reserve_admin_sign_in: the buckets of an attempt.
KeysOf(target) == IF target = Admin THEN {Admin} ELSE {target, AllRooms}

\* _live: the stamps inside the window.
Live(stamps) == Picked(stamps, {n \in DOMAIN stamps : stamps[n] > now - Window})
Looked(b, keys) == [k \in Keys |-> IF k \in keys THEN Live(b[k]) ELSE b[k]]

\* Variant: an empty bucket stays.
PresentOrEmpty(b, o) == o

\* The buckets of o that are not empty in b: an empty one is deleted.
Present(b, o) == Picked(o, {n \in DOMAIN o : b[o[n]] # <<>>})

\* Variant: the wait is rounded down.
RetryAfterDown(b, full) ==
    LET ticks == {b[k][Len(b[k]) - LimitOf(k) + 1] + Window - now : k \in full}
    IN  Max({1, Max(ticks) \div Second})

\* The whole seconds to wait, for full buckets.
RetryAfter(b, full) ==
    LET ticks == {b[k][Len(b[k]) - LimitOf(k) + 1] + Window - now : k \in full}
    IN  Max({1, (Max(ticks) + Second - 1) \div Second})

\* _trim: first what has expired, then the oldest buckets.
Trim(b, o) ==
    LET fresh == IF Len(o) <= MaxBuckets THEN b ELSE Looked(b, Keys)
        left  == Present(fresh, o)
        keep  == IF Len(left) <= MaxBuckets THEN left
                 ELSE SubSeq(left, Len(left) - MaxBuckets + 1, Len(left))
    IN  /\ order' = keep
        /\ buckets' = [k \in Keys |-> IF Contains(keep, k) THEN fresh[k] ELSE <<>>]

\* The buckets as reserve reads them, and those that are full.
Read(target) == Looked(buckets, KeysOf(target))
Full(target) == {k \in KeysOf(target) : Len(Read(target)[k]) >= LimitOf(k)}

\* The buckets of an attempt that are made for it.
Made(b, target) ==
    LET asked == IF target = Admin THEN <<Admin>> ELSE <<target, AllRooms>>
    IN  Picked(asked, {n \in DOMAIN asked : b[asked[n]] = <<>>})

\* reserve, when no bucket is full
Take(target) ==
    LET b    == Read(target)
        kept == Present(b, order)
    IN  Trim([k \in Keys |-> IF k \in KeysOf(target) THEN Append(b[k], now) ELSE b[k]],
             kept \o Made(b, target))

\* reserve, when a bucket is full: it only forgets what has expired.
TakeNothing(target) ==
    /\ buckets' = Read(target)
    /\ order' = Present(Read(target), order)

\* Variant: the bucket's newest slot is given back, whoever took it.
GiveBackNewest(target, stamp) ==
    LET b == [k \in Keys |-> IF k \in KeysOf(target) /\ buckets[k] # <<>>
                             THEN Front(buckets[k]) ELSE buckets[k]]
    IN  buckets' = b /\ order' = Present(b, order)

\* release: one slot with the attempt's stamp in each of its buckets.
GiveBack(target, stamp) ==
    LET b == [k \in Keys |-> IF k \in KeysOf(target) THEN RemoveFirst(buckets[k], stamp)
                             ELSE buckets[k]]
    IN  buckets' = b /\ order' = Present(b, order)
=============================================================================
