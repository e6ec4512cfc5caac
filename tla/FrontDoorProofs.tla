--------------------------- MODULE FrontDoorProofs ---------------------------
(***************************************************************************)
(* Proofs about FrontDoor, for any number of requests, invitations and     *)
(* rooms and any length of time.                                           *)
(*                                                                         *)
(* An invitation makes at most its number of rooms, and none once it was   *)
(* revoked or had expired, however the requests that use it overlap, and   *)
(* also when its record is deleted while they run.  The argument is that   *)
(* of the transaction: while there is a record its count is the number of  *)
(* rooms, and its expiry and its revocation are those of the token.        *)
(*                                                                         *)
(* The limiter counts what it should: each live stamp stands in a bucket   *)
(* as often as attempts of that time count in it.  So there is a place for *)
(* each attempt, no live bucket is ever dropped, and a refusal names a     *)
(* wait after which too few of the attempts ahead are left to refuse for.  *)
(***************************************************************************)
EXTENDS FrontDoor, SequenceFilterProofs, FiniteSetTheorems, TLAPS

\* The record of a request, whatever it holds.
Fields == {"pc", "target", "at", "retryAfter", "ahead", "invalid"}
IsRequest(r) == r = [field \in Fields |-> r[field]]

\* What a record of an invitation says of its token.
RowTells(i) ==
    /\ issued[i] \in Int
    /\ invitations[i].expires = issued[i] \div Second + Lifetime
    /\ invitations[i].revokedAt \in Int \cup {None}
    /\ i \in revoked => invitations[i].revokedAt # None
    /\ invitations[i].rooms = Cardinality(RoomsOf(i))

Shape ==
    /\ now \in Int
    /\ invitations \in [Invitations -> InvitationRow \cup {None}]
    /\ issued \in [Invitations -> Int \cup {None}]
    /\ reqs = [q \in Requests |-> reqs[q]]
    /\ \A q \in Requests :
          /\ IsRequest(reqs[q])
          /\ reqs[q].pc \in {"hashing", "created"} =>
                /\ reqs[q].target \in Invitations
                /\ issued[reqs[q].target] # None
    /\ \A i \in revoked : i \in Invitations => issued[i] # None

DoorInv ==
    /\ Shape
    /\ InvitationHolds
    /\ \A i \in Invitations : invitations[i] # None => RowTells(i)

-----------------------------------------------------------------------------
LEMMA SecondsIsInt ==
    ASSUME NEW n \in Int
    PROVE  n \div Second \in Int
<1>1. Second \in Nat \ {0}
  BY ClockTicks
<1> QED BY <1>1

LEMMA RoomsAreFinite ==
    ASSUME NEW i
    PROVE  /\ IsFiniteSet(RoomsOf(i))
           /\ Cardinality(RoomsOf(i)) \in Nat
<1>1. RoomsOf(i) \subseteq Requests
  BY DEF RoomsOf
<1> QED BY <1>1, FinitelyMany, FS_Subset, FS_CardinalityType

\* A request that makes no room: it was not made one by this step and was none
\* before.
LEMMA RequestStep ==
    ASSUME Shape, NEW q \in Requests, NEW r, IsRequest(r), reqs' = [reqs EXCEPT ![q] = r],
           reqs[q].pc # "created", r.pc # "created",
           issued' = issued, invitations' = invitations, revoked' = revoked, now' = now,
           r.pc = "hashing" => r.target \in Invitations /\ issued[r.target] # None
    PROVE  Shape' /\ \A i : RoomsOf(i)' = RoomsOf(i) /\ \A p \in RoomsOf(i) : reqs'[p] = reqs[p]
<1>1. /\ reqs'[q] = r
      /\ \A p \in Requests \ {q} : reqs'[p] = reqs[p]
      /\ reqs' = [p \in Requests |-> reqs'[p]]
  BY DEF Shape
<1>2. ASSUME NEW i
      PROVE  RoomsOf(i)' = RoomsOf(i) /\ \A p \in RoomsOf(i) : reqs'[p] = reqs[p]
  BY <1>1 DEF RoomsOf
<1>3. Shape'
  BY <1>1 DEF Shape
<1> QED BY <1>2, <1>3

LEMMA RoomsStay ==
    ASSUME DoorInv, Shape', issued' = issued, invitations' = invitations, revoked' = revoked,
           \A i : RoomsOf(i)' = RoomsOf(i) /\ \A p \in RoomsOf(i) : reqs'[p] = reqs[p]
    PROVE  DoorInv'
<1>1. InvitationHolds'
  BY DEF DoorInv, InvitationHolds
<1>2. ASSUME NEW i \in Invitations, invitations'[i] # None
      PROVE  RowTells(i)'
  BY <1>2 DEF RowTells, DoorInv
<1> QED BY <1>1, <1>2 DEF DoorInv

-----------------------------------------------------------------------------
LEMMA AttemptKeeps ==
    ASSUME DoorInv, NEW q \in Requests, NEW target, Attempt(q, target)
    PROVE  DoorInv'
<1>1. IsRequest(reqs[q]) /\ reqs[q].pc = "new" /\ Shape
  BY DEF DoorInv, Shape, Attempt
<1>2. PICK r : /\ reqs' = [reqs EXCEPT ![q] = r]
               /\ IsRequest(r) /\ r.pc \in {"checking", "refused"}
  <2>1. CASE Full(target) = {}
    <3> DEFINE r == [reqs[q] EXCEPT !.pc = "checking", !.target = target, !.at = now]
    <3>1. reqs' = [reqs EXCEPT ![q] = r]
      BY <2>1 DEF Attempt
    <3>2. IsRequest(r) /\ r.pc = "checking"
      BY <1>1 DEF IsRequest, Fields
    <3> QED BY <3>1, <3>2
  <2>2. CASE Full(target) # {}
    <3> DEFINE after == RetryAfter(Read(target), Full(target))
    <3> DEFINE ahead == {p \in Requests : reqs[p].pc \in {"checking", "failed"}}
    <3> DEFINE r == [reqs[q] EXCEPT !.pc = "refused", !.target = target, !.at = now,
                                    !.retryAfter = after, !.ahead = ahead]
    <3>1. reqs' = [reqs EXCEPT ![q] = r]
      BY <2>2 DEF Attempt
    <3> HIDE DEF after, ahead
    <3>2. IsRequest(r) /\ r.pc = "refused"
      BY <1>1 DEF IsRequest, Fields
    <3> QED BY <3>1, <3>2
  <2> QED BY <2>1, <2>2
<1>3. issued' = issued /\ invitations' = invitations /\ revoked' = revoked /\ now' = now
  BY DEF Attempt, invites
<1> QED BY <1>1, <1>2, <1>3, RequestStep, RoomsStay

LEMMA FailsKeeps ==
    ASSUME DoorInv, NEW q \in Requests, Fails(q)
    PROVE  DoorInv'
<1> DEFINE r == [reqs[q] EXCEPT !.pc = "failed"]
<1>1. IsRequest(reqs[q]) /\ reqs[q].pc = "checking" /\ Shape
  BY DEF DoorInv, Shape, Fails
<1>2. IsRequest(r) /\ r.pc = "failed"
  BY <1>1 DEF IsRequest, Fields
<1>3. reqs' = [reqs EXCEPT ![q] = r]
  BY DEF Fails
<1> HIDE DEF r
<1>4. issued' = issued /\ invitations' = invitations /\ revoked' = revoked /\ now' = now
  BY DEF Fails, invites
<1> QED BY <1>1, <1>2, <1>3, <1>4, RequestStep, RoomsStay

LEMMA FinishedIs == IsRequest(Finished) /\ Finished.pc = "done"
BY DEF IsRequest, Fields, Finished, NewRequest

LEMMA SucceedsKeeps ==
    ASSUME DoorInv, NEW q \in Requests, Succeeds(q)
    PROVE  DoorInv'
<1>1. reqs[q].pc = "checking" /\ Shape /\ reqs' = [reqs EXCEPT ![q] = Finished]
  BY DEF DoorInv, Succeeds
<1>2. issued' = issued /\ invitations' = invitations /\ revoked' = revoked /\ now' = now
  BY DEF Succeeds, invites
<1> QED BY <1>1, <1>2, FinishedIs, RequestStep, RoomsStay

\* The first look at the invitation: there is one, so it was given out.
LEMMA StartRoomKeeps ==
    ASSUME DoorInv, NEW q \in Requests, NEW i \in Invitations, StartRoom(q, i)
    PROVE  DoorInv'
<1> DEFINE r == [reqs[q] EXCEPT !.pc = "hashing", !.target = i]
<1>1. IsRequest(reqs[q]) /\ reqs[q].pc = "new" /\ Shape
  BY DEF DoorInv, Shape, StartRoom
<1>2. IsRequest(r) /\ r.pc = "hashing" /\ r.target = i
  BY <1>1 DEF IsRequest, Fields
<1>3. \/ reqs' = [reqs EXCEPT ![q] = Finished]
      \/ Active(i) /\ reqs' = [reqs EXCEPT ![q] = r]
  BY DEF StartRoom
<1> HIDE DEF r
<1>4. issued' = issued /\ invitations' = invitations /\ revoked' = revoked /\ now' = now
  BY DEF StartRoom, invites
<1>5. CASE reqs' = [reqs EXCEPT ![q] = Finished]
  BY <1>1, <1>4, <1>5, FinishedIs, RequestStep, RoomsStay
<1>6. CASE Active(i) /\ reqs' = [reqs EXCEPT ![q] = r]
  <2>1. issued[i] # None
    BY <1>6, NoneIsNoTime DEF Active, DoorInv, RowTells
  <2> QED BY <1>1, <1>2, <1>4, <1>6, <2>1, RequestStep, RoomsStay
<1> QED BY <1>3, <1>5, <1>6

\* A room is made: the count grows by the one room, and the token is still good.
LEMMA FinishRoomKeeps ==
    ASSUME DoorInv, NEW q \in Requests, FinishRoom(q)
    PROVE  DoorInv'
<1>0. PICK i \in Invitations : i = reqs[q].target
  BY DEF DoorInv, Shape, FinishRoom
<1>1. /\ IsRequest(reqs[q]) /\ reqs[q].pc = "hashing" /\ Shape
      /\ i = reqs[q].target /\ i \in Invitations /\ issued[i] # None
  BY <1>0 DEF DoorInv, Shape, FinishRoom
<1>2. CASE ~ActiveInTransaction(i)
  <2>1. reqs' = [reqs EXCEPT ![q] = Finished] /\ invitations' = invitations
    BY <1>1, <1>2 DEF FinishRoom
  <2>2. issued' = issued /\ revoked' = revoked /\ now' = now
    BY DEF FinishRoom
  <2> QED BY <1>1, <2>1, <2>2, FinishedIs, RequestStep, RoomsStay
<1>3. CASE ActiveInTransaction(i)
  <2> DEFINE invalid == i \in revoked \/ Seconds >= issued[i] \div Second + Lifetime
  <2> DEFINE r == [reqs[q] EXCEPT !.pc = "created", !.at = now, !.invalid = invalid]
  <2>0. /\ invitations' = [invitations EXCEPT ![i].rooms = invitations[i].rooms + 1]
        /\ reqs' = [reqs EXCEPT ![q] = r]
        /\ issued' = issued /\ revoked' = revoked /\ now' = now
    BY <1>1, <1>3 DEF FinishRoom
  <2>1. /\ invitations[i] # None /\ invitations[i].revokedAt = None
        /\ invitations[i].expires > Seconds /\ invitations[i].rooms < MaxRooms
        /\ RowTells(i) /\ invitations[i] \in InvitationRow
    BY <1>1, <1>3 DEF ActiveInTransaction, Active, DoorInv, Shape
  <2>2. ~invalid
    <3>1. issued[i] \div Second \in Int /\ Seconds \in Int /\ Lifetime \in Int
      BY <1>1, <2>1, SecondsIsInt, Durations DEF RowTells, Seconds, Shape
    <3> QED BY <2>1, <3>1 DEF RowTells
  <2> HIDE DEF invalid
  <2>3. IsRequest(r) /\ r.pc = "created" /\ r.target = i /\ ~r.invalid
    BY <1>1, <2>2 DEF IsRequest, Fields
  <2> HIDE DEF r
  <2>4. /\ reqs'[q] = r
        /\ \A p \in Requests \ {q} : reqs'[p] = reqs[p]
        /\ reqs' = [p \in Requests |-> reqs'[p]]
    BY <1>1, <2>0 DEF Shape
  <2>5. RoomsOf(i)' = RoomsOf(i) \cup {q} /\ q \notin RoomsOf(i)
    BY <1>1, <2>3, <2>4 DEF RoomsOf
  <2>6. \A j : j # i => RoomsOf(j)' = RoomsOf(j)
    BY <1>1, <2>3, <2>4 DEF RoomsOf
  <2>7. Cardinality(RoomsOf(i)') = Cardinality(RoomsOf(i)) + 1
    BY <2>5, RoomsAreFinite, FS_AddElement
  <2>8. invitations[i].rooms \in Nat /\ invitations[i].expires \in Int
    BY <2>1 DEF InvitationRow
  <2>9. /\ invitations'[i] \in InvitationRow
        /\ invitations'[i].expires = invitations[i].expires
        /\ invitations'[i].revokedAt = invitations[i].revokedAt
        /\ invitations'[i].rooms = invitations[i].rooms + 1
        /\ \A j \in Invitations \ {i} : invitations'[j] = invitations[j]
        /\ invitations' \in [Invitations -> InvitationRow \cup {None}]
    BY <1>1, <2>0, <2>1, <2>8 DEF Shape, InvitationRow
  <2>10. Shape'
    BY <1>1, <2>0, <2>3, <2>4, <2>9 DEF Shape
  <2>11. RowTells(i)'
    BY <2>0, <2>1, <2>7, <2>9 DEF RowTells
  <2>12. ASSUME NEW j \in Invitations, j # i, invitations'[j] # None
         PROVE  RowTells(j)'
    BY <2>0, <2>6, <2>9, <2>12 DEF RowTells, DoorInv
  <2>13. InvitationHolds'
    <3>1. Cardinality(RoomsOf(i)') <= MaxRooms
      BY <2>1, <2>7, <2>8, Durations DEF RowTells
    <3>2. \A p \in RoomsOf(i)' : ~reqs'[p].invalid
      BY <1>1, <2>3, <2>4, <2>5 DEF DoorInv, InvitationHolds, RoomsOf
    <3>3. ASSUME NEW j \in Invitations, j # i
          PROVE  /\ Cardinality(RoomsOf(j)') <= MaxRooms
                 /\ \A p \in RoomsOf(j)' : ~reqs'[p].invalid
      BY <1>1, <2>4, <2>6, <3>3 DEF DoorInv, InvitationHolds, RoomsOf
    <3> QED BY <3>1, <3>2, <3>3 DEF InvitationHolds
  <2> QED BY <2>10, <2>11, <2>12, <2>13 DEF DoorInv
<1> QED BY <1>2, <1>3

-----------------------------------------------------------------------------
\* A step of the admin or the clock: the requests stay.
LEMMA RowsStep ==
    ASSUME DoorInv, UNCHANGED reqs, Shape',
           \A i \in Invitations : invitations'[i] # None => RowTells(i)'
    PROVE  DoorInv'
<1>1. \A i : RoomsOf(i)' = RoomsOf(i)
  BY DEF RoomsOf
<1>2. InvitationHolds'
  BY <1>1 DEF DoorInv, InvitationHolds
<1> QED BY <1>2 DEF DoorInv

\* No room was made with a token that was never given out.
LEMMA IssueKeeps ==
    ASSUME DoorInv, NEW i \in Invitations, Issue(i)
    PROVE  DoorInv'
<1> DEFINE row == [expires |-> Seconds + Lifetime, revokedAt |-> None, rooms |-> 0]
<1>0. /\ Shape /\ issued[i] = None
      /\ invitations' = [invitations EXCEPT ![i] = row]
      /\ issued' = [issued EXCEPT ![i] = now]
      /\ UNCHANGED <<now, revoked, reqs>>
  BY DEF DoorInv, Issue
<1>1. row \in InvitationRow
  BY <1>0, SecondsIsInt, Durations DEF Shape, Seconds, InvitationRow
<1>2. now # None /\ now \in Int
  BY <1>0, NoneIsNoTime DEF Shape
<1>3. RoomsOf(i) = {} /\ Cardinality(RoomsOf(i)) = 0
  BY <1>0, FS_EmptySet DEF Shape, RoomsOf
<1>4. i \notin revoked
  BY <1>0 DEF Shape
<1> HIDE DEF row
<1>5. Shape'
  BY <1>0, <1>1, <1>2 DEF Shape
<1>6. \A j : RoomsOf(j)' = RoomsOf(j)
  BY <1>0 DEF RoomsOf
<1>7. RowTells(i)'
  <2>1. invitations'[i] = row /\ issued'[i] = now
    BY <1>0 DEF Shape
  <2>2. /\ row.expires = now \div Second + Lifetime
        /\ row.revokedAt = None
        /\ row.rooms = 0
    BY DEF row, Seconds
  <2>3. i \notin revoked'
    BY <1>0, <1>4
  <2>4. Cardinality(RoomsOf(i)') = 0
    BY <1>3, <1>6
  <2> QED BY <1>2, <2>1, <2>2, <2>3, <2>4 DEF RowTells
<1>8. ASSUME NEW j \in Invitations, j # i, invitations'[j] # None
      PROVE  RowTells(j)'
  <2>1. invitations'[j] = invitations[j] /\ issued'[j] = issued[j]
    BY <1>0, <1>8 DEF Shape
  <2> QED BY <1>0, <1>6, <1>8, <2>1 DEF RowTells, DoorInv
<1> QED BY <1>0, <1>5, <1>7, <1>8, RowsStep

\* Records go, with their tokens kept from being given out again.
LEMMA PruneKeeps ==
    ASSUME DoorInv, Prune, UNCHANGED <<now, issued, revoked, reqs>>
    PROVE  DoorInv'
<1>1. /\ \A i \in Invitations : invitations'[i] \in {invitations[i], None}
      /\ invitations' \in [Invitations -> InvitationRow \cup {None}]
  BY DEF Prune, DoorInv, Shape
<1>2. Shape'
  BY <1>1 DEF DoorInv, Shape
<1>3. \A i : RoomsOf(i)' = RoomsOf(i)
  BY DEF RoomsOf
<1>4. ASSUME NEW i \in Invitations, invitations'[i] # None
      PROVE  RowTells(i)'
  BY <1>1, <1>3, <1>4 DEF RowTells, DoorInv
<1> QED BY <1>2, <1>4, RowsStep

LEMMA RevokeKeeps ==
    ASSUME DoorInv, NEW i \in Invitations, Revoke(i)
    PROVE  DoorInv'
<1>0. /\ Shape /\ invitations[i] # None /\ RowTells(i)
      /\ invitations' = [invitations EXCEPT ![i].revokedAt = Seconds]
      /\ revoked' = revoked \cup {i}
      /\ UNCHANGED <<now, issued, reqs>>
  BY DEF DoorInv, Revoke
<1>1. Seconds \in Int /\ Seconds # None
  BY <1>0, SecondsIsInt, NoneIsNoTime DEF Shape, Seconds
<1>2. /\ invitations' \in [Invitations -> InvitationRow \cup {None}]
      /\ \A j \in Invitations \ {i} : invitations'[j] = invitations[j]
      /\ invitations'[i].expires = invitations[i].expires
      /\ invitations'[i].rooms = invitations[i].rooms
      /\ invitations'[i].revokedAt = Seconds
  <2>1. invitations[i] \in InvitationRow
    BY <1>0 DEF Shape
  <2> DEFINE s == Seconds
  <2>2. s \in Int
    BY <1>1
  <2>3. invitations' = [invitations EXCEPT ![i].revokedAt = s]
    BY <1>0
  <2> HIDE DEF s
  <2>4. /\ invitations' \in [Invitations -> InvitationRow \cup {None}]
        /\ \A j \in Invitations \ {i} : invitations'[j] = invitations[j]
        /\ invitations'[i].expires = invitations[i].expires
        /\ invitations'[i].rooms = invitations[i].rooms
        /\ invitations'[i].revokedAt = s
    BY <1>0, <2>1, <2>2, <2>3 DEF Shape, InvitationRow
  <2> QED BY <2>4 DEF s
<1>3. \A j : RoomsOf(j)' = RoomsOf(j)
  BY <1>0 DEF RoomsOf
<1>4. issued[i] # None
  BY <1>0, NoneIsNoTime DEF RowTells
<1>5. Shape'
  BY <1>0, <1>2, <1>4 DEF Shape
<1>6. RowTells(i)'
  BY <1>0, <1>1, <1>2, <1>3 DEF RowTells
<1>7. ASSUME NEW j \in Invitations, j # i, invitations'[j] # None
      PROVE  RowTells(j)'
  BY <1>0, <1>2, <1>3, <1>7 DEF RowTells, DoorInv
<1> QED BY <1>0, <1>5, <1>6, <1>7, RowsStep

\* A step of the clock, the admin's cookie or the limiter.
LEMMA InvitationsStay ==
    ASSUME DoorInv, UNCHANGED <<invitations, issued, revoked, reqs>>, now' \in Int
    PROVE  DoorInv'
<1>1. Shape'
  BY DEF DoorInv, Shape
<1>2. \A i : RoomsOf(i)' = RoomsOf(i)
  BY DEF RoomsOf
<1>3. ASSUME NEW i \in Invitations, invitations'[i] # None
      PROVE  RowTells(i)'
  BY <1>2, <1>3 DEF RowTells, DoorInv
<1> QED BY <1>1, <1>3, RowsStep

-----------------------------------------------------------------------------
LEMMA DoorInit ==
    ASSUME Init
    PROVE  DoorInv
<1>1. IsRequest(NewRequest) /\ NewRequest.pc = "new"
  BY DEF IsRequest, Fields, NewRequest
<1>2. \A q \in Requests : reqs[q] = NewRequest
  BY DEF Init
<1>3. Shape
  BY <1>1, <1>2 DEF Init, Shape
<1>4. \A i : RoomsOf(i) = {}
  BY <1>1, <1>2 DEF RoomsOf
<1>5. InvitationHolds
  BY <1>4, FS_EmptySet, Durations DEF InvitationHolds
<1>6. \A i \in Invitations : invitations[i] = None
  BY DEF Init
<1> QED BY <1>3, <1>5, <1>6 DEF DoorInv

LEMMA DoorNext ==
    ASSUME DoorInv, [Next]_vars
    PROVE  DoorInv'
<1>0. now \in Int
  BY DEF DoorInv, Shape
<1>1. ASSUME NEW q \in Requests, NEW target, Attempt(q, target)
      PROVE  DoorInv'
  BY <1>1, AttemptKeeps
<1>2. ASSUME NEW q \in Requests, Fails(q) \/ Succeeds(q) \/ FinishRoom(q)
      PROVE  DoorInv'
  BY <1>2, FailsKeeps, SucceedsKeeps, FinishRoomKeeps
<1>3. ASSUME NEW q \in Requests, NEW i \in Invitations, StartRoom(q, i)
      PROVE  DoorInv'
  BY <1>3, StartRoomKeeps
<1>4. ASSUME NEW i \in Invitations, Issue(i) \/ Revoke(i)
      PROVE  DoorInv'
  BY <1>4, IssueKeeps, RevokeKeeps
<1>5. ASSUME NEW i \in Invitations, IssueListed(i)
      PROVE  DoorInv'
  BY <1>5, PruneKeeps DEF IssueListed
<1>6. CASE List
  BY <1>6, PruneKeeps DEF List
<1>7. CASE AdminSignsOut \/ Tick
  BY <1>0, <1>7, InvitationsStay DEF AdminSignsOut, Tick, invites
<1>8. CASE UNCHANGED vars
  BY <1>0, <1>8, InvitationsStay DEF vars, invites
<1> QED BY <1>1, <1>2, <1>3, <1>4, <1>5, <1>6, <1>7, <1>8 DEF Next

\* The inductive invariant of the invitations.
THEOREM DoorInvariant == Spec => []DoorInv
<1>1. Init => DoorInv
  BY DoorInit
<1>2. DoorInv /\ [Next]_vars => DoorInv'
  BY DoorNext
<1> QED BY <1>1, <1>2, PTL DEF Spec

\* An invitation makes no more rooms than it may, and none when it is over,
\* however the requests that use it overlap.
THEOREM InvitationsHold == Spec => []InvitationHolds
<1>1. DoorInv => InvitationHolds
  BY DEF DoorInv
<1> QED BY <1>1, DoorInvariant, PTL

-----------------------------------------------------------------------------
(* The limiter.                                                            *)

\* Every bucket has a limit.
LEMMA LimitIs ==
    ASSUME NEW k \in Keys
    PROVE  LimitOf(k) \in Nat \ {0}
BY ClockTicks DEF LimitOf

\* An attempt at a room is in its bucket and that of all rooms.
LEMMA KeysOfIs ==
    ASSUME NEW target \in Slugs \cup {Admin}
    PROVE  /\ KeysOf(target) \subseteq Keys
           /\ \A k \in KeysOf(target) \cap Slugs : target = k /\ AllRooms \in KeysOf(target)
           /\ IsFiniteSet(KeysOf(target))
<1>1. KeysOf(target) \subseteq Keys
  BY DEF KeysOf, Keys
<1>2. \A k \in KeysOf(target) \cap Slugs : target = k /\ AllRooms \in KeysOf(target)
  BY SlugsAreRooms DEF KeysOf
<1>3. IsFiniteSet({target}) /\ IsFiniteSet({Admin})
  BY FS_Singleton
<1>4. IsFiniteSet({target} \cup {AllRooms}) /\ {target, AllRooms} = {target} \cup {AllRooms}
  BY <1>3, FS_AddElement
<1> QED BY <1>1, <1>2, <1>3, <1>4 DEF KeysOf

\* What has expired is forgotten; of what has not, as many stay.
LEMMA LiveIs ==
    ASSUME now \in Nat, NEW s, UpTo(s, now)
    PROVE  /\ UpTo(Live(s), now)
           /\ Len(Live(s)) <= Len(s)
           /\ \A n \in 1..Len(Live(s)) : Live(s)[n] > now - Window
           /\ \A e \in Int : e > now - Window =>
                 Cardinality(Slots(Live(s), e)) = Cardinality(Slots(s, e))
<1> DEFINE places == {n \in DOMAIN s : s[n] > now - Window}
<1>0. s \in Seq(Nat) /\ places \in SUBSET DOMAIN s
  BY DEF UpTo
<1>1. Live(s) = Picked(s, places)
  BY DEF Live
<1>2. UpTo(Live(s), now) /\ Len(Live(s)) <= Len(s)
  BY <1>0, <1>1, PickedUpTo
<1>3. \A n \in 1..Len(Live(s)) : Live(s)[n] > now - Window
  <2>1. \A n \in 1..Len(Live(s)) : Nth(places, n) \in places /\ Live(s)[n] = s[Nth(places, n)]
    BY <1>0, <1>1, PickedElements
  <2> QED BY <2>1
<1>4. ASSUME NEW e \in Int, e > now - Window
      PROVE  Cardinality(Slots(Live(s), e)) = Cardinality(Slots(s, e))
  <2>1. Slots(s, e) \cap places = Slots(s, e)
    BY <1>4 DEF Slots
  <2>2. Cardinality(Slots(Picked(s, places), e)) = Cardinality(Slots(s, e) \cap places)
    BY <1>0, PickedCount
  <2> QED BY <1>1, <2>1, <2>2
<1> QED BY <1>2, <1>3, <1>4

-----------------------------------------------------------------------------
\* A request whose attempt counts in bucket k, and those that came at a time.
Counting(rq, k) == {p \in Requests : /\ rq[p].pc \in {"checking", "failed"}
                                     /\ k \in KeysOf(rq[p].target)}
Attempts(rq, k, e) == {p \in Counting(rq, k) : rq[p].at = e}

\* What counts in a bucket after the time c.
Since(rq, k, c) == {p \in Counting(rq, k) : rq[p].at > c}

\* Only finitely many attempts count.
LEMMA CountingIsFinite ==
    ASSUME NEW rq, NEW k, NEW e, NEW c
    PROVE  /\ IsFiniteSet(Counting(rq, k)) /\ IsFiniteSet(Attempts(rq, k, e))
           /\ IsFiniteSet(Since(rq, k, c))
           /\ Cardinality(Attempts(rq, k, e)) \in Nat
           /\ Cardinality(Since(rq, k, c)) \in Nat
<1>1. Counting(rq, k) \in SUBSET Requests /\ Attempts(rq, k, e) \in SUBSET Requests
      /\ Since(rq, k, c) \in SUBSET Requests
  BY DEF Counting, Attempts, Since
<1> QED BY <1>1, FinitelyMany, FS_Subset, FS_CardinalityType

\* Where the slots of each stamp are the attempts at that time, each attempt has
\* a slot of its own.
LEMMA AttemptsFitIn ==
    ASSUME NEW s \in Seq(Nat), NEW rq, NEW k, NEW c \in Int,
           \A p \in Counting(rq, k) : rq[p].at \in Nat,
           \A e \in Int : e > c => Cardinality(Slots(s, e)) = Cardinality(Attempts(rq, k, e))
    PROVE  Cardinality(Since(rq, k, c)) <= Cardinality({n \in 1..Len(s) : s[n] > c})
<1> DEFINE S == Since(rq, k, c)
           T == {n \in 1..Len(s) : s[n] > c}
           pairing(e) == CHOOSE f : f \in Bijection(Attempts(rq, k, e), Slots(s, e))
           g == [p \in S |-> pairing(rq[p].at)[p]]
<1>1. ASSUME NEW e \in Int, e > c
      PROVE  pairing(e) \in Bijection(Attempts(rq, k, e), Slots(s, e))
  <2>1. ExistsBijection(Attempts(rq, k, e), Slots(s, e))
    BY <1>1, CountingIsFinite, SlotsAreFinite, FS_SameCardinalityBij
  <2> QED BY <2>1 DEF ExistsBijection
<1>2. ASSUME NEW p \in S
      PROVE  /\ rq[p].at \in Int /\ rq[p].at > c
             /\ p \in Attempts(rq, k, rq[p].at)
             /\ g[p] \in Slots(s, rq[p].at)
             /\ g[p] = pairing(rq[p].at)[p]
  <2>1. rq[p].at \in Int /\ rq[p].at > c /\ p \in Attempts(rq, k, rq[p].at)
    BY <1>2 DEF Since, Attempts
  <2>2. g[p] = pairing(rq[p].at)[p]
    BY <1>2
  <2>3. PICK e \in Int : e = rq[p].at
    BY <2>1
  <2>4. pairing(e) \in [Attempts(rq, k, e) -> Slots(s, e)]
    BY <1>1, <2>1, <2>3 DEF Bijection, Injection
  <2>5. pairing(e)[p] \in Slots(s, e)
    BY <2>1, <2>3, <2>4
  <2> QED BY <2>1, <2>2, <2>3, <2>5
<1> HIDE DEF pairing
<1>3. g \in [S -> T]
  <2>1. \A p \in S : g[p] \in T
    BY <1>2 DEF Slots
  <2> QED BY <2>1
<1>4. ASSUME NEW p \in S, NEW q \in S, g[p] = g[q]
      PROVE  p = q
  <2>1. rq[p].at = rq[q].at
    BY <1>2, <1>4 DEF Slots
  <2>2. PICK e \in Int : e = rq[p].at
    BY <1>2
  <2>3. pairing(e) \in Bijection(Attempts(rq, k, e), Slots(s, e))
    BY <1>1, <1>2, <2>2
  <2>4. IsInjective(pairing(e)) /\ DOMAIN pairing(e) = Attempts(rq, k, e)
    BY <2>3 DEF Bijection, Injection
  <2>5. p \in Attempts(rq, k, e) /\ q \in Attempts(rq, k, e)
    BY <1>2, <2>1, <2>2
  <2>6. pairing(e)[p] = pairing(e)[q]
    BY <1>2, <1>4, <2>1, <2>2
  <2> QED BY <2>4, <2>5, <2>6 DEF IsInjective
<1> HIDE DEF g
<1>5. g \in Injection(S, T)
  <2>1. IsInjective(g)
    BY <1>3, <1>4 DEF IsInjective
  <2> QED BY <1>3, <2>1 DEF Injection
<1>6. IsFiniteSet(T)
  <2>1. T \in SUBSET (1..Len(s)) /\ Len(s) \in Nat
    OBVIOUS
  <2> QED BY <2>1, PlacesAreFinite
<1> HIDE DEF S, T
<1>7. Cardinality(S) <= Cardinality(T)
  BY <1>5, <1>6, FS_Injection
<1> QED BY <1>7 DEF S, T

\* The buckets b at the time t, when the requests are rq.
Matches(b, rq, t) ==
    \A k \in Keys : \A e \in Int :
        e > t - Window => Cardinality(Slots(b[k], e)) = Cardinality(Attempts(rq, k, e))

Bucketed(b, rq, t) ==
    /\ b \in [Keys -> Seq(Nat)]
    /\ \A k \in Keys : UpTo(b[k], t) /\ Len(b[k]) <= LimitOf(k)
    /\ Matches(b, rq, t)

Asked(rq, t) ==
    \A q \in Requests :
        rq[q].pc \in {"checking", "failed", "refused"} =>
            rq[q].target \in Slugs \cup {Admin} /\ rq[q].at \in Nat /\ rq[q].at <= t

\* The buckets that the dict o must hold, and holds.
Lists(b, o) ==
    /\ o \in Seq(Keys)
    /\ NoRepeat(o)
    /\ \A k \in Keys : b[k] # <<>> => Contains(o, k)

Listed(b, o) == Lists(b, o) /\ \A k \in Keys : Contains(o, k) => b[k] # <<>>

\* Forgetting what has expired keeps the rest of the buckets.
LEMMA LookedIs ==
    ASSUME now \in Nat, NEW b, NEW rq, Bucketed(b, rq, now), NEW keys \in SUBSET Keys
    PROVE  /\ Bucketed(Looked(b, keys), rq, now)
           /\ \A k \in keys : \A n \in 1..Len(Looked(b, keys)[k]) :
                 Looked(b, keys)[k][n] > now - Window
<1> DEFINE l == Looked(b, keys)
<1>0. \A k \in Keys : UpTo(b[k], now) /\ Len(b[k]) <= LimitOf(k) /\ LimitOf(k) \in Nat
                      /\ Len(b[k]) \in Nat
  BY LimitIs DEF Bucketed, UpTo
<1>1. \A k \in Keys : l[k] = IF k \in keys THEN Live(b[k]) ELSE b[k]
  BY DEF Looked
<1>2. DOMAIN l = Keys /\ l = [k \in Keys |-> l[k]]
  BY DEF Looked
<1> HIDE DEF l
<1>3. ASSUME NEW k \in Keys
      PROVE  UpTo(l[k], now) /\ Len(l[k]) <= LimitOf(k) /\ l[k] \in Seq(Nat)
  <2>1. UpTo(l[k], now)
    BY <1>0, <1>1, LiveIs
  <2>2. l[k] \in Seq(Nat)
    BY <2>1 DEF UpTo
  <2>3. Len(l[k]) <= Len(b[k])
    BY <1>0, <1>1, LiveIs
  <2> QED BY <1>0, <2>1, <2>2, <2>3
<1>4. ASSUME NEW k \in Keys, NEW e \in Int, e > now - Window
      PROVE  Cardinality(Slots(l[k], e)) = Cardinality(Attempts(rq, k, e))
  <2>1. Cardinality(Slots(b[k], e)) = Cardinality(Attempts(rq, k, e))
    BY <1>4 DEF Bucketed, Matches
  <2>2. Cardinality(Slots(l[k], e)) = Cardinality(Slots(b[k], e))
    BY <1>0, <1>1, <1>4, LiveIs
  <2> QED BY <2>1, <2>2
<1>5. Bucketed(l, rq, now)
  <2>1. Matches(l, rq, now)
    BY <1>4 DEF Matches
  <2>2. l \in [Keys -> Seq(Nat)]
    BY <1>2, <1>3
  <2> QED BY <1>3, <2>1, <2>2 DEF Bucketed
<1>6. ASSUME NEW k \in keys, NEW n \in 1..Len(l[k])
      PROVE  l[k][n] > now - Window
  <2>1. l[k] = Live(b[k]) /\ UpTo(b[k], now)
    BY <1>0, <1>1
  <2>2. \A m \in 1..Len(Live(b[k])) : Live(b[k])[m] > now - Window
    BY <2>1, LiveIs
  <2> QED BY <2>1, <2>2
<1> QED BY <1>5, <1>6 DEF l

\* Deleting the empty buckets leaves the others in the dict.
LEMMA PresentIs ==
    ASSUME NEW b, NEW o, Lists(b, o)
    PROVE  Listed(b, Present(b, o)) /\ Len(Present(b, o)) <= Len(o)
<1> DEFINE places == {n \in DOMAIN o : b[o[n]] # <<>>}
           p == Present(b, o)
<1>0. o \in Seq(Keys) /\ NoRepeat(o) /\ places \in SUBSET DOMAIN o /\ Len(o) \in Nat
      /\ DOMAIN o = 1..Len(o)
  BY DEF Lists
<1>1. p = Picked(o, places)
  BY DEF Present
<1> HIDE DEF p
<1>2. NoRepeat(p)
  BY <1>0, <1>1, PickedNoRepeat
<1>3. /\ p \in Seq(Keys) /\ Len(p) = Cardinality(places)
      /\ \A n \in 1..Len(p) : Nth(places, n) \in places /\ p[n] = o[Nth(places, n)]
      /\ \A i \in places : Rank(places, i) \in 1..Len(p) /\ p[Rank(places, i)] = o[i]
  <2>1. o \in Seq(Keys) /\ places \in SUBSET DOMAIN o
    BY <1>0
  <2> HIDE DEF places
  <2>2. /\ Picked(o, places) \in Seq(Keys) /\ Len(Picked(o, places)) = Cardinality(places)
        /\ \A n \in 1..Len(Picked(o, places)) :
              Nth(places, n) \in places /\ Picked(o, places)[n] = o[Nth(places, n)]
        /\ \A i \in places : /\ Rank(places, i) \in 1..Len(Picked(o, places))
                             /\ Picked(o, places)[Rank(places, i)] = o[i]
    BY <2>1, PickedElements
  <2> QED BY <1>1, <2>2
<1>4. Len(p) <= Len(o)
  BY <1>0, <1>3, PlacesAreFew
<1>5. ASSUME NEW k \in Keys, b[k] # <<>>
      PROVE  Contains(p, k)
  <2>1. PICK n \in 1..Len(o) : o[n] = k
    BY <1>5 DEF Lists, Contains
  <2>2. n \in places
    BY <1>0, <1>5, <2>1
  <2> QED BY <1>3, <2>1, <2>2 DEF Contains
<1>6. ASSUME NEW k \in Keys, Contains(p, k)
      PROVE  b[k] # <<>>
  <2>1. PICK n \in 1..Len(p) : p[n] = k
    BY <1>6 DEF Contains
  <2>2. Nth(places, n) \in places /\ o[Nth(places, n)] = k
    BY <1>3, <2>1
  <2> QED BY <2>2
<1>7. Listed(b, p)
  BY <1>2, <1>3, <1>5, <1>6 DEF Listed, Lists
<1> QED BY <1>4, <1>7 DEF p

-----------------------------------------------------------------------------
\* Every live stamp of a room is one of all rooms, so there is room for the live
\* buckets.
LEMMA FewAreLive ==
    ASSUME now \in Nat, NEW b, NEW rq, Bucketed(b, rq, now), Asked(rq, now),
           \A k \in Keys : \A n \in 1..Len(b[k]) : b[k][n] > now - Window,
           NEW o, Listed(b, o)
    PROVE  Len(o) <= MaxBuckets
<1> DEFINE c == now - Window
           all == Since(rq, AllRooms, c)
           rooms == {k \in Slugs : b[k] # <<>>}
           held == rooms \cup {AllRooms} \cup {Admin}
           last(k) == CHOOSE p \in Requests : rq[p].pc \in {"checking", "failed"}
                                              /\ rq[p].target = k /\ p \in all
           f == [k \in rooms |-> last(k)]
<1>0. c \in Int /\ AllRooms \in Keys /\ Slugs \subseteq Keys
  BY ClockTicks DEF Keys
<1>1. Cardinality(all) <= AllRoomsLimit
  <2>1. /\ b[AllRooms] \in Seq(Nat)
        /\ Len(b[AllRooms]) <= AllRoomsLimit
        /\ \A e \in Int : e > c =>
              Cardinality(Slots(b[AllRooms], e)) = Cardinality(Attempts(rq, AllRooms, e))
    BY <1>0 DEF Bucketed, LimitOf, Matches
  <2>2. \A p \in Counting(rq, AllRooms) : rq[p].at \in Nat
    BY DEF Asked, Counting
  <2>3. Cardinality(all) <= Cardinality({n \in 1..Len(b[AllRooms]) : b[AllRooms][n] > c})
    BY <1>0, <2>1, <2>2, AttemptsFitIn
  <2>4. {n \in 1..Len(b[AllRooms]) : b[AllRooms][n] > c} \in SUBSET (1..Len(b[AllRooms]))
    OBVIOUS
  <2>5. PICK places : places = {n \in 1..Len(b[AllRooms]) : b[AllRooms][n] > c}
    OBVIOUS
  <2>6. Len(b[AllRooms]) \in Nat
    BY <2>1
  <2>7. Cardinality(places) <= Len(b[AllRooms]) /\ Cardinality(places) \in Nat
    BY <2>4, <2>5, <2>6, PlacesAreFew, PlacesAreFinite
  <2>8. Cardinality(all) \in Nat /\ AllRoomsLimit \in Nat
    BY CountingIsFinite, ClockTicks
  <2> QED BY <2>1, <2>3, <2>5, <2>6, <2>7, <2>8
<1>2. ASSUME NEW k \in rooms
      PROVE  /\ last(k) \in Requests /\ rq[last(k)].target = k /\ last(k) \in all
  <2>1. b[k] \in Seq(Nat) /\ b[k] # <<>> /\ k \in Keys
    BY <1>0, <1>2 DEF Bucketed
  <2>2. 1 \in 1..Len(b[k]) /\ b[k][1] \in Int /\ DOMAIN b[k] = 1..Len(b[k])
    BY <2>1
  <2>3. b[k][1] > c
    BY <2>1, <2>2
  <2>4. PICK e \in Int : e = b[k][1] /\ e > c
    BY <2>2, <2>3
  <2>5. 1 \in Slots(b[k], e)
    BY <2>2, <2>4 DEF Slots
  <2>6. Cardinality(Slots(b[k], e)) # 0
    BY <2>1, <2>5, SlotsAreFinite, FS_EmptySet
  <2>7. Cardinality(Slots(b[k], e)) = Cardinality(Attempts(rq, k, e))
    BY <2>1, <2>4 DEF Bucketed, Matches
  <2>8. Attempts(rq, k, e) # {}
    BY <2>6, <2>7, FS_EmptySet
  <2>9. PICK p \in Attempts(rq, k, e) : TRUE
    BY <2>8
  <2>10. /\ p \in Requests /\ rq[p].pc \in {"checking", "failed"}
         /\ k \in KeysOf(rq[p].target) /\ rq[p].at = e
    BY <2>9 DEF Attempts, Counting
  <2>11. rq[p].target \in Slugs \cup {Admin}
    BY <2>10 DEF Asked
  <2>12. rq[p].target = k /\ AllRooms \in KeysOf(rq[p].target)
    BY <1>2, <2>10, <2>11, KeysOfIs
  <2>13. p \in all
    BY <2>4, <2>10, <2>12 DEF Since, Counting
  <2> QED BY <2>10, <2>12, <2>13
<1> HIDE DEF last
<1>3. IsFiniteSet(all)
  BY CountingIsFinite
<1> HIDE DEF all
<1>4. f \in [rooms -> all]
  BY <1>2
<1>5. f \in Injection(rooms, all)
  <2>1. \A j, k \in rooms : f[j] = f[k] => j = k
    BY <1>2
  <2> HIDE DEF f, rooms
  <2>2. IsInjective(f)
    BY <1>4, <2>1 DEF IsInjective
  <2> QED BY <1>4, <2>2 DEF Injection
<1> HIDE DEF f, rooms
<1>6. IsFiniteSet(rooms) /\ Cardinality(rooms) <= Cardinality(all)
  BY <1>3, <1>5, FS_Injection
<1>7. IsFiniteSet(held) /\ Cardinality(held) <= Cardinality(rooms) + 2
  <2>1. ASSUME NEW S, IsFiniteSet(S), NEW x
        PROVE  IsFiniteSet(S \cup {x}) /\ Cardinality(S \cup {x}) <= Cardinality(S) + 1
    <3>1. /\ IsFiniteSet(S \cup {x})
          /\ Cardinality(S \cup {x}) = IF x \in S THEN Cardinality(S) ELSE Cardinality(S) + 1
      BY <2>1, FS_AddElement
    <3>2. Cardinality(S) \in Nat
      BY <2>1, FS_CardinalityType
    <3> QED BY <3>1, <3>2
  <2>2. /\ IsFiniteSet(rooms \cup {AllRooms})
        /\ Cardinality(rooms \cup {AllRooms}) <= Cardinality(rooms) + 1
    BY <1>6, <2>1
  <2>3. /\ IsFiniteSet(held)
        /\ Cardinality(held) <= Cardinality(rooms \cup {AllRooms}) + 1
    BY <2>1, <2>2
  <2>4. /\ Cardinality(rooms) \in Nat /\ Cardinality(held) \in Nat
        /\ Cardinality(rooms \cup {AllRooms}) \in Nat
    BY <1>6, <2>2, <2>3, FS_CardinalityType
  <2> HIDE DEF held
  <2> QED BY <2>2, <2>3, <2>4
<1>8. \A n \in 1..Len(o) : o[n] \in held
  <2>1. ASSUME NEW n \in 1..Len(o)
        PROVE  o[n] \in held
    <3>1. o[n] \in Keys
      BY DEF Listed, Lists
    <3>2. b[o[n]] # <<>>
      BY <3>1 DEF Listed, Contains
    <3> QED BY <3>1, <3>2 DEF Keys, rooms
  <2> QED BY <2>1
<1>9. Len(o) <= Cardinality(held)
  <2> HIDE DEF held
  <2>1. o \in [1..Len(o) -> held] /\ Len(o) \in Nat
    BY <1>8 DEF Listed, Lists
  <2>2. o \in Injection(1..Len(o), held)
    BY <2>1 DEF Injection, IsInjective, Listed, Lists, NoRepeat
  <2>3. PICK m \in Nat : m = Len(o)
    BY <2>1
  <2>4. Cardinality(1..m) <= Cardinality(held)
    BY <1>7, <2>2, <2>3, FS_Injection
  <2>5. Cardinality(1..m) = m
    BY FS_Interval
  <2> QED BY <2>3, <2>4, <2>5
<1>10. /\ Len(o) \in Nat /\ Cardinality(held) \in Nat /\ Cardinality(rooms) \in Nat
       /\ Cardinality(all) \in Nat /\ AllRoomsLimit \in Nat /\ MaxBuckets \in Nat
  BY <1>3, <1>6, <1>7, FS_CardinalityType, ClockTicks, BoundsAreNats DEF Listed, Lists
<1> HIDE DEF held
<1> QED BY <1>1, <1>6, <1>7, <1>9, <1>10, RoomForLiveBuckets

\* Trimming forgets stamps that have expired and nothing else.
LEMMA TrimIs ==
    ASSUME now \in Nat, NEW b, NEW rq, Bucketed(b, rq, now), Asked(rq, now),
           NEW o, Lists(b, o), Trim(b, o)
    PROVE  \E fresh : Bucketed(fresh, rq, now) /\ buckets' = fresh /\ Listed(fresh, order')
<1> DEFINE all == Looked(b, Keys)
           fresh == IF Len(o) <= MaxBuckets THEN b ELSE all
           left == Present(fresh, o)
<1>1. Bucketed(all, rq, now)
      /\ \A k \in Keys : \A n \in 1..Len(all[k]) : all[k][n] > now - Window
  BY LookedIs
<1>2. \A k \in Keys : all[k] # <<>> => b[k] # <<>>
  <2>1. ASSUME NEW k \in Keys, b[k] = <<>>
        PROVE  all[k] = <<>>
    <3>1. all[k] = Live(b[k])
      BY DEF Looked
    <3>2. UpTo(b[k], now)
      BY DEF Bucketed
    <3>3. Live(b[k]) \in Seq(Nat) /\ Len(Live(b[k])) <= Len(b[k])
      BY <3>2, LiveIs DEF UpTo
    <3>4. Len(b[k]) = 0
      BY <2>1
    <3> QED BY <3>1, <3>3, <3>4
  <2> QED BY <2>1
<1>3. Lists(all, o)
  BY <1>2 DEF Lists
<1> HIDE DEF all
<1>4. Bucketed(fresh, rq, now) /\ Lists(fresh, o)
  BY <1>1, <1>3
<1>5. Listed(fresh, left) /\ Len(left) <= Len(o)
  BY <1>4, PresentIs
<1>6. Len(left) <= MaxBuckets
  <2>1. CASE Len(o) <= MaxBuckets
    <3>1. Len(left) \in Nat /\ Len(o) \in Nat /\ MaxBuckets \in Nat
      BY <1>5, BoundsAreNats DEF Listed, Lists
    <3> HIDE DEF left
    <3> QED BY <1>5, <2>1, <3>1
  <2>2. CASE ~(Len(o) <= MaxBuckets)
    <3>1. fresh = all
      BY <2>2
    <3> HIDE DEF left, fresh
    <3> QED BY <1>1, <1>5, <3>1, FewAreLive
  <2> QED BY <2>1, <2>2
<1>7. /\ order' = left
      /\ buckets' = [k \in Keys |-> IF Contains(left, k) THEN fresh[k] ELSE <<>>]
  BY <1>6 DEF Trim, all
<1> HIDE DEF left, fresh
<1>8. buckets' = fresh
  <2>1. \A k \in Keys : ~Contains(left, k) => fresh[k] = <<>>
    BY <1>5 DEF Listed, Lists
  <2>2. fresh = [k \in Keys |-> fresh[k]]
    BY <1>4 DEF Bucketed
  <2> QED BY <1>7, <2>1, <2>2
<1> QED BY <1>4, <1>5, <1>7, <1>8

\* The answer to a refused request: when its wait is over, fewer than the limit
\* are left of the attempts it was refused for.
AnswerHolds(rq, q) ==
    /\ rq[q].retryAfter \in Nat
    /\ rq[q].ahead \subseteq {p \in Requests : rq[p].pc # "new"}
    /\ \A k \in KeysOf(rq[q].target) :
          Cardinality(Since(rq, k, rq[q].at + rq[q].retryAfter * Second - Window) \cap rq[q].ahead)
             < LimitOf(k)

\* No request starts to count.
NoneStarts(rq, rq2) ==
    \A p \in Requests :
        rq[p].pc # "new" =>
            /\ rq2[p].pc # "new"
            /\ rq2[p].pc \in {"checking", "failed"} =>
                  /\ rq[p].pc \in {"checking", "failed"}
                  /\ rq2[p].target = rq[p].target
                  /\ rq2[p].at = rq[p].at

\* An answer that holds goes on to hold, as attempts only leave those ahead.
LEMMA AnswerStays ==
    ASSUME NEW rq, NEW rq2, NoneStarts(rq, rq2),
           NEW q \in Requests, AnswerHolds(rq, q), rq2[q] = rq[q],
           rq[q].target \in Slugs \cup {Admin}
    PROVE  AnswerHolds(rq2, q)
<1> DEFINE c == rq[q].at + rq[q].retryAfter * Second - Window
<1>1. ASSUME NEW k \in KeysOf(rq[q].target)
      PROVE  Cardinality(Since(rq2, k, c) \cap rq[q].ahead) < LimitOf(k)
  <2> HIDE DEF c
  <2>1. Since(rq2, k, c) \cap rq[q].ahead \in SUBSET (Since(rq, k, c) \cap rq[q].ahead)
    BY DEF AnswerHolds, NoneStarts, Since, Counting
  <2>2. IsFiniteSet(Since(rq, k, c))
    BY CountingIsFinite
  <2>3. IsFiniteSet(Since(rq, k, c) \cap rq[q].ahead)
    BY <2>2, FS_Subset
  <2>4. IsFiniteSet(Since(rq2, k, c) \cap rq[q].ahead)
        /\ Cardinality(Since(rq2, k, c) \cap rq[q].ahead)
             <= Cardinality(Since(rq, k, c) \cap rq[q].ahead)
    BY <2>1, <2>3, FS_Subset
  <2>5. /\ Cardinality(Since(rq2, k, c) \cap rq[q].ahead) \in Nat
        /\ Cardinality(Since(rq, k, c) \cap rq[q].ahead) \in Nat
    BY <2>3, <2>4, FS_CardinalityType
  <2>6. LimitOf(k) \in Nat
    BY LimitIs, KeysOfIs
  <2>7. Cardinality(Since(rq, k, c) \cap rq[q].ahead) < LimitOf(k)
    BY DEF AnswerHolds, c
  <2> QED BY <2>4, <2>5, <2>6, <2>7
<1>2. rq[q].ahead \subseteq {p \in Requests : rq2[p].pc # "new"}
  BY DEF AnswerHolds, NoneStarts
<1> QED BY <1>1, <1>2 DEF AnswerHolds

-----------------------------------------------------------------------------
\* The larger of one or two numbers.
LEMMA MaxOfTwo ==
    ASSUME NEW a \in Int, NEW b \in Int, NEW S \in SUBSET {a, b}, S # {}
    PROVE  Max(S) \in S /\ \A y \in S : Max(S) >= y
<1>1. \E x \in S : \A y \in S : x >= y
  <2>1. CASE a \in S /\ (b \in S => a >= b)
    BY <2>1
  <2>2. CASE b \in S /\ (a \in S => b >= a)
    BY <2>2
  <2>3. a \in S \/ b \in S
    OBVIOUS
  <2>4. a >= b \/ b >= a
    OBVIOUS
  <2> QED BY <2>1, <2>2, <2>3, <2>4
<1> QED BY <1>1 DEF Max

\* Rounding up.
LEMMA CeilingIs ==
    ASSUME NEW m \in Int, NEW d \in Nat \ {0}
    PROVE  /\ (m + d - 1) \div d \in Int
           /\ ((m + d - 1) \div d) * d >= m
<1> DEFINE n == m + d - 1
<1>1. n \in Int
  OBVIOUS
<1> HIDE DEF n
<1>2. /\ n \div d \in Int
      /\ n % d \in 0..(d-1)
      /\ n = d * (n \div d) + (n % d)
  <2>1. n \div d \in Int
    BY <1>1
  <2>2. n % d \in 0..(d-1)
    BY <1>1
  <2>3. n = d * (n \div d) + (n % d)
    BY <1>1
  <2> QED BY <2>1, <2>2, <2>3
<1>3. d * (n \div d) >= n - (d - 1)
  <2>1. PICK u, v : u = d * (n \div d) /\ v = n % d
    OBVIOUS
  <2>2. u \in Int
    BY <1>2, <2>1
  <2> QED BY <1>1, <1>2, <2>1, <2>2
<1>4. d * (n \div d) = (n \div d) * d
  BY <1>2
<1>5. n - (d - 1) = m
  BY DEF n
<1> QED BY <1>2, <1>3, <1>4, <1>5 DEF n

LEMMA LongerIsMore ==
    ASSUME NEW a \in Int, NEW b \in Int, a <= b, NEW d \in Nat
    PROVE  a * d <= b * d
OBVIOUS

\* The wait is over when the first stamp of every full bucket is.
LEMMA WaitIsEnough ==
    ASSUME now \in Nat, NEW target \in Slugs \cup {Admin}, NEW b,
           NEW full \in SUBSET KeysOf(target), full # {},
           \A k \in full : b[k] \in Seq(Nat) /\ Len(b[k]) = LimitOf(k)
    PROVE  /\ RetryAfter(b, full) \in Nat
           /\ \A k \in full : now + RetryAfter(b, full) * Second - Window >= b[k][1]
<1> DEFINE wait(k) == b[k][Len(b[k]) - LimitOf(k) + 1] + Window - now
           ticks == {wait(k) : k \in full}
           r == RetryAfter(b, full)
           whole == (Max(ticks) + Second - 1) \div Second
<1>0. Window \in Nat /\ Second \in Nat \ {0}
  BY ClockTicks
<1>1. ASSUME NEW k \in full
      PROVE  b[k][1] \in Nat /\ wait(k) = b[k][1] + Window - now
  <2>1. LimitOf(k) \in Nat \ {0}
    BY LimitIs, KeysOfIs
  <2>2. Len(b[k]) - LimitOf(k) + 1 = 1
    BY <2>1
  <2>3. b[k][1] \in Nat
    BY <2>1
  <2> QED BY <2>2, <2>3
<1>2. \A k \in full : wait(k) \in Int
  BY <1>0, <1>1
<1> HIDE DEF wait
<1>3. \E a, c \in Int : ticks \subseteq {a, c}
  <2>1. PICK k0 \in full : TRUE
    OBVIOUS
  <2>2. CASE target = Admin
    <3>1. \A k \in full : k = k0
      BY <2>2 DEF KeysOf
    <3>2. ticks \subseteq {wait(k0), wait(k0)} /\ wait(k0) \in Int
      BY <1>2, <3>1
    <3> QED BY <3>2
  <2>3. CASE target # Admin /\ target \in full /\ AllRooms \in full
    <3>1. \A k \in full : k \in {target, AllRooms}
      BY <2>3 DEF KeysOf
    <3>2. ticks \subseteq {wait(target), wait(AllRooms)}
          /\ wait(target) \in Int /\ wait(AllRooms) \in Int
      BY <1>2, <2>3, <3>1
    <3> QED BY <3>2
  <2>4. CASE target # Admin /\ ~(target \in full /\ AllRooms \in full)
    <3>1. \A k \in full : k = k0
      BY <2>1, <2>4 DEF KeysOf
    <3>2. ticks \subseteq {wait(k0), wait(k0)} /\ wait(k0) \in Int
      BY <1>2, <3>1
    <3> QED BY <3>2
  <2> QED BY <2>2, <2>3, <2>4
<1>4. ticks # {}
  OBVIOUS
<1>5. r = Max({1, whole})
  BY DEF RetryAfter, wait
<1>6. Max(ticks) \in Int /\ \A k \in full : Max(ticks) >= wait(k)
  <2>1. \A k \in full : wait(k) \in ticks
    OBVIOUS
  <2>2. ticks \subseteq Int
    BY <1>2
  <2> HIDE DEF ticks
  <2>3. Max(ticks) \in ticks /\ \A y \in ticks : Max(ticks) >= y
    BY <1>3, <1>4, MaxOfTwo
  <2> QED BY <2>1, <2>2, <2>3
<1> HIDE DEF ticks, r
<1>7. whole \in Int /\ whole * Second >= Max(ticks)
  BY <1>0, <1>6, CeilingIs
<1> HIDE DEF whole
<1>8. r \in {1, whole} /\ r >= 1 /\ r >= whole
  <2>1. {1, whole} \in SUBSET {1, whole} /\ {1, whole} # {}
    OBVIOUS
  <2>2. Max({1, whole}) \in {1, whole} /\ \A y \in {1, whole} : Max({1, whole}) >= y
    <3>1. 1 \in Int
      OBVIOUS
    <3> QED BY <1>7, <2>1, <3>1, MaxOfTwo
  <2> QED BY <1>5, <2>2
<1>9. r \in Nat
  BY <1>7, <1>8
<1>10. r * Second \in Int /\ r * Second >= Max(ticks)
  <2>1. whole * Second <= r * Second
    BY <1>0, <1>7, <1>8, <1>9, LongerIsMore
  <2>2. PICK u, v : u = whole * Second /\ v = r * Second
    OBVIOUS
  <2>3. u \in Int /\ v \in Int
    BY <1>0, <1>7, <1>9, <2>2
  <2> QED BY <1>6, <1>7, <2>1, <2>2, <2>3
<1>11. ASSUME NEW k \in full
       PROVE  now + r * Second - Window >= b[k][1]
  <2>1. PICK v \in Int : v = r * Second /\ v >= Max(ticks)
    BY <1>10
  <2>2. v >= wait(k) /\ wait(k) \in Int
    BY <1>2, <1>6, <2>1
  <2>3. wait(k) = b[k][1] + Window - now /\ b[k][1] \in Nat
    BY <1>1 DEF wait
  <2> QED BY <1>0, <2>1, <2>2, <2>3
<1> QED BY <1>9, <1>11 DEF r

\* A refused request is told to wait long enough.
LEMMA RefusalHolds ==
    ASSUME now \in Nat, Bucketed(buckets, reqs, now), Asked(reqs, now),
           NEW target \in Slugs \cup {Admin}, Full(target) # {},
           NEW r, r = RetryAfter(Read(target), Full(target))
    PROVE  /\ r \in Nat
           /\ \A k \in KeysOf(target) :
                 Cardinality(Since(reqs, k, now + r * Second - Window)) < LimitOf(k)
<1> DEFINE b == Read(target)
           full == Full(target)
           c == now + r * Second - Window
<1>1. /\ Bucketed(b, reqs, now)
      /\ \A k \in KeysOf(target) : \A n \in 1..Len(b[k]) : b[k][n] > now - Window
  BY KeysOfIs, LookedIs DEF Read
<1>2. /\ full \in SUBSET KeysOf(target)
      /\ \A k \in KeysOf(target) : k \in full <=> Len(b[k]) >= LimitOf(k)
  BY DEF Full
<1> HIDE DEF b, full
<1>3. \A k \in KeysOf(target) : /\ k \in Keys /\ b[k] \in Seq(Nat) /\ Len(b[k]) \in Nat
                                /\ Len(b[k]) <= LimitOf(k) /\ LimitOf(k) \in Nat \ {0}
  BY <1>1, KeysOfIs, LimitIs DEF Bucketed
<1>4. \A k \in full : b[k] \in Seq(Nat) /\ Len(b[k]) = LimitOf(k)
  BY <1>2, <1>3
<1>5. r \in Nat /\ \A k \in full : c >= b[k][1]
  BY <1>2, <1>4, WaitIsEnough DEF b, full
<1>6. c \in Int /\ c >= now - Window
  <2>0. Window \in Nat /\ Second \in Nat
    BY ClockTicks
  <2>1. r * Second \in Int /\ r * Second >= 0
    <3>1. 0 * Second <= r * Second /\ 0 * Second = 0 /\ r * Second \in Int
      BY <1>5, <2>0, LongerIsMore
    <3> QED BY <3>1
  <2>2. PICK v \in Int : v = r * Second /\ v >= 0
    BY <2>1
  <2> QED BY <2>0, <2>2
<1> HIDE DEF c
<1>7. ASSUME NEW k \in KeysOf(target)
      PROVE  Cardinality(Since(reqs, k, c)) < LimitOf(k)
  <2> DEFINE places == {n \in 1..Len(b[k]) : b[k][n] > c}
  <2>1. \A p \in Counting(reqs, k) : reqs[p].at \in Nat
    BY DEF Asked, Counting
  <2>2. \A e \in Int : e > c => Cardinality(Slots(b[k], e)) = Cardinality(Attempts(reqs, k, e))
    <3>1. Window \in Nat
      BY ClockTicks
    <3> QED BY <1>1, <1>3, <1>6, <3>1 DEF Bucketed, Matches
  <2>3. Cardinality(Since(reqs, k, c)) <= Cardinality(places)
    BY <1>3, <1>6, <2>1, <2>2, AttemptsFitIn
  <2>4. Cardinality(Since(reqs, k, c)) \in Nat
    BY CountingIsFinite
  <2>5. places \in SUBSET (1..Len(b[k])) /\ Len(b[k]) \in Nat
    BY <1>3
  <2>6. CASE k \in full
    <3>1. 1 \notin places /\ Len(b[k]) = LimitOf(k)
      <4>1. c >= b[k][1] /\ b[k][1] \in Nat
        BY <1>3, <1>4, <1>5, <2>6
      <4> QED BY <1>4, <1>6, <2>6, <4>1
    <3> HIDE DEF places
    <3>2. /\ IsFiniteSet(places)
          /\ Cardinality(places \cup {1}) = Cardinality(places) + 1
          /\ Cardinality(places) \in Nat
      BY <2>5, <3>1, PlacesAreFinite, FS_AddElement
    <3>3. places \cup {1} \in SUBSET (1..Len(b[k]))
      BY <1>3, <2>5, <3>1
    <3>4. Cardinality(places \cup {1}) <= Len(b[k])
      BY <2>5, <3>3, PlacesAreFew
    <3> QED BY <1>3, <2>3, <2>4, <3>1, <3>2, <3>4
  <2>7. CASE k \notin full
    <3>1. Len(b[k]) < LimitOf(k)
      BY <1>2, <1>3, <2>7
    <3> HIDE DEF places
    <3>2. Cardinality(places) <= Len(b[k]) /\ Cardinality(places) \in Nat
      BY <2>5, PlacesAreFew, PlacesAreFinite
    <3> QED BY <1>3, <2>3, <2>4, <3>1, <3>2
  <2> QED BY <2>6, <2>7
<1> QED BY <1>5, <1>7 DEF c

Steps == {"new", "checking", "failed", "refused", "hashing", "created", "done"}

LimiterInv ==
    /\ now \in Nat
    /\ Bucketed(buckets, reqs, now)
    /\ Listed(buckets, order)
    /\ Asked(reqs, now)
    /\ \A q \in Requests : /\ reqs[q].pc \in Steps
                           /\ reqs[q].pc = "refused" => AnswerHolds(reqs, q)

\* The same requests count, with the same buckets and times.
SameCounts(rq, rq2) ==
    \A p \in Requests :
        /\ rq2[p].pc \in {"checking", "failed"} <=> rq[p].pc \in {"checking", "failed"}
        /\ rq[p].pc \in {"checking", "failed"} =>
              rq2[p].target = rq[p].target /\ rq2[p].at = rq[p].at

\* The buckets depend on nothing else of the requests.
LEMMA BucketsStay ==
    ASSUME NEW b, NEW rq, NEW rq2, NEW t, Bucketed(b, rq, t), SameCounts(rq, rq2)
    PROVE  Bucketed(b, rq2, t)
<1>1. \A k, e : Attempts(rq2, k, e) = Attempts(rq, k, e)
  BY DEF SameCounts, Attempts, Counting
<1>2. Matches(b, rq2, t)
  BY <1>1 DEF Bucketed, Matches
<1> QED BY <1>2 DEF Bucketed

\* A step of one request, which is not refused by it.
LEMMA RequestMoves ==
    ASSUME LimiterInv, now' = now, NEW q \in Requests, NEW r, reqs'[q] = r,
           \A p \in Requests \ {q} : reqs'[p] = reqs[p],
           r.pc \in Steps \ {"new", "refused"},
           r.pc \in {"checking", "failed"} =>
               /\ r.target \in Slugs \cup {Admin} /\ r.at \in Nat /\ r.at <= now
               /\ reqs[q].pc # "new" => /\ reqs[q].pc \in {"checking", "failed"}
                                        /\ r.target = reqs[q].target /\ r.at = reqs[q].at
    PROVE  /\ now' \in Nat
           /\ Asked(reqs', now')
           /\ \A p \in Requests : /\ reqs'[p].pc \in Steps
                                  /\ reqs'[p].pc = "refused" => AnswerHolds(reqs', p)
<1>1. NoneStarts(reqs, reqs')
  BY DEF NoneStarts
<1>2. Asked(reqs', now')
  BY DEF LimiterInv, Asked
<1>3. ASSUME NEW p \in Requests
      PROVE  /\ reqs'[p].pc \in Steps
             /\ reqs'[p].pc = "refused" => AnswerHolds(reqs', p)
  <2>1. CASE p = q
    BY <2>1
  <2>2. CASE p # q
    <3>1. reqs'[p] = reqs[p] /\ reqs[p].pc \in Steps
      BY <2>2 DEF LimiterInv
    <3>2. ASSUME reqs'[p].pc = "refused"
          PROVE  AnswerHolds(reqs', p)
      <4>1. AnswerHolds(reqs, p) /\ reqs[p].target \in Slugs \cup {Admin}
        BY <3>1, <3>2 DEF LimiterInv, Asked
      <4> QED BY <1>1, <3>1, <4>1, AnswerStays
    <3> QED BY <3>1, <3>2
  <2> QED BY <2>1, <2>2
<1> QED BY <1>2, <1>3 DEF LimiterInv

-----------------------------------------------------------------------------
\* Looking at a bucket puts nothing in it.
LEMMA EmptyStays ==
    ASSUME now \in Nat, NEW b, NEW rq, Bucketed(b, rq, now), NEW keys, NEW k \in Keys,
           Looked(b, keys)[k] # <<>>
    PROVE  b[k] # <<>>
<1>1. SUFFICES ASSUME b[k] = <<>>
               PROVE  Looked(b, keys)[k] = <<>>
  OBVIOUS
<1>2. Looked(b, keys)[k] \in {b[k], Live(b[k])}
  BY DEF Looked
<1>3. UpTo(b[k], now)
  BY DEF Bucketed
<1>4. Live(b[k]) \in Seq(Nat) /\ Len(Live(b[k])) <= Len(b[k])
  BY <1>3, LiveIs DEF UpTo
<1>5. Len(b[k]) = 0
  BY <1>1
<1> QED BY <1>1, <1>2, <1>4, <1>5

\* The buckets made for an attempt are those that were empty.
LEMMA MadeIs ==
    ASSUME NEW b, NEW target \in Slugs \cup {Admin}
    PROVE  /\ Made(b, target) \in Seq(Keys)
           /\ NoRepeat(Made(b, target))
           /\ \A k \in Keys : Contains(Made(b, target), k) <=> k \in KeysOf(target) /\ b[k] = <<>>
<1> DEFINE asked == IF target = Admin THEN <<Admin>> ELSE <<target, AllRooms>>
           places == {n \in DOMAIN asked : b[asked[n]] = <<>>}
           m == Picked(asked, places)
<1>1. /\ asked \in Seq(Keys) /\ NoRepeat(asked)
      /\ \A k : k \in KeysOf(target) <=> \E n \in DOMAIN asked : asked[n] = k
  <2>1. CASE target = Admin
    <3>1. asked = <<Admin>> /\ KeysOf(target) = {Admin} /\ Admin \in Keys
      BY <2>1 DEF KeysOf, Keys
    <3> HIDE DEF asked
    <3>2. asked \in Seq(Keys) /\ Len(asked) = 1 /\ DOMAIN asked = {1} /\ asked[1] = Admin
      BY <3>1
    <3> QED BY <3>1, <3>2 DEF NoRepeat
  <2>2. CASE target # Admin
    <3>1. /\ asked = <<target, AllRooms>> /\ KeysOf(target) = {target, AllRooms}
          /\ target \in Keys /\ AllRooms \in Keys /\ target # AllRooms
      BY <2>2, SlugsAreRooms DEF KeysOf, Keys
    <3> HIDE DEF asked
    <3>2. /\ asked \in Seq(Keys) /\ Len(asked) = 2 /\ DOMAIN asked = {1, 2}
          /\ asked[1] = target /\ asked[2] = AllRooms
      BY <3>1
    <3>3. NoRepeat(asked)
      BY <3>1, <3>2 DEF NoRepeat
    <3>4. \A k : k \in KeysOf(target) <=> \E n \in DOMAIN asked : asked[n] = k
      BY <3>1, <3>2
    <3> QED BY <3>2, <3>3, <3>4
  <2> QED BY <2>1, <2>2
<1>2. Made(b, target) = m
  BY DEF Made
<1> HIDE DEF asked
<1>3. /\ m \in Seq(Keys) /\ Len(m) = Cardinality(places)
      /\ \A n \in 1..Len(m) : Nth(places, n) \in places /\ m[n] = asked[Nth(places, n)]
      /\ \A i \in places : Rank(places, i) \in 1..Len(m) /\ m[Rank(places, i)] = asked[i]
  <2>1. asked \in Seq(Keys) /\ places \in SUBSET DOMAIN asked
    BY <1>1
  <2> HIDE DEF places
  <2> QED BY <2>1, PickedElements
<1>4. NoRepeat(m)
  BY <1>1, PickedNoRepeat
<1> HIDE DEF m
<1>5. ASSUME NEW k \in Keys, Contains(m, k)
      PROVE  k \in KeysOf(target) /\ b[k] = <<>>
  <2>1. PICK n \in 1..Len(m) : m[n] = k
    BY <1>5 DEF Contains
  <2>2. Nth(places, n) \in places /\ asked[Nth(places, n)] = k
    BY <1>3, <2>1
  <2> QED BY <1>1, <2>2
<1>6. ASSUME NEW k \in KeysOf(target), b[k] = <<>>
      PROVE  Contains(m, k)
  <2>1. PICK n \in DOMAIN asked : asked[n] = k
    BY <1>1
  <2>2. n \in places
    BY <1>6, <2>1
  <2> QED BY <1>3, <2>1, <2>2 DEF Contains
<1> QED BY <1>2, <1>3, <1>4, <1>5, <1>6

\* An attempt takes a slot in each of its buckets, for itself.
LEMMA TakeKeeps ==
    ASSUME LimiterInv, DoorInv, NEW q \in Requests, NEW target \in Slugs \cup {Admin},
           Attempt(q, target), Full(target) = {}
    PROVE  LimiterInv'
<1> DEFINE r == [reqs[q] EXCEPT !.pc = "checking", !.target = target, !.at = now]
           b1 == Read(target)
           b2 == [k \in Keys |-> IF k \in KeysOf(target) THEN Append(b1[k], now) ELSE b1[k]]
           kept == Present(b1, order)
           made == Made(b1, target)
           o == kept \o made
<1>1. /\ reqs[q].pc = "new" /\ now' = now /\ IsRequest(reqs[q])
      /\ Trim(b2, o)
      /\ reqs' = [reqs EXCEPT ![q] = r]
  BY DEF Attempt, Take, DoorInv, Shape
<1>2. r.pc = "checking" /\ r.target = target /\ r.at = now
  BY <1>1 DEF IsRequest, Fields
<1> HIDE DEF r
<1>3. reqs'[q] = r /\ \A p \in Requests \ {q} : reqs'[p] = reqs[p]
  BY <1>1 DEF DoorInv, Shape
<1>4. now \in Nat /\ Bucketed(buckets, reqs, now) /\ Listed(buckets, order) /\ Asked(reqs, now)
  BY DEF LimiterInv
<1>5. Bucketed(b1, reqs, now) /\ \A k \in Keys : b1[k] # <<>> => buckets[k] # <<>>
  BY <1>4, KeysOfIs, LookedIs, EmptyStays DEF Read
<1>6. \A k \in KeysOf(target) : k \in Keys /\ Len(b1[k]) < LimitOf(k)
  <2>1. ASSUME NEW k \in KeysOf(target)
        PROVE  k \in Keys /\ Len(b1[k]) < LimitOf(k)
    <3>1. k \in Keys /\ LimitOf(k) \in Nat /\ Len(b1[k]) \in Nat
      BY <1>5, KeysOfIs, LimitIs DEF Bucketed
    <3>2. ~(Len(b1[k]) >= LimitOf(k))
      BY DEF Full
    <3> QED BY <3>1, <3>2
  <2> QED BY <2>1
<1> HIDE DEF b1
<1>7. Bucketed(b2, reqs', now)
  <2>0. \A k \in Keys : UpTo(b1[k], now) /\ b1[k] \in Seq(Nat) /\ Len(b1[k]) <= LimitOf(k)
                        /\ LimitOf(k) \in Nat /\ Len(b1[k]) \in Nat
    BY <1>5, LimitIs DEF Bucketed
  <2>1. ASSUME NEW k \in Keys
        PROVE  UpTo(b2[k], now) /\ Len(b2[k]) <= LimitOf(k) /\ b2[k] \in Seq(Nat)
    <3>1. CASE k \in KeysOf(target)
      <4>1. b2[k] = Append(b1[k], now)
        BY <3>1
      <4>2. UpTo(b2[k], now) /\ Len(b2[k]) = Len(b1[k]) + 1
        BY <1>4, <2>0, <4>1, AppendIs
      <4>3. b2[k] \in Seq(Nat)
        BY <4>2 DEF UpTo
      <4> QED BY <1>6, <2>0, <3>1, <4>2, <4>3
    <3>2. CASE k \notin KeysOf(target)
      BY <2>0, <3>2
    <3> QED BY <3>1, <3>2
  <2>2. ASSUME NEW k \in Keys, NEW e \in Int, e > now - Window
        PROVE  Cardinality(Slots(b2[k], e)) = Cardinality(Attempts(reqs', k, e))
    <3>1. Cardinality(Slots(b1[k], e)) = Cardinality(Attempts(reqs, k, e))
      BY <1>5, <2>2 DEF Bucketed, Matches
    <3>2. CASE k \in KeysOf(target) /\ e = now
      <4>1. Attempts(reqs', k, e) = Attempts(reqs, k, e) \cup {q}
            /\ q \notin Attempts(reqs, k, e)
        BY <1>1, <1>2, <1>3, <3>2 DEF Attempts, Counting
      <4>2. Cardinality(Attempts(reqs', k, e)) = Cardinality(Attempts(reqs, k, e)) + 1
        BY <4>1, CountingIsFinite, FS_AddElement
      <4>3. b2[k] = Append(b1[k], now) /\ UpTo(b1[k], now)
        BY <2>0, <3>2
      <4>4. Cardinality(Slots(b2[k], e)) = Cardinality(Slots(b1[k], e)) + 1
        BY <1>4, <3>2, <4>3, AppendIs
      <4> QED BY <3>1, <4>2, <4>4
    <3>3. CASE ~(k \in KeysOf(target) /\ e = now)
      <4>1. Attempts(reqs', k, e) = Attempts(reqs, k, e)
        BY <1>1, <1>2, <1>3, <3>3 DEF Attempts, Counting
      <4>2. UpTo(b1[k], now)
        BY <2>0
      <4>3. Cardinality(Slots(b2[k], e)) = Cardinality(Slots(b1[k], e))
        BY <1>4, <3>3, <4>2, AppendIs
      <4> QED BY <3>1, <4>1, <4>3
    <3> QED BY <3>2, <3>3
  <2> HIDE DEF b2
  <2>3. Matches(b2, reqs', now)
    BY <2>2 DEF Matches
  <2>4. b2 \in [Keys -> Seq(Nat)]
    BY <2>1 DEF b2
  <2> QED BY <2>1, <2>3, <2>4 DEF Bucketed
<1>8. Lists(b2, o)
  <2>1. Lists(b1, order)
    BY <1>4, <1>5 DEF Listed, Lists
  <2>2. Listed(b1, kept)
    BY <2>1, PresentIs
  <2>3. /\ made \in Seq(Keys) /\ NoRepeat(made)
        /\ \A k \in Keys : Contains(made, k) <=> k \in KeysOf(target) /\ b1[k] = <<>>
    BY MadeIs
  <2> HIDE DEF kept, made
  <2>4. /\ kept \in Seq(Keys) /\ NoRepeat(kept)
        /\ \A k \in Keys : Contains(kept, k) <=> b1[k] # <<>>
    BY <2>2 DEF Listed, Lists
  <2>5. /\ o \in Seq(Keys) /\ Len(o) = Len(kept) + Len(made)
        /\ \A n \in 1..(Len(kept) + Len(made)) :
              o[n] = IF n <= Len(kept) THEN kept[n] ELSE made[n - Len(kept)]
        /\ Len(kept) \in Nat /\ Len(made) \in Nat
    BY <2>3, <2>4, ConcatProperties
  <2> HIDE DEF o
  <2>6. ASSUME NEW m \in 1..Len(kept), NEW n \in 1..Len(made)
        PROVE  kept[m] # made[n]
    <3>1. kept[m] \in Keys /\ made[n] \in Keys
      BY <2>3, <2>4
    <3>2. Contains(kept, kept[m]) /\ Contains(made, made[n])
      BY DEF Contains
    <3> QED BY <2>3, <2>4, <3>1, <3>2
  <2>7. NoRepeat(o)
    <3>1. ASSUME NEW m \in 1..Len(o), NEW n \in 1..Len(o), m < n
          PROVE  o[m] # o[n]
      <4>1. CASE n <= Len(kept)
        BY <2>4, <2>5, <3>1, <4>1 DEF NoRepeat
      <4>2. CASE m <= Len(kept) /\ ~(n <= Len(kept))
        <5>1. m \in 1..Len(kept) /\ n - Len(kept) \in 1..Len(made)
          BY <2>5, <3>1, <4>2
        <5> QED BY <2>5, <2>6, <4>2, <5>1
      <4>3. CASE ~(m <= Len(kept))
        <5>1. /\ m - Len(kept) \in 1..Len(made) /\ n - Len(kept) \in 1..Len(made)
              /\ m - Len(kept) # n - Len(kept) /\ ~(n <= Len(kept))
          BY <2>5, <3>1, <4>3
        <5>2. made[m - Len(kept)] # made[n - Len(kept)]
          BY <2>3, <5>1 DEF NoRepeat
        <5> QED BY <2>5, <4>3, <5>1, <5>2
      <4> QED BY <4>1, <4>2, <4>3
    <3>2. Len(o) \in Nat
      BY <2>5
    <3> QED BY <3>1, <3>2 DEF NoRepeat
  <2>8. ASSUME NEW k \in Keys, b2[k] # <<>>
        PROVE  Contains(o, k)
    <3>1. Contains(kept, k) \/ Contains(made, k)
      BY <2>3, <2>4, <2>8
    <3>2. ASSUME NEW n \in 1..Len(kept), kept[n] = k
          PROVE  Contains(o, k)
      <4>1. n \in 1..Len(o) /\ o[n] = k
        BY <2>5, <3>2
      <4> QED BY <4>1 DEF Contains
    <3>3. ASSUME NEW n \in 1..Len(made), made[n] = k
          PROVE  Contains(o, k)
      <4>1. n + Len(kept) \in 1..Len(o) /\ ~(n + Len(kept) <= Len(kept))
            /\ (n + Len(kept)) - Len(kept) = n
        BY <2>5, <3>3
      <4>2. o[n + Len(kept)] = k
        BY <2>5, <3>3, <4>1
      <4> QED BY <4>1, <4>2 DEF Contains
    <3> QED BY <3>1, <3>2, <3>3 DEF Contains
  <2> QED BY <2>5, <2>7, <2>8 DEF Lists
<1> HIDE DEF b2, o
<1>9. /\ Asked(reqs', now')
      /\ \A p \in Requests : /\ reqs'[p].pc \in Steps
                             /\ reqs'[p].pc = "refused" => AnswerHolds(reqs', p)
  <2>1. r.pc \in Steps \ {"new", "refused"} /\ r.target \in Slugs \cup {Admin}
        /\ r.at \in Nat /\ r.at <= now
    BY <1>2, <1>4 DEF Steps
  <2> QED BY <1>1, <1>3, <2>1, RequestMoves
<1>10. PICK fresh : Bucketed(fresh, reqs', now) /\ buckets' = fresh /\ Listed(fresh, order')
  <2>1. PICK rq : rq = reqs'
    OBVIOUS
  <2>2. Bucketed(b2, rq, now) /\ Asked(rq, now)
    BY <1>1, <1>7, <1>9, <2>1
  <2> QED BY <1>1, <1>4, <1>8, <2>1, <2>2, TrimIs
<1> QED BY <1>1, <1>4, <1>9, <1>10 DEF LimiterInv

\* A refused attempt takes none, and its answer holds.
LEMMA RefuseKeeps ==
    ASSUME LimiterInv, DoorInv, NEW q \in Requests, NEW target \in Slugs \cup {Admin},
           Attempt(q, target), Full(target) # {}
    PROVE  LimiterInv'
<1> DEFINE wait == RetryAfter(Read(target), Full(target))
           ahead == {p \in Requests : reqs[p].pc \in {"checking", "failed"}}
           r == [reqs[q] EXCEPT !.pc = "refused", !.target = target, !.at = now,
                                !.retryAfter = wait, !.ahead = ahead]
           b == Read(target)
<1>1. /\ reqs[q].pc = "new" /\ now' = now /\ IsRequest(reqs[q])
      /\ buckets' = b /\ order' = Present(b, order)
      /\ reqs' = [reqs EXCEPT ![q] = r]
  BY DEF Attempt, TakeNothing, DoorInv, Shape
<1>2. now \in Nat /\ Bucketed(buckets, reqs, now) /\ Listed(buckets, order) /\ Asked(reqs, now)
  BY DEF LimiterInv
<1>3. Bucketed(b, reqs, now) /\ \A k \in Keys : b[k] # <<>> => buckets[k] # <<>>
  BY <1>2, KeysOfIs, LookedIs, EmptyStays DEF Read
<1>4. /\ wait \in Nat
      /\ \A k \in KeysOf(target) :
            Cardinality(Since(reqs, k, now + wait * Second - Window)) < LimitOf(k)
  <2> DEFINE w == wait
  <2>1. w = RetryAfter(Read(target), Full(target))
    OBVIOUS
  <2> HIDE DEF w
  <2>2. /\ w \in Nat
        /\ \A k \in KeysOf(target) :
              Cardinality(Since(reqs, k, now + w * Second - Window)) < LimitOf(k)
    BY <1>2, <2>1, RefusalHolds
  <2> QED BY <2>2 DEF w
<1> HIDE DEF wait, ahead, b
<1>5. /\ r.pc = "refused" /\ r.target = target /\ r.at = now
      /\ r.retryAfter = wait /\ r.ahead = ahead
  BY <1>1 DEF IsRequest, Fields
<1> HIDE DEF r
<1>6. reqs'[q] = r /\ \A p \in Requests \ {q} : reqs'[p] = reqs[p]
  BY <1>1 DEF DoorInv, Shape
<1>7. NoneStarts(reqs, reqs') /\ SameCounts(reqs, reqs')
  BY <1>1, <1>5, <1>6 DEF NoneStarts, SameCounts
<1>8. Bucketed(b, reqs', now)
  BY <1>3, <1>7, BucketsStay
<1>9. Listed(b, order')
  <2>1. Lists(b, order)
    BY <1>2, <1>3 DEF Listed, Lists
  <2> QED BY <1>1, <2>1, PresentIs
<1>10. Asked(reqs', now')
  BY <1>1, <1>2, <1>5, <1>6 DEF Asked
<1>11. AnswerHolds(reqs', q)
  <2>1. ahead \subseteq {p \in Requests : reqs'[p].pc # "new"}
    BY <1>1, <1>6 DEF ahead
  <2>2. ASSUME NEW k \in KeysOf(target)
        PROVE  Cardinality(Since(reqs', k, now + wait * Second - Window) \cap ahead) < LimitOf(k)
    <3> DEFINE c == now + wait * Second - Window
    <3> HIDE DEF c
    <3>1. Since(reqs', k, c) \cap ahead \in SUBSET Since(reqs, k, c)
      BY <1>7 DEF SameCounts, Since, Counting
    <3>2. IsFiniteSet(Since(reqs, k, c))
      BY CountingIsFinite
    <3>3. IsFiniteSet(Since(reqs', k, c) \cap ahead)
          /\ Cardinality(Since(reqs', k, c) \cap ahead) <= Cardinality(Since(reqs, k, c))
      BY <3>1, <3>2, FS_Subset
    <3>4. /\ Cardinality(Since(reqs', k, c) \cap ahead) \in Nat
          /\ Cardinality(Since(reqs, k, c)) \in Nat
      BY <3>2, <3>3, FS_CardinalityType
    <3>5. LimitOf(k) \in Nat
      BY LimitIs, KeysOfIs
    <3>6. Cardinality(Since(reqs, k, c)) < LimitOf(k)
      BY <1>4 DEF c
    <3>7. Cardinality(Since(reqs', k, c) \cap ahead) < LimitOf(k)
      BY <3>3, <3>4, <3>5, <3>6
    <3> QED BY <3>7 DEF c
  <2> QED BY <1>4, <1>5, <1>6, <2>1, <2>2 DEF AnswerHolds
<1>12. ASSUME NEW p \in Requests
       PROVE  /\ reqs'[p].pc \in Steps
              /\ reqs'[p].pc = "refused" => AnswerHolds(reqs', p)
  <2>1. CASE p = q
    BY <1>5, <1>6, <1>11, <2>1 DEF Steps
  <2>2. CASE p # q
    <3>1. reqs'[p] = reqs[p] /\ reqs[p].pc \in Steps
      BY <1>6, <2>2 DEF LimiterInv
    <3>2. ASSUME reqs'[p].pc = "refused"
          PROVE  AnswerHolds(reqs', p)
      <4>1. AnswerHolds(reqs, p) /\ reqs[p].target \in Slugs \cup {Admin}
        BY <3>1, <3>2 DEF LimiterInv, Asked
      <4> QED BY <1>7, <3>1, <4>1, AnswerStays
    <3> QED BY <3>1, <3>2
  <2> QED BY <2>1, <2>2
<1> QED BY <1>1, <1>2, <1>8, <1>9, <1>10, <1>12 DEF LimiterInv

\* The slot of the attempt that succeeded is the one given back.
LEMMA GiveBackKeeps ==
    ASSUME LimiterInv, DoorInv, NEW q \in Requests, Succeeds(q)
    PROVE  LimiterInv'
<1> DEFINE target == reqs[q].target
           stamp == reqs[q].at
           b == [k \in Keys |-> IF k \in KeysOf(target) THEN RemoveFirst(buckets[k], stamp)
                                ELSE buckets[k]]
<1>1. /\ reqs[q].pc = "checking" /\ now' = now
      /\ buckets' = b /\ order' = Present(b, order)
      /\ reqs' = [reqs EXCEPT ![q] = Finished]
  BY DEF Succeeds, GiveBack
<1>2. now \in Nat /\ Bucketed(buckets, reqs, now) /\ Listed(buckets, order) /\ Asked(reqs, now)
  BY DEF LimiterInv
<1>3. target \in Slugs \cup {Admin} /\ stamp \in Nat
  BY <1>1, <1>2 DEF Asked
<1>4. reqs'[q] = Finished /\ \A p \in Requests \ {q} : reqs'[p] = reqs[p]
  BY <1>1 DEF DoorInv, Shape
<1>5. \A k \in Keys : /\ UpTo(buckets[k], now) /\ buckets[k] \in Seq(Nat)
                      /\ Len(buckets[k]) \in Nat /\ Len(buckets[k]) <= LimitOf(k)
                      /\ LimitOf(k) \in Nat
  BY <1>2, LimitIs DEF Bucketed
<1>6. ASSUME NEW k \in Keys
      PROVE  /\ UpTo(b[k], now) /\ b[k] \in Seq(Nat) /\ Len(b[k]) <= Len(buckets[k])
             /\ Len(b[k]) <= LimitOf(k)
  <2>1. b[k] = IF k \in KeysOf(target) THEN RemoveFirst(buckets[k], stamp) ELSE buckets[k]
    OBVIOUS
  <2> HIDE DEF b
  <2>2. CASE k \in KeysOf(target)
    <3>1. /\ UpTo(RemoveFirst(buckets[k], stamp), now)
          /\ Len(RemoveFirst(buckets[k], stamp)) <= Len(buckets[k])
      BY <1>2, <1>5, RemoveOne
    <3>2. UpTo(b[k], now) /\ Len(b[k]) <= Len(buckets[k])
      BY <2>1, <2>2, <3>1
    <3>3. b[k] \in Seq(Nat) /\ Len(b[k]) \in Nat
      BY <3>2 DEF UpTo
    <3> QED BY <1>5, <3>2, <3>3
  <2>3. CASE k \notin KeysOf(target)
    BY <1>5, <2>1, <2>3
  <2> QED BY <2>2, <2>3
<1>7. ASSUME NEW k \in Keys, NEW e \in Int, e > now - Window
      PROVE  Cardinality(Slots(b[k], e)) = Cardinality(Attempts(reqs', k, e))
  <2>1. Cardinality(Slots(buckets[k], e)) = Cardinality(Attempts(reqs, k, e))
    BY <1>2, <1>7 DEF Bucketed, Matches
  <2>2. CASE k \in KeysOf(target) /\ e = stamp
    <3>1. b[k] = RemoveFirst(buckets[k], stamp)
      BY <2>2
    <3> HIDE DEF b
    <3>2. Attempts(reqs', k, e) = Attempts(reqs, k, e) \ {q} /\ q \in Attempts(reqs, k, e)
      BY <1>1, <1>4, <2>2, FinishedIs DEF Attempts, Counting
    <3>3. Cardinality(Attempts(reqs', k, e)) = Cardinality(Attempts(reqs, k, e)) - 1
      BY <3>2, CountingIsFinite, FS_RemoveElement
    <3>4. Slots(buckets[k], e) # {}
      <4>1. Cardinality(Attempts(reqs, k, e)) # 0
        BY <3>2, CountingIsFinite, FS_EmptySet
      <4> QED BY <2>1, <4>1, FS_EmptySet
    <3>5. Cardinality(Slots(b[k], e)) = Cardinality(Slots(buckets[k], e)) - 1
      BY <1>2, <1>5, <2>2, <3>1, <3>4, RemoveOne
    <3> QED BY <2>1, <3>3, <3>5
  <2>3. CASE ~(k \in KeysOf(target) /\ e = stamp)
    <3>1. b[k] = IF k \in KeysOf(target) THEN RemoveFirst(buckets[k], stamp) ELSE buckets[k]
      OBVIOUS
    <3> HIDE DEF b
    <3>2. Attempts(reqs', k, e) = Attempts(reqs, k, e)
      BY <1>1, <1>4, <2>3, FinishedIs DEF Attempts, Counting
    <3>3. Cardinality(Slots(b[k], e)) = Cardinality(Slots(buckets[k], e))
      <4>1. CASE k \in KeysOf(target)
        BY <1>2, <1>5, <2>3, <3>1, <4>1, RemoveOne
      <4>2. CASE k \notin KeysOf(target)
        BY <3>1, <4>2
      <4> QED BY <4>1, <4>2
    <3> QED BY <2>1, <3>2, <3>3
  <2> QED BY <2>2, <2>3
<1>8. Bucketed(b, reqs', now)
  <2>1. b \in [Keys -> Seq(Nat)]
    BY <1>6
  <2> HIDE DEF b
  <2>2. Matches(b, reqs', now)
    BY <1>7 DEF Matches
  <2> QED BY <1>6, <2>1, <2>2 DEF Bucketed
<1> HIDE DEF b
<1>9. Listed(b, order')
  <2>1. \A k \in Keys : b[k] # <<>> => buckets[k] # <<>>
    <3>1. ASSUME NEW k \in Keys, buckets[k] = <<>>
          PROVE  b[k] = <<>>
      <4>1. Len(buckets[k]) = 0
        BY <3>1
      <4> QED BY <1>6, <4>1
    <3> QED BY <3>1
  <2>2. Lists(b, order)
    BY <1>2, <2>1 DEF Listed, Lists
  <2> QED BY <1>1, <2>2, PresentIs
<1>10. /\ now' \in Nat /\ Asked(reqs', now')
       /\ \A p \in Requests : /\ reqs'[p].pc \in Steps
                              /\ reqs'[p].pc = "refused" => AnswerHolds(reqs', p)
  <2>1. Finished.pc \in Steps \ {"new", "refused"} /\ Finished.pc = "done"
    BY FinishedIs DEF Steps
  <2> QED BY <1>1, <1>4, <2>1, RequestMoves
<1> QED BY <1>1, <1>8, <1>9, <1>10 DEF LimiterInv

\* A step of a request that leaves the limiter alone.
LEMMA LimiterStays ==
    ASSUME LimiterInv, UNCHANGED <<now, limiter>>, NEW q \in Requests, NEW r, reqs'[q] = r,
           \A p \in Requests \ {q} : reqs'[p] = reqs[p],
           r.pc \in Steps \ {"new", "refused"},
           r.pc \in {"checking", "failed"} <=> reqs[q].pc \in {"checking", "failed"},
           r.pc \in {"checking", "failed"} => r.target = reqs[q].target /\ r.at = reqs[q].at
    PROVE  LimiterInv'
<1>1. buckets' = buckets /\ order' = order /\ now' = now
  BY DEF limiter
<1>2. SameCounts(reqs, reqs')
  BY DEF SameCounts
<1>3. Bucketed(buckets, reqs', now)
  BY <1>2, BucketsStay DEF LimiterInv
<1>4. r.pc \in {"checking", "failed"} =>
         /\ r.target \in Slugs \cup {Admin} /\ r.at \in Nat /\ r.at <= now
         /\ reqs[q].pc \in {"checking", "failed"}
         /\ r.target = reqs[q].target /\ r.at = reqs[q].at
  BY DEF LimiterInv, Asked
<1>5. /\ now' \in Nat /\ Asked(reqs', now')
      /\ \A p \in Requests : /\ reqs'[p].pc \in Steps
                             /\ reqs'[p].pc = "refused" => AnswerHolds(reqs', p)
  BY <1>1, <1>4, RequestMoves
<1> QED BY <1>1, <1>3, <1>5 DEF LimiterInv

\* A request that fails, or that makes a room, is as far from the limiter.
LEMMA RequestKeeps ==
    ASSUME LimiterInv, DoorInv, NEW q \in Requests,
           Fails(q) \/ FinishRoom(q) \/ \E i \in Invitations : StartRoom(q, i)
    PROVE  LimiterInv'
<1>0. IsRequest(reqs[q]) /\ reqs = [p \in Requests |-> reqs[p]]
  BY DEF DoorInv, Shape
<1>1. PICK r : /\ reqs' = [reqs EXCEPT ![q] = r]
               /\ r.pc \in Steps \ {"new", "refused"}
               /\ r.pc \in {"checking", "failed"} <=> reqs[q].pc \in {"checking", "failed"}
               /\ r.pc \in {"checking", "failed"} => r.target = reqs[q].target /\ r.at = reqs[q].at
  <2>1. CASE Fails(q)
    <3> DEFINE r == [reqs[q] EXCEPT !.pc = "failed"]
    <3>1. reqs' = [reqs EXCEPT ![q] = r] /\ reqs[q].pc = "checking"
      BY <2>1 DEF Fails
    <3>2. r.pc = "failed" /\ r.target = reqs[q].target /\ r.at = reqs[q].at
      BY <1>0 DEF IsRequest, Fields
    <3> HIDE DEF r
    <3> QED BY <3>1, <3>2 DEF Steps
  <2>2. CASE FinishRoom(q)
    <3>1. reqs[q].pc = "hashing"
      BY <2>2 DEF FinishRoom
    <3>2. CASE reqs' = [reqs EXCEPT ![q] = Finished]
      BY <3>1, <3>2, FinishedIs DEF Steps
    <3>3. CASE ActiveInTransaction(reqs[q].target)
      <4> DEFINE i == reqs[q].target
                 invalid == i \in revoked \/ Seconds >= issued[i] \div Second + Lifetime
                 r == [reqs[q] EXCEPT !.pc = "created", !.at = now, !.invalid = invalid]
      <4>1. reqs' = [reqs EXCEPT ![q] = r]
        BY <2>2, <3>3 DEF FinishRoom
      <4> HIDE DEF invalid
      <4>2. r.pc = "created"
        BY <1>0 DEF IsRequest, Fields
      <4> HIDE DEF r
      <4> QED BY <3>1, <4>1, <4>2 DEF Steps
    <3> QED BY <2>2, <3>2, <3>3 DEF FinishRoom
  <2>3. CASE \E i \in Invitations : StartRoom(q, i)
    <3>1. PICK i \in Invitations : StartRoom(q, i)
      BY <2>3
    <3> DEFINE r == [reqs[q] EXCEPT !.pc = "hashing", !.target = i]
    <3>2. reqs[q].pc = "new"
          /\ (reqs' = [reqs EXCEPT ![q] = Finished] \/ reqs' = [reqs EXCEPT ![q] = r])
      BY <3>1 DEF StartRoom
    <3>3. r.pc = "hashing"
      BY <1>0 DEF IsRequest, Fields
    <3> HIDE DEF r
    <3>4. CASE reqs' = [reqs EXCEPT ![q] = Finished]
      BY <3>2, <3>4, FinishedIs DEF Steps
    <3>5. CASE reqs' = [reqs EXCEPT ![q] = r]
      BY <3>2, <3>3, <3>5 DEF Steps
    <3> QED BY <3>2, <3>4, <3>5
  <2> QED BY <2>1, <2>2, <2>3
<1>2. reqs'[q] = r /\ \A p \in Requests \ {q} : reqs'[p] = reqs[p]
  BY <1>0, <1>1
<1>3. UNCHANGED <<now, limiter>>
  BY DEF Fails, FinishRoom, StartRoom
<1> QED BY <1>1, <1>2, <1>3, LimiterStays

\* Time goes on: what expires is looked at no more.
LEMMA TickKeeps ==
    ASSUME LimiterInv, Tick
    PROVE  LimiterInv'
<1>1. /\ now' = now + 1 /\ buckets' = buckets /\ order' = order /\ reqs' = reqs
      /\ now \in Nat /\ Window \in Nat
  BY ClockTicks DEF Tick, limiter, LimiterInv
<1>2. \A k \in Keys : UpTo(buckets[k], now + 1)
  BY <1>1 DEF LimiterInv, Bucketed, UpTo
<1>3. Matches(buckets, reqs, now + 1)
  BY <1>1 DEF LimiterInv, Bucketed, Matches
<1>4. Bucketed(buckets, reqs, now + 1)
  BY <1>2, <1>3 DEF LimiterInv, Bucketed
<1>5. Asked(reqs, now + 1)
  BY <1>1 DEF LimiterInv, Asked
<1>6. now + 1 \in Nat
  BY <1>1
<1> QED BY <1>1, <1>4, <1>5, <1>6 DEF LimiterInv

LEMMA LimiterUnchanged ==
    ASSUME LimiterInv, UNCHANGED <<now, limiter, reqs>>
    PROVE  LimiterInv'
<1>1. now' = now /\ buckets' = buckets /\ order' = order /\ reqs' = reqs
  BY DEF limiter
<1> QED BY <1>1 DEF LimiterInv

LEMMA LimiterInit ==
    ASSUME Init
    PROVE  LimiterInv
<1>1. \A q \in Requests : reqs[q].pc = "new"
  BY DEF Init, NewRequest
<1>2. \A k \in Keys : buckets[k] = <<>>
  BY DEF Init
<1>3. Bucketed(buckets, reqs, now)
  <2>1. \A k \in Keys : UpTo(buckets[k], now) /\ Len(buckets[k]) <= LimitOf(k)
    <3>1. ASSUME NEW k \in Keys
          PROVE  UpTo(buckets[k], now) /\ Len(buckets[k]) <= LimitOf(k)
      <4>1. LimitOf(k) \in Nat
        BY LimitIs
      <4>2. buckets[k] = <<>>
        BY <1>2
      <4> QED BY <4>1, <4>2 DEF UpTo
    <3> QED BY <3>1
  <2>2. ASSUME NEW k \in Keys, NEW e
        PROVE  Cardinality(Slots(buckets[k], e)) = Cardinality(Attempts(reqs, k, e))
    <3>1. Slots(buckets[k], e) = {}
      BY <1>2 DEF Slots
    <3>2. Attempts(reqs, k, e) = {}
      BY <1>1 DEF Attempts, Counting
    <3> QED BY <3>1, <3>2
  <2>3. buckets \in [Keys -> Seq(Nat)]
    BY DEF Init
  <2> QED BY <2>1, <2>2, <2>3 DEF Bucketed, Matches
<1>4. Listed(buckets, order)
  <2>1. order = <<>>
    BY DEF Init
  <2>2. order \in Seq(Keys) /\ Len(order) = 0
    BY <2>1
  <2> QED BY <1>2, <2>2 DEF Listed, Lists, NoRepeat, Contains
<1>5. now \in Nat
  BY DEF Init
<1>6. Asked(reqs, now)
  BY <1>1 DEF Asked
<1> QED BY <1>1, <1>3, <1>4, <1>5, <1>6 DEF LimiterInv, Steps

LEMMA LimiterNext ==
    ASSUME LimiterInv, DoorInv, [Next]_vars
    PROVE  LimiterInv'
<1>1. ASSUME NEW q \in Requests, NEW target \in Slugs \cup {Admin}, Attempt(q, target)
      PROVE  LimiterInv'
  BY <1>1, TakeKeeps, RefuseKeeps
<1>2. ASSUME NEW q \in Requests, Fails(q) \/ FinishRoom(q)
      PROVE  LimiterInv'
  BY <1>2, RequestKeeps
<1>3. ASSUME NEW q \in Requests, NEW i \in Invitations, StartRoom(q, i)
      PROVE  LimiterInv'
  BY <1>3, RequestKeeps
<1>4. ASSUME NEW q \in Requests, Succeeds(q)
      PROVE  LimiterInv'
  BY <1>4, GiveBackKeeps
<1>5. ASSUME NEW i \in Invitations, Issue(i) \/ IssueListed(i) \/ Revoke(i)
      PROVE  LimiterInv'
  BY <1>5, LimiterUnchanged DEF Issue, IssueListed, Revoke
<1>6. CASE List \/ AdminSignsOut
  BY <1>6, LimiterUnchanged DEF List, AdminSignsOut
<1>7. CASE Tick
  BY <1>7, TickKeeps
<1>8. CASE UNCHANGED vars
  BY <1>8, LimiterUnchanged DEF vars
<1> QED BY <1>1, <1>2, <1>3, <1>4, <1>5, <1>6, <1>7, <1>8 DEF Next

\* The inductive invariant of the limiter.
THEOREM LimiterInvariant == Spec => []LimiterInv
<1>1. Init => LimiterInv
  BY LimiterInit
<1>2. LimiterInv /\ DoorInv /\ [Next]_vars => LimiterInv'
  BY LimiterNext
<1> QED BY <1>1, <1>2, DoorInvariant, PTL DEF Spec

\* The slots of the last minute are the attempts that failed or are being
\* checked, in every bucket, also when buckets were dropped to save memory.
THEOREM SlotsCountAttempts == Spec => []SlotsAreAttempts
<1>1. LimiterInv => SlotsAreAttempts
  <2>1. SUFFICES ASSUME LimiterInv, NEW k \in Keys, NEW stamp \in (now - Window + 1)..now
                 PROVE  Cardinality({n \in DOMAIN buckets[k] : buckets[k][n] = stamp})
                          = Cardinality({q \in Counts(k) : reqs[q].at = stamp})
    BY DEF SlotsAreAttempts
  <2>2. stamp \in Int /\ stamp > now - Window
    <3>1. now \in Nat /\ Window \in Nat
      BY <2>1, ClockTicks DEF LimiterInv
    <3> QED BY <2>1, <3>1
  <2>3. Cardinality(Slots(buckets[k], stamp)) = Cardinality(Attempts(reqs, k, stamp))
    BY <2>1, <2>2 DEF LimiterInv, Bucketed, Matches
  <2>4. Slots(buckets[k], stamp) = {n \in DOMAIN buckets[k] : buckets[k][n] = stamp}
    BY DEF Slots
  <2>5. Attempts(reqs, k, stamp) = {q \in Counts(k) : reqs[q].at = stamp}
    BY DEF Attempts, Counting, Counts
  <2> QED BY <2>3, <2>4, <2>5
<1> QED BY <1>1, LimiterInvariant, PTL

\* Who waits as long as the answer says finds fewer than the limit left of the
\* attempts that were ahead.
THEOREM WaitingSuffices == Spec => []RetryAfterSuffices
<1>1. LimiterInv => RetryAfterSuffices
  <2>1. SUFFICES ASSUME LimiterInv, NEW q \in Requests, reqs[q].pc = "refused",
                        now >= reqs[q].at + reqs[q].retryAfter * Second,
                        NEW k \in KeysOf(reqs[q].target)
                 PROVE  Cardinality({p \in Counts(k) \cap reqs[q].ahead : reqs[p].at > now - Window})
                          < LimitOf(k)
    BY DEF RetryAfterSuffices
  <2> DEFINE c == reqs[q].at + reqs[q].retryAfter * Second - Window
             S == {p \in Counts(k) \cap reqs[q].ahead : reqs[p].at > now - Window}
             T == Since(reqs, k, c) \cap reqs[q].ahead
  <2>2. /\ AnswerHolds(reqs, q) /\ reqs[q].at \in Nat /\ now \in Nat /\ Window \in Nat
        /\ reqs[q].target \in Slugs \cup {Admin} /\ reqs[q].retryAfter * Second \in Int
    BY <2>1, ClockTicks DEF LimiterInv, Asked, AnswerHolds
  <2>3. c \in Int /\ c <= now - Window
    BY <2>1, <2>2
  <2>4. Cardinality(T) < LimitOf(k)
    BY <2>2 DEF AnswerHolds
  <2> HIDE DEF c
  <2>5. \A p \in Counts(k) : p \in Counting(reqs, k) /\ reqs[p].at \in Int
    BY <2>1 DEF Counts, Counting, LimiterInv, Asked
  <2>6. S \in SUBSET T
    BY <2>2, <2>3, <2>5 DEF Since
  <2>7. IsFiniteSet(T)
    <3>1. IsFiniteSet(Since(reqs, k, c))
      BY CountingIsFinite
    <3> QED BY <3>1, FS_Subset
  <2> HIDE DEF S, T
  <2>8. Cardinality(S) <= Cardinality(T) /\ Cardinality(S) \in Nat /\ Cardinality(T) \in Nat
    BY <2>6, <2>7, FS_Subset, FS_CardinalityType
  <2>9. LimitOf(k) \in Nat
    BY <2>2, LimitIs, KeysOfIs
  <2>10. Cardinality(S) < LimitOf(k)
    BY <2>4, <2>8, <2>9
  <2> QED BY <2>10 DEF S
<1> QED BY <1>1, LimiterInvariant, PTL
-----------------------------------------------------------------------------
\* Only tokens that were given out are revoked or listed.
TokensOK == revoked \cup listing \subseteq {i \in Invitations : issued[i] # None}

LEMMA TokensNext ==
    ASSUME TokensOK, DoorInv, [Next]_vars
    PROVE  TokensOK'
<1>0. issued \in [Invitations -> Int \cup {None}] /\ now \in Int
  BY DEF DoorInv, Shape
<1>1. ASSUME NEW i \in Invitations, Issue(i)
      PROVE  TokensOK'
  <2>1. /\ revoked' = revoked /\ listing' = listing \cup {i}
        /\ issued' = [issued EXCEPT ![i] = now]
    BY <1>1 DEF Issue
  <2>2. now # None
    BY <1>0, NoneIsNoTime
  <2> QED BY <1>0, <2>1, <2>2 DEF TokensOK
<1>2. ASSUME NEW i \in Invitations, Revoke(i)
      PROVE  TokensOK'
  <2>1. /\ revoked' = revoked \cup {i} /\ listing' = listing /\ issued' = issued
        /\ invitations[i] # None
    BY <1>2 DEF Revoke
  <2>2. issued[i] # None
    BY <2>1, NoneIsNoTime DEF DoorInv, RowTells
  <2> QED BY <2>1, <2>2 DEF TokensOK
<1>3. ASSUME NEW i \in Invitations, IssueListed(i)
      PROVE  TokensOK'
  BY <1>3 DEF IssueListed, TokensOK
<1>4. ASSUME UNCHANGED <<issued, revoked, listing>>
      PROVE  TokensOK'
  BY <1>4 DEF TokensOK
<1>5. ASSUME NEW q \in Requests, NEW target, Attempt(q, target)
      PROVE  TokensOK'
  BY <1>4, <1>5 DEF Attempt, invites
<1>6. ASSUME NEW q \in Requests, Fails(q) \/ Succeeds(q) \/ FinishRoom(q)
      PROVE  TokensOK'
  BY <1>4, <1>6 DEF Fails, Succeeds, FinishRoom, invites
<1>7. ASSUME NEW q \in Requests, NEW i \in Invitations, StartRoom(q, i)
      PROVE  TokensOK'
  BY <1>4, <1>7 DEF StartRoom, invites
<1>8. CASE List \/ AdminSignsOut \/ Tick \/ UNCHANGED vars
  BY <1>4, <1>8 DEF List, AdminSignsOut, Tick, vars, invites
<1> QED BY <1>1, <1>2, <1>3, <1>5, <1>6, <1>7, <1>8 DEF Next

\* The tables, the buckets and the requests keep their shape: no bucket goes
\* over its limit or holds its stamps out of order, and the dict of the buckets
\* holds those that have stamps.
THEOREM TypeCorrect == Spec => []TypeOK
<1>1. Init => TokensOK
  BY DEF Init, TokensOK
<1>2. TokensOK /\ DoorInv /\ [Next]_vars => TokensOK'
  BY TokensNext
<1>3. TokensOK /\ DoorInv /\ LimiterInv => TypeOK
  <2>1. SUFFICES ASSUME TokensOK, DoorInv, LimiterInv
                 PROVE  TypeOK
    OBVIOUS
  <2>2. invitations \in [Invitations -> InvitationRow \cup {None}]
    BY <2>1 DEF DoorInv, Shape
  <2>3. \A q \in Requests :
          /\ reqs[q].pc \in Steps
          /\ reqs[q].pc \in {"hashing", "created"} => reqs[q].target \in Invitations
          /\ reqs[q].pc \in {"checking", "failed", "refused"} => reqs[q].target \in Slugs \cup {Admin}
    BY <2>1 DEF DoorInv, Shape, LimiterInv, Asked
  <2>4. ASSUME NEW k \in Keys
        PROVE  /\ Len(buckets[k]) <= LimitOf(k)
               /\ \A m, n \in DOMAIN buckets[k] : m <= n => buckets[k][m] <= buckets[k][n]
               /\ buckets[k] # <<>> <=> Contains(order, k)
    <3>1. UpTo(buckets[k], now) /\ Len(buckets[k]) <= LimitOf(k)
      BY <2>1 DEF LimiterInv, Bucketed
    <3>2. DOMAIN buckets[k] = 1..Len(buckets[k])
      BY <3>1 DEF UpTo
    <3>3. \A m, n \in DOMAIN buckets[k] : m <= n => buckets[k][m] <= buckets[k][n]
      BY <3>1, <3>2 DEF UpTo
    <3>4. buckets[k] # <<>> <=> Contains(order, k)
      BY <2>1 DEF LimiterInv, Listed, Lists
    <3> QED BY <3>1, <3>3, <3>4
  <2> QED BY <2>1, <2>2, <2>3, <2>4 DEF TypeOK, TokensOK, Steps
<1> QED BY <1>1, <1>2, <1>3, DoorInvariant, LimiterInvariant, PTL DEF Spec
=============================================================================
