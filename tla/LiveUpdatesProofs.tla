-------------------------- MODULE LiveUpdatesProofs --------------------------
(***************************************************************************)
(* Proofs about LiveUpdates and the RoomAccess below it, for any slugs,    *)
(* passwords, requests and streams and any limits.  The inductive          *)
(* invariant is TypeOK with LiveInv and SlotsAreHeld; one lemma per action *)
(* shows that it is kept.                                                  *)
(***************************************************************************)
EXTENDS LiveUpdates, FiniteSetTheorems, TLAPS

\* AccessTypeOK, in two parts: the shapes, and the limit on tokens.
Shapes ==
    /\ rooms \in [Slugs -> RoomRow \cup {None}]
    /\ deleted \subseteq Slugs
    /\ tokens \in [Requests -> TokenRow \cup {None}]
    /\ reqs \in [Requests -> Request]
    /\ wakes \subseteq Nat
TokensOf(toks, room) == {r \in Requests : toks[r] # None /\ toks[r].room = room}
SessionLimit ==
    \A s \in Slugs : rooms[s] # None => Cardinality(TokensOf(tokens, rooms[s].id)) <= MaxSessions

\* The two parts are AccessTypeOK.
LEMMA TypeParts == AccessTypeOK <=> Shapes /\ SessionLimit
  BY DEF AccessTypeOK, Shapes, SessionLimit, TokensOf

\* A row is never taken for "no such row".
LEMMA RowsAreNotNone ==
    /\ None \notin RoomRow
    /\ None \notin TokenRow
    /\ None \notin Slugs
    /\ None \notin Passwords
    /\ None \notin Requests
  BY NoneIsNoRow DEF RoomRow, TokenRow

-----------------------------------------------------------------------------
(* Tokens.                                                                 *)

\* The tokens of a room that are newer than r's.
Newer(toks, room, r) == {q \in Requests : /\ toks[q] # None
                                          /\ toks[q].room = room
                                          /\ toks[q].at > toks[r].at}

\* Pruning keeps a row as it is or takes it away, other rooms' rows it keeps, and a row of
\* the room goes only if the room has MaxSessions newer ones.
LEMMA PruneKeepsRows ==
    ASSUME NEW toks \in [Requests -> TokenRow \cup {None}], NEW room
    PROVE  /\ KeepNewest(toks, room) \in [Requests -> TokenRow \cup {None}]
           /\ \A r \in Requests :
                 \/ KeepNewest(toks, room)[r] = toks[r]
                 \/ /\ KeepNewest(toks, room)[r] = None
                    /\ toks[r].room = room
                    /\ Cardinality(Newer(toks, room, r)) >= MaxSessions
           /\ \A r \in TokensOf(KeepNewest(toks, room), room) :
                 ~(Cardinality(Newer(toks, room, r)) >= MaxSessions)
  BY DEF KeepNewest, Newer, TokensOf

\* Pruning leaves a room at most MaxSessions tokens: of two that stay, the older one has
\* more newer tokens than the other, so the number of newer ones tells them apart.
LEMMA PruneBounds ==
    ASSUME NEW toks \in [Requests -> TokenRow \cup {None}], NEW room,
           \A q, r \in Requests :
              toks[q] # None /\ toks[r] # None /\ toks[q].at = toks[r].at => q = r
    PROVE  Cardinality(TokensOf(KeepNewest(toks, room), room)) <= MaxSessions
  <1>. DEFINE K == TokensOf(KeepNewest(toks, room), room)
              f == [r \in K |-> Cardinality(Newer(toks, room, r))]
              T == 0..(MaxSessions - 1)
  <1>1. IsFiniteSet(K)
    BY FiniteNames, FS_Subset DEF TokensOf
  <1>2. \A r \in K : /\ r \in Requests /\ toks[r] # None /\ toks[r].room = room
                     /\ toks[r].at \in Nat
                     /\ IsFiniteSet(Newer(toks, room, r))
                     /\ Cardinality(Newer(toks, room, r)) \in Nat
                     /\ Cardinality(Newer(toks, room, r)) < MaxSessions
    <2>. SUFFICES ASSUME NEW r \in K
                  PROVE  /\ r \in Requests /\ toks[r] # None /\ toks[r].room = room
                         /\ toks[r].at \in Nat
                         /\ IsFiniteSet(Newer(toks, room, r))
                         /\ Cardinality(Newer(toks, room, r)) \in Nat
                         /\ Cardinality(Newer(toks, room, r)) < MaxSessions
      OBVIOUS
    <2>1. r \in Requests /\ toks[r] # None /\ toks[r].room = room
      BY PruneKeepsRows, RowsAreNotNone DEF TokensOf
    <2>2. toks[r].at \in Nat
      BY <2>1 DEF TokenRow
    <2>3. IsFiniteSet(Newer(toks, room, r))
      BY FiniteNames, FS_Subset DEF Newer
    <2>4. Cardinality(Newer(toks, room, r)) \in Nat
      BY <2>3, FS_CardinalityType
    <2>5. ~(Cardinality(Newer(toks, room, r)) >= MaxSessions)
      BY PruneKeepsRows
    <2>. QED  BY <2>1, <2>2, <2>3, <2>4, <2>5, SomeSession
  <1>3. \A q, r \in K : toks[q].at < toks[r].at => f[q] # f[r]
    <2>. SUFFICES ASSUME NEW q \in K, NEW r \in K, toks[q].at < toks[r].at
                  PROVE  Cardinality(Newer(toks, room, q)) # Cardinality(Newer(toks, room, r))
      OBVIOUS
    <2>1. \A x \in Requests : toks[x] # None => toks[x].at \in Nat
      BY RowsAreNotNone DEF TokenRow
    <2>2. /\ q \in Requests /\ toks[q] # None /\ toks[q].room = room /\ toks[q].at \in Nat
          /\ r \in Requests /\ toks[r] # None /\ toks[r].room = room /\ toks[r].at \in Nat
      BY <1>2
    <2>. HIDE DEF K
    <2>3. Newer(toks, room, r) \subseteq Newer(toks, room, q)
      BY <2>1, <2>2 DEF Newer
    <2>4. r \in Newer(toks, room, q) /\ r \notin Newer(toks, room, r)
      BY <2>2 DEF Newer
    <2>. QED  BY <1>2, <2>3, <2>4, FS_Subset
  <1>4. \A q, r \in K : f[q] = f[r] => q = r
    BY <1>2, <1>3
  <1>5. f \in [K -> T]
    BY <1>2, SomeSession
  <1>6. IsFiniteSet(T) /\ Cardinality(T) = MaxSessions
    BY FS_Interval, SomeSession
  <1>7. ~(Cardinality(T) < Cardinality(K))
    <2>. HIDE DEF f, K, T
    <2>1. ASSUME Cardinality(T) < Cardinality(K)
          PROVE  \E q, r \in K : q # r /\ f[q] = f[r]
      BY <1>1, <1>5, <1>6, <2>1, FS_PigeonHole
    <2>. QED  BY <1>4, <2>1
  <1>. QED  BY <1>1, <1>6, <1>7, FS_CardinalityType, SomeSession

\* A new token of a room leaves the others of the room as they are or prunes them, and
\* leaves other rooms alone.
LEMMA InsertKeepsTokens ==
    ASSUME NEW toks \in [Requests -> TokenRow \cup {None}],
           NEW r \in Requests, NEW room \in Nat, NEW version \in Nat,
           \A p, q \in Requests :
              toks[p] # None /\ toks[q] # None /\ toks[p].at = toks[q].at => p = q,
           InsertToken(toks, r, room, version)
    PROVE  /\ tokens' \in [Requests -> TokenRow \cup {None}]
           /\ \A p, q \in Requests :
                 tokens'[p] # None /\ tokens'[q] # None /\ tokens'[p].at = tokens'[q].at => p = q
           /\ \A q \in Requests \ {r} : tokens'[q] = toks[q] \/ tokens'[q] = None
           /\ tokens'[r] # None => tokens'[r].room = room /\ tokens'[r].version = version
           /\ Cardinality(TokensOf(tokens', room)) <= MaxSessions
           /\ \A other \in Nat \ {room} : TokensOf(tokens', other) \subseteq TokensOf(toks, other)
  <1>1. Cardinality(Requests) \in Nat
    BY FiniteNames, FS_CardinalityType
  <1>2. PICK at \in 1..Cardinality(Requests) :
           /\ NextId(TokenIds(toks), at)
           /\ tokens' = KeepNewest([toks EXCEPT ![r] = [room |-> room, version |-> version,
                                                        revoked |-> FALSE, at |-> at]], room)
    BY DEF InsertToken
  <1>. DEFINE row == [room |-> room, version |-> version, revoked |-> FALSE, at |-> at]
              new == [toks EXCEPT ![r] = row]
  <1>3. row \in TokenRow /\ row # None
    <2>1. at \in Nat
      BY <1>1, <1>2
    <2>2. row \in TokenRow
      BY <2>1 DEF TokenRow
    <2>. QED  BY <2>2, RowsAreNotNone
  <1>4. new \in [Requests -> TokenRow \cup {None}]
    BY <1>3
  <1>5. \A q \in Requests : toks[q] # None => toks[q].at < at
    <2>1. \A q \in Requests : toks[q] # None => toks[q].at \in TokenIds(toks)
      BY DEF TokenIds
    <2>. QED  BY <1>2, <2>1 DEF NextId
  <1>6. new[r] = row /\ \A q \in Requests \ {r} : new[q] = toks[q]
    OBVIOUS
  <1>7. row.at = at /\ row.room = room /\ row.version = version
    OBVIOUS
  <1>8. tokens' = KeepNewest(new, room)
    BY <1>2
  <1>. HIDE DEF new, row
  <1>9. \A p, q \in Requests : new[p] # None /\ new[q] # None /\ new[p].at = new[q].at => p = q
    <2>1. \A q \in Requests \ {r} : new[q] # None => new[q].at # row.at
      BY <1>1, <1>5, <1>6, <1>7, RowsAreNotNone DEF TokenRow
    <2>. QED  BY <1>6, <2>1
  <1>10. /\ tokens' \in [Requests -> TokenRow \cup {None}]
         /\ \A q \in Requests : tokens'[q] = new[q] \/ tokens'[q] = None
    BY <1>4, <1>8, PruneKeepsRows
  <1>11. Cardinality(TokensOf(tokens', room)) <= MaxSessions
    BY <1>4, <1>8, <1>9, PruneBounds
  <1>12. \A other \in Nat \ {room} : TokensOf(tokens', other) \subseteq TokensOf(toks, other)
    BY <1>6, <1>7, <1>10 DEF TokensOf
  <1>. QED  BY <1>6, <1>7, <1>9, <1>10, <1>11, <1>12

\* Without a room's tokens, the other rooms keep theirs.
LEMMA WithoutRoomKeepsTokens ==
    ASSUME Shapes, NEW room
    PROVE  /\ WithoutRoom(room) \in [Requests -> TokenRow \cup {None}]
           /\ \A r \in Requests :
                 \/ WithoutRoom(room)[r] = None
                 \/ WithoutRoom(room)[r] = tokens[r] /\ tokens[r].room # room
  BY DEF WithoutRoom, Shapes

-----------------------------------------------------------------------------
(* One lemma per action on rooms, tokens and requests.                     *)

AccessOK == Shapes /\ SessionLimit /\ AccessInv

\* What keeps the limit: each room that is there has no tokens it did not have under the
\* same id.
LEMMA LimitIsKept ==
    ASSUME Shapes, SessionLimit,
           \A s \in Slugs : rooms'[s] # None =>
              \/ /\ rooms[s] # None
                 /\ rooms'[s].id = rooms[s].id
                 /\ TokensOf(tokens', rooms[s].id) \subseteq TokensOf(tokens, rooms[s].id)
              \/ Cardinality(TokensOf(tokens', rooms'[s].id)) <= MaxSessions
    PROVE  SessionLimit'
  <1>. SUFFICES ASSUME NEW s \in Slugs, rooms'[s] # None
                PROVE  Cardinality(TokensOf(tokens', rooms'[s].id)) <= MaxSessions
    BY DEF SessionLimit
  <1>1. CASE /\ rooms[s] # None
             /\ rooms'[s].id = rooms[s].id
             /\ TokensOf(tokens', rooms[s].id) \subseteq TokensOf(tokens, rooms[s].id)
    <2>. DEFINE S == TokensOf(tokens, rooms[s].id)
                T == TokensOf(tokens', rooms[s].id)
    <2>1. IsFiniteSet(S)
      BY FiniteNames, FS_Subset DEF TokensOf
    <2>2. T \subseteq S /\ Cardinality(S) <= MaxSessions
      BY <1>1 DEF SessionLimit
    <2>. HIDE DEF S, T
    <2>3. Cardinality(T) \in Nat /\ Cardinality(S) \in Nat /\ Cardinality(T) <= Cardinality(S)
      BY <2>1, <2>2, FS_Subset, FS_CardinalityType
    <2>4. Cardinality(T) <= MaxSessions
      BY <2>2, <2>3, SomeSession
    <2>. QED  BY <1>1, <2>4 DEF T
  <1>. QED  BY <1>1

\* A new room has an id no room has, and no token has it either.
LEMMA CreateRoomOK ==
    ASSUME AccessOK, NEW s \in Slugs, NEW p \in Passwords, CreateRoom(s, p)
    PROVE  AccessOK'
  <1>1. PICK id \in 1..Cardinality(Slugs) :
           /\ NextId(RoomIds, id)
           /\ rooms' = [rooms EXCEPT ![s] = [id |-> id, hash |-> p, version |-> 1]]
    BY DEF CreateRoom
  <1>. DEFINE row == [id |-> id, hash |-> p, version |-> 1]
  <1>2. id \in Nat
    BY <1>1, FiniteNames, FS_CardinalityType
  <1>3. row \in RoomRow /\ row # None /\ row.id = id
    <2>1. row \in RoomRow
      BY <1>2 DEF RoomRow
    <2>. QED  BY <2>1, RowsAreNotNone
  <1>4. \A u \in Slugs : rooms[u] # None => rooms[u].id \in RoomIds
    BY DEF RoomIds
  <1>5. \A u \in Slugs : rooms[u] # None => rooms[u].id < id
    BY <1>1, <1>4 DEF NextId
  <1>6. \A u \in Slugs : rooms[u] # None => rooms[u].id # id /\ rooms[u] \in RoomRow
    BY <1>2, <1>5, RowsAreNotNone DEF AccessOK, Shapes, RoomRow
  <1>7. /\ rooms[s] = None /\ s \notin deleted
        /\ rooms' = [rooms EXCEPT ![s] = row]
        /\ UNCHANGED <<deleted, tokens, reqs, wakes>>
    BY <1>1 DEF CreateRoom
  <1>. HIDE DEF row
  <1>8. rooms'[s] = row /\ \A u \in Slugs \ {s} : rooms'[u] = rooms[u]
    BY <1>7 DEF AccessOK, Shapes
  <1>9. Shapes'
    BY <1>3, <1>7 DEF AccessOK, Shapes
  <1>10. SessionLimit'
    <2>1. TokensOf(tokens', id) = {}
      BY <1>6, <1>7 DEF AccessOK, AccessInv, TokensHaveRooms, TokensOf
    <2>2. Cardinality(TokensOf(tokens', id)) <= MaxSessions
      BY <2>1, FS_EmptySet, SomeSession
    <2>. QED  BY <1>3, <1>7, <1>8, <2>2, LimitIsKept DEF AccessOK
  <1>11. OneRowPerId'
    BY <1>3, <1>6, <1>7, <1>8 DEF AccessOK, AccessInv, OneRowPerId
  <1>12. (\A u \in deleted : rooms[u] = None)'
    BY <1>7, <1>8 DEF AccessOK, AccessInv, Shapes
  <1>13. TokensHaveRooms'
    BY <1>7, <1>8 DEF AccessOK, AccessInv, TokensHaveRooms
  <1>14. \A r \in Requests : reqs[r].pc \in {"checked", "issued", "given"} => reqs[r].slug # s
    BY <1>7 DEF AccessOK, AccessInv, RequestsKnowTheirRoom
  <1>15. RequestsKnowTheirRoom'
    BY <1>7, <1>8, <1>14 DEF AccessOK, AccessInv, RequestsKnowTheirRoom
  <1>16. CheckedRowsAreDated'
    BY <1>7, <1>8, <1>14 DEF AccessOK, AccessInv, RequestsKnowTheirRoom, CheckedRowsAreDated
  <1>17. TokensAreProved'
    BY <1>7, <1>8, <1>14 DEF AccessOK, AccessInv, RequestsKnowTheirRoom, TokensAreProved, Valid, Given
  <1>. QED  BY <1>9, <1>10, <1>11, <1>12, <1>13, <1>15, <1>16, <1>17 DEF AccessOK, AccessInv

\* A row whose password is replaced keeps its id and gets a later version.
LEMMA ReplacedRow ==
    ASSUME NEW row \in RoomRow, NEW p \in Passwords
    PROVE  /\ Replaced(row, p) \in RoomRow
           /\ Replaced(row, p) # None
           /\ Replaced(row, p).id = row.id
           /\ Replaced(row, p).hash = p
           /\ Replaced(row, p).version = row.version + 1
  <1>1. Replaced(row, p) = [id |-> row.id, hash |-> p, version |-> row.version + 1]
    BY DEF Replaced
  <1>2. Replaced(row, p) \in RoomRow
    BY <1>1 DEF RoomRow
  <1>. QED  BY <1>1, <1>2, RowsAreNotNone

\* An admin's reset: the room's tokens are gone, and what was checked before is out of date.
LEMMA AdminResetOK ==
    ASSUME AccessOK, NEW s \in Slugs, NEW p \in Passwords, AdminReset(s, p)
    PROVE  AccessOK'
  <1>. DEFINE row == Replaced(rooms[s], p)
  <1>1. rooms[s] \in RoomRow /\ rooms[s].id \in Nat /\ rooms[s].version \in Nat
    BY DEF AdminReset, AccessOK, Shapes, RoomRow
  <1>2. row \in RoomRow /\ row # None /\ row.id = rooms[s].id /\ row.version = rooms[s].version + 1
    BY <1>1, ReplacedRow
  <1>. HIDE DEF row
  <1>3. /\ rooms[s] # None
        /\ rooms' = [rooms EXCEPT ![s] = row]
        /\ tokens' = WithoutRoom(rooms[s].id)
        /\ wakes' = wakes \cup {rooms[s].id}
        /\ UNCHANGED <<deleted, reqs>>
    BY DEF AdminReset, row
  <1>4. rooms'[s] = row /\ \A u \in Slugs \ {s} : rooms'[u] = rooms[u]
    BY <1>3 DEF AccessOK, Shapes
  <1>5. /\ tokens' \in [Requests -> TokenRow \cup {None}]
        /\ \A r \in Requests :
              tokens'[r] = None \/ (tokens'[r] = tokens[r] /\ tokens[r].room # rooms[s].id)
    <2>1. Shapes
      BY DEF AccessOK
    <2>. QED  BY <1>3, <2>1, WithoutRoomKeepsTokens
  <1>6. Shapes'
    BY <1>1, <1>2, <1>3, <1>5 DEF AccessOK, Shapes
  <1>7. SessionLimit'
    <2>1. \A room : TokensOf(tokens', room) \subseteq TokensOf(tokens, room)
      BY <1>5 DEF TokensOf
    <2>. QED  BY <1>2, <1>3, <1>4, <2>1, LimitIsKept DEF AccessOK
  <1>8. OneRowPerId'
    BY <1>2, <1>3, <1>4, <1>5 DEF AccessOK, AccessInv, OneRowPerId
  <1>9. (\A u \in deleted : rooms[u] = None)'
    BY <1>3, <1>4 DEF AccessOK, AccessInv, Shapes
  <1>10. TokensHaveRooms'
    BY <1>2, <1>4, <1>5 DEF AccessOK, AccessInv, TokensHaveRooms
  <1>11. RequestsKnowTheirRoom'
    BY <1>2, <1>3, <1>4 DEF AccessOK, AccessInv, RequestsKnowTheirRoom
  <1>12. CheckedRowsAreDated'
    <2>1. ASSUME NEW r \in Requests, reqs[r].pc = "checked", reqs[r].slug = s
          PROVE  /\ reqs[r].checked.id = row.id
                 /\ reqs[r].checked.version <= row.version
                 /\ reqs[r].checked.version # row.version
      <3>1. reqs[r].checked \in RoomRow
        BY <2>1 DEF AccessOK, AccessInv, CheckedRowsAreDated, Shapes, Request
      <3>2. reqs[r].checked.version \in Nat
        BY <3>1 DEF RoomRow
      <3>. QED  BY <1>1, <1>2, <1>3, <2>1, <3>2 DEF AccessOK, AccessInv, CheckedRowsAreDated
    <2>. QED  BY <1>2, <1>3, <1>4, <2>1
              DEF AccessOK, AccessInv, RequestsKnowTheirRoom, CheckedRowsAreDated
  <1>13. TokensAreProved'
    <2>1. \A r \in Requests : tokens'[r] # None => tokens'[r].room # rooms[s].id
      BY <1>5
    <2>. QED  BY <1>2, <1>3, <1>4, <1>5, <2>1
              DEF AccessOK, AccessInv, RequestsKnowTheirRoom, TokensAreProved, Valid, Given
  <1>. QED  BY <1>6, <1>7, <1>8, <1>9, <1>10, <1>11, <1>12, <1>13 DEF AccessOK, AccessInv

\* A room's row and its tokens go; the request that asked for it, if any, is finished.
LEMMA DeleteOK ==
    ASSUME AccessOK, NEW s \in Slugs, rooms[s] # None, DeleteRows(s),
           reqs' = reqs \/ \E r \in Requests : reqs' = [reqs EXCEPT ![r] = Finished]
    PROVE  AccessOK'
  <1>1. /\ rooms' = [rooms EXCEPT ![s] = None]
        /\ deleted' = deleted \cup {s}
        /\ tokens' = WithoutRoom(rooms[s].id)
        /\ wakes' = wakes \cup {rooms[s].id}
        /\ rooms[s].id \in Nat
    BY DEF DeleteRows, AccessOK, Shapes, RoomRow
  <1>2. rooms'[s] = None /\ \A u \in Slugs \ {s} : rooms'[u] = rooms[u]
    BY <1>1 DEF AccessOK, Shapes
  <1>3. /\ tokens' \in [Requests -> TokenRow \cup {None}]
        /\ \A r \in Requests :
              tokens'[r] = None \/ (tokens'[r] = tokens[r] /\ tokens[r].room # rooms[s].id)
    <2>1. Shapes
      BY DEF AccessOK
    <2>. QED  BY <1>1, <2>1, WithoutRoomKeepsTokens
  <1>4. Finished \in Request /\ Finished.pc = "done"
    BY DEF Finished, NewRequest, Request
  <1>5. /\ reqs' \in [Requests -> Request]
        /\ \A q \in Requests : reqs'[q] = reqs[q] \/ reqs'[q].pc = "done"
    BY <1>4 DEF AccessOK, Shapes
  <1>6. Shapes'
    BY <1>1, <1>3, <1>5 DEF AccessOK, Shapes
  <1>7. SessionLimit'
    <2>1. \A room : TokensOf(tokens', room) \subseteq TokensOf(tokens, room)
      BY <1>3 DEF TokensOf
    <2>. QED  BY <1>2, <2>1, LimitIsKept DEF AccessOK
  <1>8. OneRowPerId'
    BY <1>2, <1>3 DEF AccessOK, AccessInv, OneRowPerId
  <1>9. (\A u \in deleted : rooms[u] = None)'
    BY <1>1, <1>2 DEF AccessOK, AccessInv, Shapes
  <1>10. TokensHaveRooms'
    BY <1>2, <1>3 DEF AccessOK, AccessInv, TokensHaveRooms
  <1>11. RequestsKnowTheirRoom'
    BY <1>1, <1>2, <1>5 DEF AccessOK, AccessInv, RequestsKnowTheirRoom
  <1>12. CheckedRowsAreDated'
    BY <1>2, <1>5 DEF AccessOK, AccessInv, RequestsKnowTheirRoom, CheckedRowsAreDated
  <1>13. TokensAreProved'
    BY <1>2, <1>3, <1>5 DEF AccessOK, AccessInv, RequestsKnowTheirRoom, TokensAreProved, Valid, Given
  <1>. QED  BY <1>6, <1>7, <1>8, <1>9, <1>10, <1>11, <1>12, <1>13 DEF AccessOK, AccessInv

\* A request that is refused changes nothing else.
LEMMA FinishOK ==
    ASSUME AccessOK, NEW r \in Requests, reqs' = [reqs EXCEPT ![r] = Finished],
           UNCHANGED <<rooms, deleted, tokens, wakes>>
    PROVE  AccessOK'
  <1>1. Finished \in Request /\ Finished.pc = "done"
    BY DEF Finished, NewRequest, Request
  <1>2. /\ reqs' \in [Requests -> Request]
        /\ \A q \in Requests : reqs'[q] = reqs[q] \/ reqs'[q].pc = "done"
    BY <1>1 DEF AccessOK, Shapes
  <1>3. Shapes' /\ SessionLimit'
    BY <1>2 DEF AccessOK, Shapes, SessionLimit, TokensOf
  <1>4. OneRowPerId' /\ (\A u \in deleted : rooms[u] = None)' /\ TokensHaveRooms'
    BY DEF AccessOK, AccessInv, OneRowPerId, TokensHaveRooms
  <1>5. RequestsKnowTheirRoom' /\ CheckedRowsAreDated'
    BY <1>2 DEF AccessOK, AccessInv, RequestsKnowTheirRoom, CheckedRowsAreDated
  <1>6. TokensAreProved'
    BY <1>2 DEF AccessOK, AccessInv, TokensAreProved, Valid, Given
  <1>. QED  BY <1>3, <1>4, <1>5, <1>6 DEF AccessOK, AccessInv

\* A sign-in remembers the row it checked and the password that matches it.
LEMMA SignInCheckOK ==
    ASSUME AccessOK, NEW r \in Requests, NEW s \in Slugs, SignInCheck(r, s)
    PROVE  AccessOK'
  <1>. DEFINE new == [NewRequest EXCEPT !.pc = "checked", !.kind = "signIn", !.slug = s,
                          !.password = rooms[s].hash, !.checked = rooms[s]]
  <1>1. /\ rooms[s] # None /\ rooms[s] \in RoomRow /\ rooms[s].hash \in Passwords
        /\ rooms[s].version \in Nat
    BY DEF SignInCheck, AccessOK, Shapes, RoomRow
  <1>2. /\ new \in Request /\ new.pc = "checked" /\ new.kind = "signIn" /\ new.slug = s
        /\ new.password = rooms[s].hash /\ new.checked = rooms[s]
    BY <1>1 DEF NewRequest, Request
  <1>3. reqs' = [reqs EXCEPT ![r] = new] /\ UNCHANGED <<rooms, deleted, tokens, wakes>>
    BY DEF SignInCheck
  <1>. HIDE DEF new
  <1>4. reqs'[r] = new /\ \A q \in Requests \ {r} : reqs'[q] = reqs[q]
    BY <1>3 DEF AccessOK, Shapes
  <1>5. Shapes' /\ SessionLimit'
    BY <1>2, <1>3 DEF AccessOK, Shapes, SessionLimit, TokensOf
  <1>6. OneRowPerId' /\ (\A u \in deleted : rooms[u] = None)' /\ TokensHaveRooms'
    BY <1>3 DEF AccessOK, AccessInv, OneRowPerId, TokensHaveRooms
  <1>7. RequestsKnowTheirRoom'
    BY <1>1, <1>2, <1>3, <1>4 DEF AccessOK, AccessInv, RequestsKnowTheirRoom
  <1>8. CheckedRowsAreDated'
    BY <1>1, <1>2, <1>3, <1>4 DEF AccessOK, AccessInv, CheckedRowsAreDated
  <1>9. TokensAreProved'
    BY <1>2, <1>3, <1>4 DEF AccessOK, AccessInv, TokensAreProved, Valid, Given
  <1>. QED  BY <1>5, <1>6, <1>7, <1>8, <1>9 DEF AccessOK, AccessInv

\* A token that a sign-in gets is for the room its password was checked in, with the version
\* of that time.
LEMMA SignInIssueOK ==
    ASSUME AccessOK, NEW r \in Requests, SignInIssue(r)
    PROVE  AccessOK'
  <1>. DEFINE row == reqs[r].checked
  <1>1. reqs[r].pc = "checked" /\ reqs[r].kind = "signIn" /\ UNCHANGED <<rooms, deleted, wakes>>
    BY DEF SignInIssue
  <1>2. row \in RoomRow /\ row.id \in Nat /\ row.version \in Nat
    BY <1>1 DEF AccessOK, AccessInv, CheckedRowsAreDated, Shapes, Request, RoomRow
  <1>3. CASE row.id \in RoomIds
    <2>1. /\ InsertToken(tokens, r, row.id, row.version)
          /\ reqs' = [reqs EXCEPT ![r].pc = "issued", ![r].checked = None]
      BY <1>3 DEF SignInIssue
    <2>2. /\ tokens' \in [Requests -> TokenRow \cup {None}]
          /\ \A p, q \in Requests :
                tokens'[p] # None /\ tokens'[q] # None /\ tokens'[p].at = tokens'[q].at => p = q
          /\ \A q \in Requests \ {r} : tokens'[q] = tokens[q] \/ tokens'[q] = None
          /\ tokens'[r] # None => tokens'[r].room = row.id /\ tokens'[r].version = row.version
          /\ Cardinality(TokensOf(tokens', row.id)) <= MaxSessions
          /\ \A other \in Nat \ {row.id} : TokensOf(tokens', other) \subseteq TokensOf(tokens, other)
      <3>1. tokens \in [Requests -> TokenRow \cup {None}]
        BY DEF AccessOK, Shapes
      <3>2. \A p, q \in Requests :
               tokens[p] # None /\ tokens[q] # None /\ tokens[p].at = tokens[q].at => p = q
        BY DEF AccessOK, AccessInv, OneRowPerId
      <3>3. ASSUME NEW room \in Nat, NEW version \in Nat, InsertToken(tokens, r, room, version)
            PROVE  /\ tokens' \in [Requests -> TokenRow \cup {None}]
                   /\ \A p, q \in Requests :
                         tokens'[p] # None /\ tokens'[q] # None /\ tokens'[p].at = tokens'[q].at => p = q
                   /\ \A q \in Requests \ {r} : tokens'[q] = tokens[q] \/ tokens'[q] = None
                   /\ tokens'[r] # None => tokens'[r].room = room /\ tokens'[r].version = version
                   /\ Cardinality(TokensOf(tokens', room)) <= MaxSessions
                   /\ \A other \in Nat \ {room} :
                         TokensOf(tokens', other) \subseteq TokensOf(tokens, other)
        BY <3>1, <3>2, <3>3, InsertKeepsTokens
      <3>4. row.id \in Nat /\ row.version \in Nat /\ InsertToken(tokens, r, row.id, row.version)
        BY <1>2, <2>1
      <3>. HIDE DEF row
      <3>. QED  BY <3>3, <3>4
    <2>3. /\ reqs' \in [Requests -> Request]
          /\ reqs'[r].pc = "issued" /\ reqs'[r].slug = reqs[r].slug
          /\ reqs'[r].password = reqs[r].password
          /\ \A q \in Requests \ {r} : reqs'[q] = reqs[q]
      <3>1. reqs \in [Requests -> Request]
        BY DEF AccessOK, Shapes
      <3>2. reqs' = [reqs EXCEPT ![r].pc = "issued", ![r].checked = None]
        BY <2>1
      <3>. HIDE DEF row
      <3>3. /\ reqs' = [reqs EXCEPT ![r] = reqs'[r]]
            /\ reqs'[r] = [reqs[r] EXCEPT !.pc = "issued", !.checked = None]
        BY <3>1, <3>2
      <3>4. reqs'[r] \in Request
        BY <3>1, <3>3 DEF Request
      <3>5. reqs' \in [Requests -> Request] /\ \A q \in Requests \ {r} : reqs'[q] = reqs[q]
        BY <3>1, <3>3, <3>4
      <3>6. /\ reqs'[r].pc = "issued" /\ reqs'[r].slug = reqs[r].slug
            /\ reqs'[r].password = reqs[r].password
        BY <3>1, <3>3 DEF Request
      <3>. QED  BY <3>5, <3>6
    <2>. HIDE DEF row
    <2>4. Shapes'
      BY <1>1, <2>2, <2>3 DEF AccessOK, Shapes
    <2>5. SessionLimit'
      <3>1. \A s \in Slugs : rooms[s] # None => rooms[s].id \in Nat
        BY DEF AccessOK, Shapes, RoomRow
      <3>. QED  BY <1>1, <2>2, <3>1, LimitIsKept DEF AccessOK
    <2>6. OneRowPerId' /\ (\A u \in deleted : rooms[u] = None)'
      BY <1>1, <2>2 DEF AccessOK, AccessInv, OneRowPerId
    <2>7. TokensHaveRooms'
      BY <1>1, <1>3, <2>2 DEF AccessOK, AccessInv, TokensHaveRooms, RoomIds
    <2>8. RequestsKnowTheirRoom'
      BY <1>1, <2>3 DEF AccessOK, AccessInv, RequestsKnowTheirRoom
    <2>9. CheckedRowsAreDated'
      BY <1>1, <2>3 DEF AccessOK, AccessInv, CheckedRowsAreDated
    <2>10. TokensAreProved'
      <3>1. reqs[r].password = row.hash
        BY <1>1 DEF AccessOK, AccessInv, CheckedRowsAreDated, row
      <3>2. rooms[reqs[r].slug] # None /\ row.version = rooms[reqs[r].slug].version
              => row.hash = rooms[reqs[r].slug].hash
        BY <1>1 DEF AccessOK, AccessInv, CheckedRowsAreDated, row
      <3>3. Valid(r, reqs[r].slug)' => rooms[reqs[r].slug].hash = reqs[r].password
        BY <1>1, <2>2, <2>3, <3>1, <3>2 DEF Valid
      <3>. QED  BY <1>1, <2>2, <2>3, <3>3 DEF AccessOK, AccessInv, TokensAreProved, Valid, Given
    <2>. QED  BY <2>4, <2>5, <2>6, <2>7, <2>8, <2>9, <2>10 DEF AccessOK, AccessInv
  <1>4. CASE row.id \notin RoomIds
    <2>1. reqs' = [reqs EXCEPT ![r] = Finished] /\ UNCHANGED tokens
      BY <1>4 DEF SignInIssue
    <2>. QED  BY <1>1, <2>1, FinishOK
  <1>. QED  BY <1>3, <1>4

\* A browser is given a token only if it opens its room by then.
LEMMA SignInAnswerOK ==
    ASSUME AccessOK, NEW r \in Requests, SignInAnswer(r)
    PROVE  AccessOK'
  <1>1. reqs[r].pc = "issued" /\ UNCHANGED <<rooms, deleted, tokens, wakes>>
    BY DEF SignInAnswer
  <1>2. CASE ~Valid(r, reqs[r].slug)
    <2>1. reqs' = [reqs EXCEPT ![r] = Finished]
      BY <1>2 DEF SignInAnswer
    <2>. QED  BY <1>1, <2>1, FinishOK
  <1>3. CASE Valid(r, reqs[r].slug)
    <2>. DEFINE new == [reqs[r] EXCEPT !.pc = "given", !.kind = None]
    <2>1. reqs' = [reqs EXCEPT ![r] = new]
      BY <1>3 DEF SignInAnswer
    <2>2. /\ new \in Request /\ new.pc = "given" /\ new.slug = reqs[r].slug
          /\ new.password = reqs[r].password
      BY DEF AccessOK, Shapes, Request
    <2>. HIDE DEF new
    <2>3. /\ reqs' \in [Requests -> Request] /\ reqs'[r] = new
          /\ \A q \in Requests \ {r} : reqs'[q] = reqs[q]
      BY <2>1, <2>2 DEF AccessOK, Shapes
    <2>4. Shapes' /\ SessionLimit'
      BY <1>1, <2>3 DEF AccessOK, Shapes, SessionLimit, TokensOf
    <2>5. OneRowPerId' /\ (\A u \in deleted : rooms[u] = None)' /\ TokensHaveRooms'
      BY <1>1 DEF AccessOK, AccessInv, OneRowPerId, TokensHaveRooms
    <2>6. RequestsKnowTheirRoom' /\ CheckedRowsAreDated'
      BY <1>1, <2>2, <2>3 DEF AccessOK, AccessInv, RequestsKnowTheirRoom, CheckedRowsAreDated
    <2>7. TokensAreProved'
      BY <1>1, <1>3, <2>2, <2>3 DEF AccessOK, AccessInv, TokensAreProved, Valid, Given
    <2>. QED  BY <2>4, <2>5, <2>6, <2>7 DEF AccessOK, AccessInv
  <1>. QED  BY <1>2, <1>3

\* A sign-out marks one row.
LEMMA SignOutOK ==
    ASSUME AccessOK, NEW t \in Requests, SignOut(t)
    PROVE  AccessOK'
  <1>. DEFINE row == [tokens[t] EXCEPT !.revoked = TRUE]
  <1>1. tokens[t] # None /\ tokens[t] \in TokenRow /\ tokens' = [tokens EXCEPT ![t] = row]
    BY DEF SignOut, AccessOK, Shapes
  <1>2. /\ row \in TokenRow /\ row.room = tokens[t].room /\ row.version = tokens[t].version
        /\ row.at = tokens[t].at /\ row.revoked
    BY <1>1 DEF TokenRow
  <1>3. row # None
    BY <1>2, RowsAreNotNone
  <1>. HIDE DEF row
  <1>4. /\ tokens' \in [Requests -> TokenRow \cup {None}] /\ tokens'[t] = row
        /\ \A q \in Requests \ {t} : tokens'[q] = tokens[q]
    BY <1>1, <1>2 DEF AccessOK, Shapes
  <1>5. UNCHANGED <<rooms, deleted, reqs, wakes>>
    BY DEF SignOut
  <1>6. Shapes'
    BY <1>4, <1>5 DEF AccessOK, Shapes
  <1>7. SessionLimit'
    <2>1. \A room : TokensOf(tokens', room) \subseteq TokensOf(tokens, room)
      BY <1>1, <1>2, <1>4 DEF TokensOf
    <2>. QED  BY <1>5, <2>1, LimitIsKept DEF AccessOK
  <1>8. OneRowPerId' /\ (\A u \in deleted : rooms[u] = None)' /\ TokensHaveRooms'
    BY <1>1, <1>2, <1>4, <1>5 DEF AccessOK, AccessInv, OneRowPerId, TokensHaveRooms
  <1>9. RequestsKnowTheirRoom' /\ CheckedRowsAreDated'
    BY <1>5 DEF AccessOK, AccessInv, RequestsKnowTheirRoom, CheckedRowsAreDated
  <1>10. TokensAreProved'
    BY <1>1, <1>2, <1>4, <1>5 DEF AccessOK, AccessInv, TokensAreProved, Valid, Given
  <1>. QED  BY <1>6, <1>7, <1>8, <1>9, <1>10 DEF AccessOK, AccessInv

\* A member's request remembers the row whose password it checked.
LEMMA PasswordCheckOK ==
    ASSUME AccessOK, NEW r \in Requests, NEW t \in Requests, NEW kind \in {"change", "delete"},
           NEW p \in Passwords \cup {None}, kind = "change" => p # None,
           PasswordCheck(r, t, kind, p)
    PROVE  AccessOK'
  <1>. DEFINE s == reqs[t].slug
              new == [pc |-> "checked", kind |-> kind, slug |-> s,
                      token |-> t, password |-> p, checked |-> rooms[s]]
  <1>1. s \in Slugs /\ rooms[s] # None /\ rooms[s] \in RoomRow /\ rooms[s].version \in Nat
    BY DEF PasswordCheck, Given, Valid, AccessOK, AccessInv, RequestsKnowTheirRoom, Shapes, RoomRow
  <1>2. /\ new \in Request /\ new.pc = "checked" /\ new.kind = kind /\ new.slug = s
        /\ new.password = p /\ new.checked = rooms[s]
    BY <1>1 DEF Request
  <1>3. reqs' = [reqs EXCEPT ![r] = new] /\ UNCHANGED <<rooms, deleted, tokens, wakes>>
    BY DEF PasswordCheck
  <1>. HIDE DEF new, s
  <1>4. /\ reqs' \in [Requests -> Request] /\ reqs'[r] = new
        /\ \A q \in Requests \ {r} : reqs'[q] = reqs[q]
    BY <1>2, <1>3 DEF AccessOK, Shapes
  <1>5. Shapes' /\ SessionLimit'
    BY <1>3, <1>4 DEF AccessOK, Shapes, SessionLimit, TokensOf
  <1>6. OneRowPerId' /\ (\A u \in deleted : rooms[u] = None)' /\ TokensHaveRooms'
    BY <1>3 DEF AccessOK, AccessInv, OneRowPerId, TokensHaveRooms
  <1>7. RequestsKnowTheirRoom'
    BY <1>1, <1>2, <1>3, <1>4 DEF AccessOK, AccessInv, RequestsKnowTheirRoom
  <1>8. CheckedRowsAreDated'
    BY <1>1, <1>2, <1>3, <1>4 DEF AccessOK, AccessInv, CheckedRowsAreDated
  <1>9. TokensAreProved'
    BY <1>2, <1>3, <1>4 DEF AccessOK, AccessInv, TokensAreProved, Valid, Given
  <1>. QED  BY <1>5, <1>6, <1>7, <1>8, <1>9 DEF AccessOK, AccessInv

\* A password change: the room's tokens go, and its author gets the only new one.
LEMMA ChangeCommitOK ==
    ASSUME AccessOK, NEW r \in Requests, ChangeCommit(r)
    PROVE  AccessOK'
  <1>. DEFINE s    == reqs[r].slug
              p    == reqs[r].password
              row  == Replaced(rooms[s], p)
              toks == WithoutRoom(row.id)
              new  == [NewRequest EXCEPT !.pc = "given", !.slug = s, !.password = p]
  <1>1. /\ reqs[r].pc = "checked" /\ reqs[r].kind = "change"
        /\ Valid(reqs[r].token, s)
        /\ rooms' = [rooms EXCEPT ![s] = row]
        /\ InsertToken(toks, r, row.id, row.version)
        /\ reqs' = [reqs EXCEPT ![r] = new]
        /\ wakes' = wakes \cup {row.id}
        /\ UNCHANGED deleted
    BY DEF ChangeCommit, StillAllowed
  <1>2. /\ s \in Slugs /\ rooms[s] # None /\ rooms[s] \in RoomRow
        /\ rooms[s].id \in Nat /\ rooms[s].version \in Nat
    BY <1>1 DEF Valid, AccessOK, AccessInv, RequestsKnowTheirRoom, Shapes, RoomRow
  <1>3. p \in Passwords
    BY <1>1 DEF AccessOK, AccessInv, CheckedRowsAreDated, Shapes, Request
  <1>4. /\ row \in RoomRow /\ row # None /\ row.id = rooms[s].id /\ row.hash = p
        /\ row.version = rooms[s].version + 1
    BY <1>2, <1>3, ReplacedRow
  <1>5. new \in Request /\ new.pc = "given" /\ new.slug = s /\ new.password = p
    BY <1>2, <1>3 DEF NewRequest, Request
  <1>6. /\ toks \in [Requests -> TokenRow \cup {None}]
        /\ \A q \in Requests :
              toks[q] = None \/ (toks[q] = tokens[q] /\ tokens[q].room # row.id)
    <2>1. Shapes
      BY DEF AccessOK
    <2>. QED  BY <2>1, WithoutRoomKeepsTokens
  <1>. HIDE DEF row, toks, new, s, p
  <1>7. \A q, u \in Requests :
           toks[q] # None /\ toks[u] # None /\ toks[q].at = toks[u].at => q = u
    BY <1>6 DEF AccessOK, AccessInv, OneRowPerId
  <1>8. row.id \in Nat /\ row.version \in Nat
    BY <1>2, <1>4
  <1>9. /\ tokens' \in [Requests -> TokenRow \cup {None}]
        /\ \A q, u \in Requests :
              tokens'[q] # None /\ tokens'[u] # None /\ tokens'[q].at = tokens'[u].at => q = u
        /\ \A q \in Requests \ {r} : tokens'[q] = toks[q] \/ tokens'[q] = None
        /\ tokens'[r] # None => tokens'[r].room = row.id /\ tokens'[r].version = row.version
        /\ Cardinality(TokensOf(tokens', row.id)) <= MaxSessions
        /\ \A other \in Nat \ {row.id} : TokensOf(tokens', other) \subseteq TokensOf(toks, other)
    BY <1>1, <1>6, <1>7, <1>8, InsertKeepsTokens
  <1>10. \A q \in Requests \ {r} :
            tokens'[q] = None \/ (tokens'[q] = tokens[q] /\ tokens[q].room # row.id)
    BY <1>6, <1>9
  <1>11. /\ rooms' \in [Slugs -> RoomRow \cup {None}] /\ rooms'[s] = row
         /\ \A u \in Slugs \ {s} : rooms'[u] = rooms[u]
    BY <1>1, <1>2, <1>4 DEF AccessOK, Shapes
  <1>12. /\ reqs' \in [Requests -> Request] /\ reqs'[r] = new
         /\ \A q \in Requests \ {r} : reqs'[q] = reqs[q]
    BY <1>1, <1>5 DEF AccessOK, Shapes
  <1>13. Shapes'
    BY <1>1, <1>8, <1>9, <1>11, <1>12 DEF AccessOK, Shapes
  <1>14. SessionLimit'
    <2>1. \A other : TokensOf(toks, other) \subseteq TokensOf(tokens, other)
      BY <1>6 DEF TokensOf
    <2>2. \A u \in Slugs : rooms[u] # None => rooms[u].id \in Nat
      BY DEF AccessOK, Shapes, RoomRow
    <2>3. \A u \in Slugs \ {s} : rooms[u] # None => rooms[u].id # row.id
      BY <1>2, <1>4 DEF AccessOK, AccessInv, OneRowPerId
    <2>4. \A u \in Slugs \ {s} : rooms[u] # None =>
             TokensOf(tokens', rooms[u].id) \subseteq TokensOf(tokens, rooms[u].id)
      BY <1>9, <2>1, <2>2, <2>3
    <2>. QED  BY <1>9, <1>11, <2>4, LimitIsKept DEF AccessOK
  <1>15. OneRowPerId'
    BY <1>2, <1>4, <1>9, <1>11 DEF AccessOK, AccessInv, OneRowPerId
  <1>16. (\A u \in deleted : rooms[u] = None)'
    BY <1>1, <1>2, <1>11 DEF AccessOK, AccessInv, Shapes
  <1>17. TokensHaveRooms'
    BY <1>2, <1>4, <1>9, <1>10, <1>11 DEF AccessOK, AccessInv, TokensHaveRooms
  <1>18. RequestsKnowTheirRoom'
    BY <1>1, <1>2, <1>4, <1>5, <1>11, <1>12 DEF AccessOK, AccessInv, RequestsKnowTheirRoom
  <1>19. CheckedRowsAreDated'
    <2>1. ASSUME NEW q \in Requests, reqs[q].pc = "checked", reqs[q].slug = s
          PROVE  /\ reqs[q].checked.id = row.id
                 /\ reqs[q].checked.version <= row.version
                 /\ reqs[q].checked.version # row.version
      <3>1. reqs[q].checked \in RoomRow
        BY <2>1 DEF AccessOK, AccessInv, CheckedRowsAreDated, Shapes, Request
      <3>2. reqs[q].checked.version \in Nat
        BY <3>1 DEF RoomRow
      <3>. QED  BY <1>2, <1>4, <2>1, <3>2 DEF AccessOK, AccessInv, CheckedRowsAreDated
    <2>. QED  BY <1>1, <1>4, <1>5, <1>11, <1>12, <2>1
              DEF AccessOK, AccessInv, RequestsKnowTheirRoom, CheckedRowsAreDated
  <1>20. TokensAreProved'
    <2>1. ASSUME NEW q \in Requests, q # r, tokens'[q] # None
          PROVE  tokens'[q] = tokens[q] /\ tokens'[q].room # row.id
      BY <1>10, <2>1
    <2>2. ASSUME NEW q \in Requests, q # r, reqs'[q].pc \in {"issued", "given"},
                 Valid(q, reqs[q].slug)'
          PROVE  rooms'[reqs'[q].slug].hash = reqs'[q].password
      BY <1>4, <1>11, <1>12, <2>1, <2>2
      DEF AccessOK, AccessInv, RequestsKnowTheirRoom, TokensAreProved, Valid
    <2>3. ASSUME NEW q \in Requests, q # r, Given(q)', tokens'[q] # None
          PROVE  rooms'[reqs'[q].slug] # None /\ rooms'[reqs'[q].slug].id = tokens'[q].room
      BY <1>2, <1>4, <1>11, <1>12, <2>1, <2>3
      DEF AccessOK, AccessInv, RequestsKnowTheirRoom, TokensAreProved, Given
    <2>. QED  BY <1>2, <1>4, <1>5, <1>9, <1>11, <1>12, <2>2, <2>3 DEF TokensAreProved, Valid, Given
  <1>. QED  BY <1>13, <1>14, <1>15, <1>16, <1>17, <1>18, <1>19, <1>20 DEF AccessOK, AccessInv

\* Every step of rooms, tokens and requests keeps the invariant.
LEMMA AccessNextOK == AccessOK /\ AccessNext => AccessOK'
  <1>. SUFFICES ASSUME AccessOK, AccessNext
                PROVE  AccessOK'
    OBVIOUS
  <1>1. ASSUME NEW s \in Slugs, NEW p \in Passwords, CreateRoom(s, p) \/ AdminReset(s, p)
        PROVE  AccessOK'
    BY <1>1, CreateRoomOK, AdminResetOK
  <1>2. ASSUME NEW s \in Slugs, AdminDelete(s)
        PROVE  AccessOK'
    BY <1>2, DeleteOK DEF AdminDelete
  <1>3. ASSUME NEW r \in Requests, NEW s \in Slugs, SignInCheck(r, s)
        PROVE  AccessOK'
    BY <1>3, SignInCheckOK
  <1>4. ASSUME NEW r \in Requests, NEW t \in Requests, NEW p \in Passwords,
               PasswordCheck(r, t, "change", p)
        PROVE  AccessOK'
    BY <1>4, PasswordCheckOK, RowsAreNotNone
  <1>5. ASSUME NEW r \in Requests, NEW t \in Requests, PasswordCheck(r, t, "delete", None)
        PROVE  AccessOK'
    BY <1>5, PasswordCheckOK
  <1>6. ASSUME NEW r \in Requests,
               SignInIssue(r) \/ SignInAnswer(r) \/ SignOut(r) \/ ChangeCommit(r)
        PROVE  AccessOK'
    BY <1>6, SignInIssueOK, SignInAnswerOK, SignOutOK, ChangeCommitOK
  <1>7. ASSUME NEW r \in Requests, DeleteCommit(r)
        PROVE  AccessOK'
    <2>1. /\ reqs[r].slug \in Slugs /\ rooms[reqs[r].slug] # None /\ DeleteRows(reqs[r].slug)
          /\ reqs' = [reqs EXCEPT ![r] = Finished]
      BY <1>7 DEF DeleteCommit, StillAllowed, Valid, AccessOK, AccessInv, RequestsKnowTheirRoom
    <2>. QED  BY <2>1, DeleteOK
  <1>8. ASSUME NEW r \in Requests, RefuseCommit(r)
        PROVE  AccessOK'
    BY <1>8, FinishOK DEF RefuseCommit
  <1>. QED  BY <1>1, <1>2, <1>3, <1>4, <1>5, <1>6, <1>7, <1>8 DEF AccessNext

-----------------------------------------------------------------------------
(* Streams.                                                                *)

\* What a step on rooms, tokens and requests means for a stream: its token stays given for
\* the same room, its room keeps its id or goes with a wake, and no wake is lost.
AccessStep ==
    /\ \A t \in Requests : Given(t) => Given(t)' /\ reqs'[t].slug = reqs[t].slug
    /\ \A s \in Slugs :
          \/ rooms[s] = None /\ (rooms'[s] = None \/ s \notin deleted)
          \/ rooms[s] # None /\ rooms'[s] # None /\ rooms'[s].id = rooms[s].id
          \/ rooms'[s] = None /\ rooms[s].id \in wakes'
    /\ wakes \subseteq wakes'

\* Every action on rooms, tokens and requests is such a step.
LEMMA AccessNextIsStep ==
    ASSUME AccessOK, AccessNext
    PROVE  AccessStep
  <1>1. ASSUME NEW s \in Slugs, NEW p \in Passwords, CreateRoom(s, p)
        PROVE  AccessStep
    <2>1. /\ rooms[s] = None /\ s \notin deleted /\ UNCHANGED <<deleted, reqs, wakes>>
          /\ \A u \in Slugs \ {s} : rooms'[u] = rooms[u]
      BY <1>1 DEF CreateRoom, AccessOK, Shapes
    <2>. QED  BY <2>1 DEF AccessStep, Given
  <1>2. ASSUME NEW s \in Slugs, NEW p \in Passwords, AdminReset(s, p)
        PROVE  AccessStep
    <2>1. rooms[s] \in RoomRow
      BY <1>2 DEF AdminReset, AccessOK, Shapes
    <2>2. rooms[s] # None /\ rooms'[s] # None /\ rooms'[s].id = rooms[s].id
      BY <1>2, <2>1, ReplacedRow DEF AdminReset, AccessOK, Shapes
    <2>3. /\ wakes' = wakes \cup {rooms[s].id} /\ UNCHANGED reqs
          /\ \A u \in Slugs \ {s} : rooms'[u] = rooms[u]
      BY <1>2 DEF AdminReset, AccessOK, Shapes
    <2>. QED  BY <2>2, <2>3 DEF AccessStep, Given
  <1>3. ASSUME NEW s \in Slugs, DeleteRows(s),
               \A t \in Requests : Given(t) => reqs'[t] = reqs[t]
        PROVE  AccessStep
    <2>1. /\ rooms'[s] = None /\ rooms[s].id \in wakes' /\ wakes \subseteq wakes'
          /\ \A u \in Slugs \ {s} : rooms'[u] = rooms[u]
      BY <1>3 DEF DeleteRows, AccessOK, Shapes
    <2>. QED  BY <1>3, <2>1 DEF AccessStep, Given
  <1>4. ASSUME NEW s \in Slugs, AdminDelete(s)
        PROVE  AccessStep
    BY <1>3, <1>4 DEF AdminDelete
  <1>5. ASSUME UNCHANGED <<rooms, wakes>>, \A t \in Requests : Given(t) => reqs'[t] = reqs[t]
        PROVE  AccessStep
    BY <1>5 DEF AccessStep, Given
  <1>6. ASSUME NEW r \in Requests, NEW s \in Slugs, SignInCheck(r, s)
        PROVE  AccessStep
    <2>1. \A t \in Requests : Given(t) => reqs'[t] = reqs[t]
      BY <1>6 DEF SignInCheck, Given, AccessOK, Shapes
    <2>. QED  BY <1>5, <1>6, <2>1 DEF SignInCheck
  <1>7. ASSUME NEW r \in Requests, NEW t \in Requests, NEW kind, NEW p, PasswordCheck(r, t, kind, p)
        PROVE  AccessStep
    <2>1. \A q \in Requests : Given(q) => reqs'[q] = reqs[q]
      BY <1>7 DEF PasswordCheck, Given, AccessOK, Shapes
    <2>. QED  BY <1>5, <1>7, <2>1 DEF PasswordCheck
  <1>8. ASSUME NEW r \in Requests, SignInIssue(r) \/ SignInAnswer(r) \/ SignOut(r) \/ RefuseCommit(r)
        PROVE  AccessStep
    <2>1. \A q \in Requests : Given(q) => reqs'[q] = reqs[q]
      BY <1>8 DEF SignInIssue, SignInAnswer, SignOut, RefuseCommit, Given, AccessOK, Shapes
    <2>2. UNCHANGED <<rooms, wakes>>
      BY <1>8 DEF SignInIssue, SignInAnswer, SignOut, RefuseCommit
    <2>. QED  BY <1>5, <2>1, <2>2
  <1>9. ASSUME NEW r \in Requests, ChangeCommit(r)
        PROVE  AccessStep
    <2>. DEFINE s == reqs[r].slug
    <2>1. /\ rooms[s] # None /\ rooms[s] \in RoomRow /\ s \in Slugs
          /\ reqs[r].password \in Passwords /\ reqs[r].pc = "checked"
      BY <1>9 DEF ChangeCommit, StillAllowed, Valid, AccessOK, AccessInv, RequestsKnowTheirRoom,
                  CheckedRowsAreDated, Shapes, Request
    <2>2. rooms'[s] # None /\ rooms'[s].id = rooms[s].id
      BY <1>9, <2>1, ReplacedRow DEF ChangeCommit, AccessOK, Shapes
    <2>3. wakes \subseteq wakes' /\ \A u \in Slugs \ {s} : rooms'[u] = rooms[u]
      BY <1>9 DEF ChangeCommit, AccessOK, Shapes
    <2>4. \A q \in Requests : Given(q) => reqs'[q] = reqs[q]
      BY <1>9, <2>1 DEF ChangeCommit, Given, AccessOK, Shapes
    <2>. QED  BY <2>1, <2>2, <2>3, <2>4 DEF AccessStep, Given
  <1>10. ASSUME NEW r \in Requests, DeleteCommit(r)
         PROVE  AccessStep
    <2>1. reqs[r].slug \in Slugs
      BY <1>10 DEF DeleteCommit, AccessOK, AccessInv, RequestsKnowTheirRoom
    <2>2. \A q \in Requests : Given(q) => reqs'[q] = reqs[q]
      BY <1>10 DEF DeleteCommit, Given, AccessOK, Shapes
    <2>. QED  BY <1>3, <1>10, <2>1, <2>2 DEF DeleteCommit
  <1>. QED  BY <1>1, <1>2, <1>4, <1>6, <1>7, <1>8, <1>9, <1>10 DEF AccessNext

StreamTypes ==
    /\ seq \in [Slugs -> Nat]
    /\ streams \in [Streams -> Stream]
    /\ reservations \subseteq Streams
    /\ subscriptions \subseteq Streams
StreamOK == StreamTypes /\ StreamsKnowTheirRoom /\ SlotsAreHeld /\ AsleepIsCurrent

\* A stream that is open is for a room that is there, or was.
LEMMA OpenStreamHasSlug ==
    ASSUME AccessOK, StreamOK, NEW st \in Streams, streams[st].pc # "off"
    PROVE  /\ streams[st].token \in Requests /\ Given(streams[st].token)
           /\ Slug(st) \in Slugs
           /\ rooms[Slug(st)] # None \/ Slug(st) \in deleted
  BY DEF StreamOK, StreamsKnowTheirRoom, AccessOK, AccessInv, RequestsKnowTheirRoom, Given, Slug

\* Steps on rooms, tokens and requests keep the streams in order.
LEMMA AccessStepKeepsStreams ==
    ASSUME AccessOK, StreamOK, AccessStep, UNCHANGED <<seq, streamVars>>
    PROVE  StreamOK'
  <1>1. StreamTypes' /\ SlotsAreHeld'
    BY DEF StreamOK, StreamTypes, SlotsAreHeld, streamVars
  <1>2. ASSUME NEW st \in Streams, streams[st].pc # "off"
        PROVE  /\ Given(streams[st].token)'
               /\ Slug(st)' = Slug(st)
               /\ Slug(st) \in Slugs
               /\ \/ rooms[Slug(st)] = None /\ rooms'[Slug(st)] = None
                  \/ /\ rooms[Slug(st)] # None
                     /\ rooms'[Slug(st)] # None /\ rooms'[Slug(st)].id = rooms[Slug(st)].id
                  \/ /\ rooms[Slug(st)] # None
                     /\ rooms'[Slug(st)] = None /\ rooms[Slug(st)].id \in wakes'
    <2>1. Slug(st)' = Slug(st) /\ Given(streams[st].token)'
      BY <1>2, OpenStreamHasSlug DEF AccessStep, streamVars, Slug, Given
    <2>2. Slug(st) \in Slugs /\ (rooms[Slug(st)] # None \/ Slug(st) \in deleted)
      BY <1>2, OpenStreamHasSlug
    <2>3. Slug(st) \in deleted => rooms[Slug(st)] = None
      BY DEF AccessOK, AccessInv
    <2>. DEFINE s == Slug(st)
    <2>4. \/ rooms[s] = None /\ (rooms'[s] = None \/ s \notin deleted)
          \/ rooms[s] # None /\ rooms'[s] # None /\ rooms'[s].id = rooms[s].id
          \/ rooms'[s] = None /\ rooms[s].id \in wakes'
      BY <2>2 DEF AccessStep
    <2>5. rooms[s] = None => rooms'[s] = None
      BY <2>2, <2>3, <2>4
    <2>. QED  BY <2>1, <2>2, <2>4, <2>5
  <1>3. StreamsKnowTheirRoom'
    BY <1>2 DEF StreamOK, StreamsKnowTheirRoom, streamVars
  <1>4. AsleepIsCurrent'
    <2>. SUFFICES ASSUME NEW st \in Streams, streams[st].pc = "wait", ~streams[st].woken,
                         streams[st].room \notin wakes'
                  PROVE  rooms'[Slug(st)'] # None /\ streams[st].last = seq[Slug(st)']
      BY DEF AsleepIsCurrent, streamVars
    <2>1. streams[st].room \notin wakes
      BY DEF AccessStep
    <2>2. /\ rooms[Slug(st)] # None /\ streams[st].last = seq[Slug(st)]
          /\ streams[st].room = rooms[Slug(st)].id
      BY <2>1 DEF StreamOK, AsleepIsCurrent, StreamsKnowTheirRoom
    <2>. QED  BY <1>2, <2>2
  <1>. QED  BY <1>1, <1>3, <1>4 DEF StreamOK

\* The records a stream's steps write.
LEMMA StreamShapes ==
    /\ Off \in Stream /\ Off.pc = "off"
    /\ \A x \in Stream : x.room \in Nat /\ x.last \in Nat /\ x.woken \in BOOLEAN
  BY DEF Off, Stream

\* The limit counts slots of both kinds: it holds after a step that adds none.
LEMMA FewerSlots ==
    ASSUME StreamOK, reservations' \subseteq reservations, subscriptions' \subseteq subscriptions
    PROVE  Cardinality(subscriptions') + Cardinality(reservations') <= MaxSubscriptions
  <1>1. IsFiniteSet(reservations) /\ IsFiniteSet(subscriptions)
    BY Capacity, FS_Subset DEF StreamOK, StreamTypes
  <1>2. /\ Cardinality(reservations') <= Cardinality(reservations)
        /\ Cardinality(subscriptions') <= Cardinality(subscriptions)
        /\ Cardinality(reservations') \in Nat /\ Cardinality(subscriptions') \in Nat
        /\ Cardinality(reservations) \in Nat /\ Cardinality(subscriptions) \in Nat
    BY <1>1, FS_Subset, FS_CardinalityType
  <1>3. Cardinality(subscriptions) + Cardinality(reservations) <= MaxSubscriptions
    BY DEF StreamOK, SlotsAreHeld
  <1>. QED  BY <1>2, <1>3, Capacity

\* A stream that ends gives its slot back.
LEMMA EndedOK ==
    ASSUME StreamOK, NEW st \in Streams, Ended(st), UNCHANGED <<accessVars, wakes, seq>>
    PROVE  StreamOK'
  <1>1. /\ streams' \in [Streams -> Stream] /\ streams'[st].pc = "off"
        /\ \A u \in Streams \ {st} : streams'[u] = streams[u]
    BY StreamShapes DEF Ended, StreamOK, StreamTypes
  <1>2. reservations' = reservations \ {st} /\ subscriptions' = subscriptions \ {st}
    BY DEF Ended
  <1>3. StreamTypes'
    BY <1>1, <1>2 DEF StreamOK, StreamTypes
  <1>4. StreamsKnowTheirRoom'
    BY <1>1 DEF StreamOK, StreamsKnowTheirRoom, accessVars, Slug, Given
  <1>5. SlotsAreHeld'
    <2>1. Cardinality(subscriptions') + Cardinality(reservations') <= MaxSubscriptions
      BY <1>2, FewerSlots
    <2>. QED  BY <1>1, <1>2, <2>1 DEF StreamOK, SlotsAreHeld
  <1>6. AsleepIsCurrent'
    BY <1>1 DEF StreamOK, AsleepIsCurrent, accessVars, Slug
  <1>. QED  BY <1>3, <1>4, <1>5, <1>6 DEF StreamOK

\* A slot is taken only below the limit, by a connection with a token that was given.
LEMMA ConnectOK ==
    ASSUME StreamOK, NEW st \in Streams, NEW t \in Requests, Connect(st, t)
    PROVE  StreamOK'
  <1>. DEFINE new == [Off EXCEPT !.pc = "access", !.token = t]
  <1>1. new \in Stream /\ new.pc = "access" /\ new.token = t
    BY DEF Off, Stream
  <1>2. /\ streams[st].pc = "off" /\ Given(t)
        /\ Cardinality(subscriptions) + Cardinality(reservations) < MaxSubscriptions
        /\ reservations' = reservations \cup {st}
        /\ streams' = [streams EXCEPT ![st] = new]
        /\ UNCHANGED <<accessVars, wakes, seq, subscriptions>>
    BY DEF Connect
  <1>. HIDE DEF new
  <1>3. /\ streams' \in [Streams -> Stream] /\ streams'[st] = new
        /\ \A u \in Streams \ {st} : streams'[u] = streams[u]
    BY <1>1, <1>2 DEF StreamOK, StreamTypes
  <1>4. StreamTypes'
    BY <1>2, <1>3 DEF StreamOK, StreamTypes
  <1>5. StreamsKnowTheirRoom'
    BY <1>1, <1>2, <1>3 DEF StreamOK, StreamsKnowTheirRoom, accessVars, Slug, Given
  <1>6. SlotsAreHeld'
    <2>1. IsFiniteSet(reservations) /\ IsFiniteSet(subscriptions)
      BY Capacity, FS_Subset DEF StreamOK, StreamTypes
    <2>2. /\ Cardinality(reservations) \in Nat /\ Cardinality(subscriptions) \in Nat
          /\ \/ Cardinality(reservations') = Cardinality(reservations)
             \/ Cardinality(reservations') = Cardinality(reservations) + 1
      <3>1. Cardinality(reservations) \in Nat /\ Cardinality(subscriptions) \in Nat
        BY <2>1, FS_CardinalityType
      <3>2. \/ Cardinality(reservations \cup {st}) = Cardinality(reservations)
            \/ Cardinality(reservations \cup {st}) = Cardinality(reservations) + 1
        BY <2>1, FS_AddElement
      <3>. QED  BY <1>2, <3>1, <3>2
    <2>3. Cardinality(subscriptions') + Cardinality(reservations') <= MaxSubscriptions
      BY <1>2, <2>2, Capacity
    <2>. QED  BY <1>1, <1>2, <1>3, <2>3 DEF StreamOK, SlotsAreHeld
  <1>7. AsleepIsCurrent'
    BY <1>1, <1>2, <1>3 DEF StreamOK, AsleepIsCurrent, accessVars, Slug
  <1>. QED  BY <1>4, <1>5, <1>6, <1>7 DEF StreamOK

\* A stream with access gets its room's id.
LEMMA CheckAccessOK ==
    ASSUME AccessOK, StreamOK, NEW st \in Streams, CheckAccess(st)
    PROVE  StreamOK'
  <1>1. streams[st].pc = "access" /\ UNCHANGED <<accessVars, wakes, seq>>
    BY DEF CheckAccess
  <1>2. CASE ~HasAccess(st)
    BY <1>1, <1>2, EndedOK DEF CheckAccess
  <1>3. CASE HasAccess(st)
    <2>. DEFINE room == rooms[Slug(st)].id
    <2>1. /\ streams' = [streams EXCEPT ![st].pc = "start", ![st].room = room]
          /\ UNCHANGED <<reservations, subscriptions>>
      BY <1>3 DEF CheckAccess
    <2>2. room \in Nat
      BY <1>1, <1>3, OpenStreamHasSlug DEF HasAccess, Valid, AccessOK, Shapes, RoomRow
    <2>3. /\ streams' \in [Streams -> Stream]
          /\ streams'[st].pc = "start" /\ streams'[st].room = room
          /\ streams'[st].token = streams[st].token
          /\ \A u \in Streams \ {st} : streams'[u] = streams[u]
      BY <2>1, <2>2 DEF StreamOK, StreamTypes, Stream
    <2>4. StreamTypes'
      BY <1>1, <2>1, <2>3 DEF StreamOK, StreamTypes
    <2>5. StreamsKnowTheirRoom'
      BY <1>1, <2>3 DEF StreamOK, StreamsKnowTheirRoom, accessVars, Slug, Given
    <2>6. SlotsAreHeld'
      BY <1>1, <2>1, <2>3 DEF StreamOK, SlotsAreHeld
    <2>7. AsleepIsCurrent'
      BY <1>1, <2>3 DEF StreamOK, AsleepIsCurrent, accessVars, Slug
    <2>. QED  BY <2>4, <2>5, <2>6, <2>7 DEF StreamOK
  <1>. QED  BY <1>2, <1>3

\* A reserved slot becomes a subscription: the number of slots stays.
LEMMA SubscribeOK ==
    ASSUME StreamOK, NEW st \in Streams, Subscribe(st)
    PROVE  StreamOK'
  <1>1. /\ streams[st].pc = "start"
        /\ reservations' = reservations \ {st} /\ subscriptions' = subscriptions \cup {st}
        /\ UNCHANGED <<accessVars, wakes, seq>>
    BY DEF Subscribe
  <1>2. /\ streams' \in [Streams -> Stream]
        /\ streams'[st].pc = "read" /\ streams'[st].room = streams[st].room
        /\ streams'[st].token = streams[st].token
        /\ \A u \in Streams \ {st} : streams'[u] = streams[u]
    BY DEF Subscribe, StreamOK, StreamTypes, Stream
  <1>3. StreamTypes'
    BY <1>1, <1>2 DEF StreamOK, StreamTypes
  <1>4. StreamsKnowTheirRoom'
    BY <1>1, <1>2 DEF StreamOK, StreamsKnowTheirRoom, accessVars, Slug, Given
  <1>5. SlotsAreHeld'
    <2>1. IsFiniteSet(reservations) /\ IsFiniteSet(subscriptions)
      BY Capacity, FS_Subset DEF StreamOK, StreamTypes
    <2>2. st \in reservations /\ st \notin subscriptions
      BY <1>1 DEF StreamOK, SlotsAreHeld
    <2>3. Cardinality(reservations') = Cardinality(reservations) - 1
      BY <1>1, <2>1, <2>2, FS_RemoveElement
    <2>4. Cardinality(subscriptions') = Cardinality(subscriptions) + 1
      BY <1>1, <2>1, <2>2, FS_AddElement
    <2>5. Cardinality(reservations) \in Nat /\ Cardinality(subscriptions) \in Nat
      BY <2>1, FS_CardinalityType
    <2>6. Cardinality(subscriptions) + Cardinality(reservations) <= MaxSubscriptions
      BY DEF StreamOK, SlotsAreHeld
    <2>7. Cardinality(subscriptions') + Cardinality(reservations') <= MaxSubscriptions
      BY <2>3, <2>4, <2>5, <2>6, Capacity
    <2>. QED  BY <1>1, <1>2, <2>7 DEF StreamOK, SlotsAreHeld
  <1>6. AsleepIsCurrent'
    BY <1>1, <1>2 DEF StreamOK, AsleepIsCurrent, accessVars, Slug
  <1>. QED  BY <1>3, <1>4, <1>5, <1>6 DEF StreamOK

\* A stream goes to sleep with the room's seq and wakes up to read: its slot stays.
LEMMA ReadOrWaitOK ==
    ASSUME AccessOK, StreamOK, NEW st \in Streams, ReadRoom(st) \/ Woken(st) \/ Recheck(st)
    PROVE  StreamOK'
  <1>1. UNCHANGED <<accessVars, wakes, seq>> /\ streams[st].pc \in {"read", "wait"}
    BY DEF ReadRoom, Woken, Recheck
  <1>2. CASE ReadRoom(st) /\ ~HasAccess(st)
    BY <1>1, <1>2, EndedOK DEF ReadRoom
  <1>3. CASE (ReadRoom(st) /\ HasAccess(st)) \/ Woken(st) \/ Recheck(st)
    <2>1. UNCHANGED <<reservations, subscriptions>>
      BY <1>3 DEF ReadRoom, Woken, Recheck
    <2>2. Slug(st) \in Slugs /\ seq[Slug(st)] \in Nat
      BY <1>1, OpenStreamHasSlug DEF StreamOK, StreamTypes
    <2>3. /\ streams' \in [Streams -> Stream]
          /\ \/ streams'[st].pc = "read"
             \/ /\ streams'[st].pc = "wait" /\ streams'[st].last = seq[Slug(st)]
                /\ rooms[Slug(st)] # None
          /\ streams'[st].room = streams[st].room /\ streams'[st].token = streams[st].token
          /\ \A u \in Streams \ {st} : streams'[u] = streams[u]
      <3>1. CASE ReadRoom(st) /\ HasAccess(st)
        BY <2>2, <3>1 DEF ReadRoom, HasAccess, Valid, StreamOK, StreamTypes, Stream
      <3>2. CASE Woken(st)
        BY <3>2 DEF Woken, StreamOK, StreamTypes, Stream
      <3>3. CASE Recheck(st)
        BY <3>3 DEF Recheck, StreamOK, StreamTypes, Stream
      <3>. QED  BY <1>3, <3>1, <3>2, <3>3
    <2>4. StreamTypes'
      BY <1>1, <2>1, <2>3 DEF StreamOK, StreamTypes
    <2>5. StreamsKnowTheirRoom'
      <3>1. rooms' = rooms /\ reqs' = reqs
        BY <1>1 DEF accessVars
      <3>2. \A u \in Streams :
               /\ streams'[u].room = streams[u].room /\ streams'[u].token = streams[u].token
               /\ streams[u].pc = "off" => streams'[u].pc = "off"
               /\ streams'[u].pc \in {"start", "read", "wait"} =>
                     streams[u].pc \in {"start", "read", "wait"}
        BY <1>1, <2>3
      <3>3. \A u \in Streams : reqs'[streams'[u].token] = reqs[streams[u].token]
        BY <3>1, <3>2
      <3>4. ASSUME NEW u \in Streams, streams'[u].pc # "off"
            PROVE  streams'[u].token \in Requests /\ reqs'[streams'[u].token].pc = "given"
        BY <3>2, <3>3, <3>4 DEF StreamOK, StreamsKnowTheirRoom, Given
      <3>5. ASSUME NEW u \in Streams, streams'[u].pc \in {"start", "read", "wait"},
                   rooms'[reqs'[streams'[u].token].slug] # None
            PROVE  streams'[u].room = rooms'[reqs'[streams'[u].token].slug].id
        <4>1. streams[u].pc \in {"start", "read", "wait"} /\ rooms[Slug(u)] # None
          BY <3>1, <3>2, <3>3, <3>5 DEF Slug
        <4>2. streams[u].room = rooms[Slug(u)].id
          BY <4>1 DEF StreamOK, StreamsKnowTheirRoom
        <4>. QED  BY <3>1, <3>2, <3>3, <4>2 DEF Slug
      <3>. QED  BY <3>4, <3>5 DEF StreamsKnowTheirRoom, Slug, Given
    <2>6. SlotsAreHeld'
      BY <1>1, <2>1, <2>3 DEF StreamOK, SlotsAreHeld
    <2>7. AsleepIsCurrent'
      BY <1>1, <2>3 DEF StreamOK, AsleepIsCurrent, accessVars, Slug
    <2>. QED  BY <2>4, <2>5, <2>6, <2>7 DEF StreamOK
  <1>. QED  BY <1>2, <1>3

\* A write leaves a wake for the room's streams.
LEMMA WriteRoomOK ==
    ASSUME AccessOK, StreamOK, NEW t \in Requests, WriteRoom(t)
    PROVE  StreamOK' /\ wakes' \subseteq Nat
  <1>. DEFINE s == reqs[t].slug
  <1>1. /\ rooms[s] # None
        /\ seq' = [seq EXCEPT ![s] = @ + 1]
        /\ wakes' = wakes \cup {rooms[s].id}
        /\ UNCHANGED <<accessVars, streamVars>>
    BY DEF WriteRoom, Valid
  <1>2. s \in Slugs /\ rooms[s].id \in Nat
    BY <1>1 DEF WriteRoom, Given, AccessOK, AccessInv, RequestsKnowTheirRoom, Shapes, RoomRow
  <1>3. wakes' \subseteq Nat
    BY <1>1, <1>2 DEF AccessOK, Shapes
  <1>4. /\ seq' \in [Slugs -> Nat]
        /\ \A u \in Slugs \ {s} : seq'[u] = seq[u]
    BY <1>1, <1>2 DEF StreamOK, StreamTypes
  <1>5. StreamTypes' /\ StreamsKnowTheirRoom' /\ SlotsAreHeld'
    BY <1>1, <1>4 DEF StreamOK, StreamTypes, StreamsKnowTheirRoom, SlotsAreHeld, accessVars,
                      streamVars, Slug, Given
  <1>6. AsleepIsCurrent'
    <2>. SUFFICES ASSUME NEW st \in Streams, streams[st].pc = "wait", ~streams[st].woken,
                         streams[st].room \notin wakes'
                  PROVE  rooms[Slug(st)] # None /\ streams[st].last = seq'[Slug(st)]
      BY <1>1 DEF AsleepIsCurrent, accessVars, streamVars, Slug
    <2>1. /\ rooms[Slug(st)] # None /\ streams[st].last = seq[Slug(st)]
          /\ streams[st].room = rooms[Slug(st)].id
      BY <1>1 DEF StreamOK, AsleepIsCurrent, StreamsKnowTheirRoom
    <2>2. Slug(st) \in Slugs
      BY OpenStreamHasSlug
    <2>3. Slug(st) # s
      BY <1>1, <2>1
    <2>. QED  BY <1>4, <2>1, <2>2, <2>3
  <1>. QED  BY <1>3, <1>5, <1>6 DEF StreamOK

\* A wake reaches every subscription of its room.
LEMMA WakeOK ==
    ASSUME StreamOK, NEW room \in wakes, Wake(room)
    PROVE  StreamOK'
  <1>1. /\ wakes' = wakes \ {room}
        /\ streams' = [st \in Streams |->
                          IF st \in subscriptions /\ streams[st].room = room
                          THEN [streams[st] EXCEPT !.woken = TRUE] ELSE streams[st]]
        /\ UNCHANGED <<accessVars, seq, reservations, subscriptions>>
    BY DEF Wake
  <1>2. /\ streams' \in [Streams -> Stream]
        /\ \A st \in Streams :
              /\ streams'[st].pc = streams[st].pc /\ streams'[st].token = streams[st].token
              /\ streams'[st].room = streams[st].room /\ streams'[st].last = streams[st].last
              /\ \/ streams'[st] = streams[st] /\ ~(st \in subscriptions /\ streams[st].room = room)
                 \/ streams'[st].woken
    BY <1>1 DEF StreamOK, StreamTypes, Stream
  <1>3. StreamTypes' /\ SlotsAreHeld'
    BY <1>1, <1>2 DEF StreamOK, StreamTypes, SlotsAreHeld
  <1>4. StreamsKnowTheirRoom'
    BY <1>1, <1>2 DEF StreamOK, StreamsKnowTheirRoom, accessVars, Slug, Given
  <1>5. AsleepIsCurrent'
    <2>1. \A st \in Streams : streams[st].pc = "wait" => st \in subscriptions
      BY DEF StreamOK, SlotsAreHeld
    <2>. QED  BY <1>1, <1>2, <2>1 DEF StreamOK, AsleepIsCurrent, accessVars, Slug
  <1>. QED  BY <1>3, <1>4, <1>5 DEF StreamOK

-----------------------------------------------------------------------------
(* The theorems.                                                           *)

\* With rooms, tokens and requests as they are, the invariant about them stays.
LEMMA AccessUnchanged ==
    ASSUME AccessOK, UNCHANGED accessVars, wakes' \subseteq Nat
    PROVE  AccessOK'
  <1>1. Shapes' /\ SessionLimit'
    BY DEF AccessOK, Shapes, SessionLimit, TokensOf, accessVars
  <1>2. OneRowPerId' /\ (\A u \in deleted : rooms[u] = None)' /\ TokensHaveRooms'
    BY DEF AccessOK, AccessInv, OneRowPerId, TokensHaveRooms, accessVars
  <1>3. RequestsKnowTheirRoom' /\ CheckedRowsAreDated' /\ TokensAreProved'
    BY DEF AccessOK, AccessInv, RequestsKnowTheirRoom, CheckedRowsAreDated, TokensAreProved,
           Valid, Given, accessVars
  <1>. QED  BY <1>1, <1>2, <1>3 DEF AccessOK, AccessInv

\* No room, no token, no stream.
LEMMA InitOK == Init => AccessOK /\ StreamOK
  <1>. SUFFICES ASSUME Init
                PROVE  AccessOK /\ StreamOK
    OBVIOUS
  <1>1. /\ rooms = [s \in Slugs |-> None] /\ deleted = {} /\ tokens = [r \in Requests |-> None]
        /\ reqs = [r \in Requests |-> NewRequest] /\ wakes = {} /\ seq = [s \in Slugs |-> 0]
        /\ streams = [st \in Streams |-> Off] /\ reservations = {} /\ subscriptions = {}
    BY DEF Init, AccessInit
  <1>2. NewRequest \in Request /\ NewRequest.pc = "new"
    BY DEF NewRequest, Request
  <1>3. Shapes /\ SessionLimit
    BY <1>1, <1>2 DEF Shapes, SessionLimit
  <1>4. AccessInv
    BY <1>1, <1>2 DEF AccessInv, OneRowPerId, TokensHaveRooms, RequestsKnowTheirRoom,
                      CheckedRowsAreDated, TokensAreProved, Given
  <1>5. StreamTypes /\ StreamsKnowTheirRoom /\ AsleepIsCurrent
    BY <1>1, StreamShapes DEF StreamTypes, StreamsKnowTheirRoom, AsleepIsCurrent
  <1>6. SlotsAreHeld
    <2>1. Cardinality(subscriptions) + Cardinality(reservations) <= MaxSubscriptions
      BY <1>1, FS_EmptySet, Capacity
    <2>. QED  BY <1>1, <2>1, StreamShapes DEF SlotsAreHeld
  <1>. QED  BY <1>3, <1>4, <1>5, <1>6 DEF AccessOK, StreamOK

\* Every step keeps the inductive invariant.
LEMMA NextOK == AccessOK /\ StreamOK /\ [Next]_vars => AccessOK' /\ StreamOK'
  <1>. SUFFICES ASSUME AccessOK, StreamOK, [Next]_vars
                PROVE  AccessOK' /\ StreamOK'
    OBVIOUS
  <1>0. wakes \subseteq Nat
    BY DEF AccessOK, Shapes
  <1>1. CASE AccessNext /\ UNCHANGED <<seq, streamVars>>
    BY <1>1, AccessNextOK, AccessNextIsStep, AccessStepKeepsStreams
  <1>2. ASSUME NEW st \in Streams, StreamStep(st)
        PROVE  AccessOK' /\ StreamOK'
    <2>1. UNCHANGED <<accessVars, wakes>>
      BY <1>2 DEF StreamStep, CheckAccess, Subscribe, ReadRoom, Woken, Recheck
    <2>2. AccessOK'
      BY <1>0, <2>1, AccessUnchanged
    <2>. QED  BY <1>2, <2>2, CheckAccessOK, SubscribeOK, ReadOrWaitOK DEF StreamStep
  <1>3. ASSUME NEW st \in Streams, Disconnect(st)
        PROVE  AccessOK' /\ StreamOK'
    <2>1. Ended(st) /\ UNCHANGED <<accessVars, wakes, seq>>
      BY <1>3 DEF Disconnect
    <2>. QED  BY <1>0, <2>1, AccessUnchanged, EndedOK
  <1>4. ASSUME NEW st \in Streams, NEW t \in Requests, Connect(st, t)
        PROVE  AccessOK' /\ StreamOK'
    <2>1. UNCHANGED <<accessVars, wakes>>
      BY <1>4 DEF Connect
    <2>. QED  BY <1>0, <1>4, <2>1, AccessUnchanged, ConnectOK
  <1>5. ASSUME NEW t \in Requests, WriteRoom(t)
        PROVE  AccessOK' /\ StreamOK'
    <2>1. UNCHANGED accessVars
      BY <1>5 DEF WriteRoom
    <2>. QED  BY <1>5, <2>1, AccessUnchanged, WriteRoomOK
  <1>6. ASSUME NEW room \in wakes, Wake(room)
        PROVE  AccessOK' /\ StreamOK'
    <2>1. UNCHANGED accessVars /\ wakes' \subseteq Nat
      BY <1>0, <1>6 DEF Wake
    <2>. QED  BY <1>6, <2>1, AccessUnchanged, WakeOK
  <1>7. CASE UNCHANGED vars
    <2>1. UNCHANGED <<accessVars, wakes, seq, streamVars>>
      BY <1>7 DEF vars, accessVars, streamVars
    <2>2. AccessOK'
      BY <1>0, <2>1, AccessUnchanged
    <2>3. StreamTypes' /\ StreamsKnowTheirRoom' /\ SlotsAreHeld' /\ AsleepIsCurrent'
      BY <2>1 DEF StreamOK, StreamTypes, StreamsKnowTheirRoom, SlotsAreHeld, AsleepIsCurrent,
                  accessVars, streamVars, Slug, Given
    <2>. QED  BY <2>2, <2>3 DEF StreamOK
  <1>. QED  BY <1>1, <1>2, <1>3, <1>4, <1>5, <1>6, <1>7 DEF Next

\* What the invariant says.
LEMMA InvImplies ==
    AccessOK /\ StreamOK => /\ TypeOK
                            /\ LiveInv
                            /\ TokenProvesPassword
                            /\ SlotsAreHeld
                            /\ AsleepIsCurrent
  <1>. SUFFICES ASSUME AccessOK, StreamOK
                PROVE  TypeOK /\ LiveInv /\ TokenProvesPassword
    BY DEF StreamOK
  <1>1. TypeOK
    BY TypeParts DEF AccessOK, StreamOK, StreamTypes, TypeOK
  <1>2. TokenProvesPassword
    <2>. SUFFICES ASSUME NEW t \in Requests, NEW s \in Slugs, Given(t), Valid(t, s)
                  PROVE  s = reqs[t].slug /\ rooms[s].hash = reqs[t].password
      BY DEF TokenProvesPassword
    <2>1. s = reqs[t].slug
      BY DEF AccessOK, AccessInv, OneRowPerId, RequestsKnowTheirRoom, TokensAreProved, Given, Valid
    <2>. QED  BY <2>1 DEF AccessOK, AccessInv, TokensAreProved, Given
  <1>. QED  BY <1>1, <1>2 DEF AccessOK, StreamOK, LiveInv

\* Tables, requests and streams keep their shape, and no room gets more tokens than
\* MAX_SESSIONS_PER_ROOM.
THEOREM TypeCorrect == Spec => []TypeOK
  BY InitOK, NextOK, InvImplies, PTL DEF Spec

\* The inductive invariant of room access and of the streams.
THEOREM LiveInvariant == Spec => []LiveInv
  BY InitOK, NextOK, InvImplies, PTL DEF Spec

\* A token opens only the room it was given for, under the password its user proved or set.
THEOREM TokensProvePasswords == Spec => []TokenProvesPassword
  BY InitOK, NextOK, InvImplies, PTL DEF Spec

\* Every slot belongs to an open stream, and there are never more than MAX_SUBSCRIPTIONS.
THEOREM SlotsAreNotLost == Spec => []SlotsAreHeld
  BY InitOK, NextOK, InvImplies, PTL DEF Spec

\* A sleeping stream without a signal has told all there is to tell.
THEOREM NoWriteIsMissed == Spec => []AsleepIsCurrent
  BY InitOK, NextOK, InvImplies, PTL DEF Spec

-----------------------------------------------------------------------------
(* What a step may never do.                                               *)

\* A row that goes when a token is inserted is a row of the same room.
LEMMA InsertPrunesOneRoom ==
    ASSUME NEW toks \in [Requests -> TokenRow \cup {None}],
           NEW r \in Requests, NEW room \in Nat, NEW version \in Nat,
           InsertToken(toks, r, room, version),
           NEW q \in Requests, q # r, tokens'[q] # toks[q]
    PROVE  toks[q].room = room
  <1>1. PICK at \in 1..Cardinality(Requests) :
           tokens' = KeepNewest([toks EXCEPT ![r] = [room |-> room, version |-> version,
                                                    revoked |-> FALSE, at |-> at]], room)
    BY DEF InsertToken
  <1>. DEFINE row == [room |-> room, version |-> version, revoked |-> FALSE, at |-> at]
              new == [toks EXCEPT ![r] = row]
  <1>2. row \in TokenRow
    <2>1. at \in Nat
      BY <1>1, FiniteNames, FS_CardinalityType
    <2>. QED  BY <2>1 DEF TokenRow
  <1>3. new \in [Requests -> TokenRow \cup {None}] /\ new[q] = toks[q]
    BY <1>2
  <1>4. tokens' = KeepNewest(new, room)
    BY <1>1
  <1>. HIDE DEF new
  <1>. QED  BY <1>3, <1>4, PruneKeepsRows

\* A row that goes when a token is inserted had MaxSessions newer ones, and these stay: the
\* room had no more than MaxSessions rows, this one among them, and the new row.
LEMMA InsertPrunesTheOldest ==
    ASSUME NEW toks \in [Requests -> TokenRow \cup {None}],
           NEW r \in Requests, NEW room \in Nat, NEW version \in Nat,
           Cardinality(TokensOf(toks, room)) <= MaxSessions,
           InsertToken(toks, r, room, version),
           NEW q \in Requests, q # r, toks[q] # None, tokens'[q] # toks[q]
    PROVE  Cardinality({x \in Requests : /\ tokens'[x] # None
                                         /\ tokens'[x].room = room
                                         /\ tokens'[x].at > toks[q].at}) >= MaxSessions
  <1>1. PICK at \in 1..Cardinality(Requests) :
           tokens' = KeepNewest([toks EXCEPT ![r] = [room |-> room, version |-> version,
                                                    revoked |-> FALSE, at |-> at]], room)
    BY DEF InsertToken
  <1>. DEFINE row == [room |-> room, version |-> version, revoked |-> FALSE, at |-> at]
              new == [toks EXCEPT ![r] = row]
              N   == Newer(new, room, q)
              K   == {x \in Requests : /\ tokens'[x] # None
                                       /\ tokens'[x].room = room
                                       /\ tokens'[x].at > toks[q].at}
              Old == TokensOf(toks, room)
  <1>2. row \in TokenRow
    <2>1. at \in Nat
      BY <1>1, FiniteNames, FS_CardinalityType
    <2>. QED  BY <2>1 DEF TokenRow
  <1>3. /\ new \in [Requests -> TokenRow \cup {None}] /\ new[q] = toks[q]
        /\ \A x \in Requests \ {r} : new[x] = toks[x]
    BY <1>2
  <1>4. tokens' = KeepNewest(new, room)
    BY <1>1
  <1>. HIDE DEF new, row
  <1>. HIDE DEF N
  <1>5. /\ \A x \in Requests :
              tokens'[x] = new[x] \/ Cardinality(Newer(new, room, x)) >= MaxSessions
        /\ toks[q].room = room
    BY <1>3, <1>4, PruneKeepsRows
  <1>6. Cardinality(N) >= MaxSessions
    BY <1>3, <1>5 DEF N
  <1>. USE DEF N
  <1>7. IsFiniteSet(N) /\ Cardinality(N) \in Nat /\ IsFiniteSet(Old) /\ Cardinality(Old) \in Nat
    BY FiniteNames, FS_Subset, FS_CardinalityType DEF Newer, TokensOf
  <1>8. q \in Old
    BY <1>5 DEF TokensOf
  <1>9. \A x \in Requests : new[x] # None => new[x].at \in Nat
    BY <1>3, RowsAreNotNone DEF TokenRow
  <1>10. q \notin N /\ N \subseteq (Old \ {q}) \cup {r}
    <2>1. q \notin N
      BY <1>3, <1>9 DEF Newer
    <2>. QED  BY <1>3, <2>1 DEF Newer, TokensOf
  <1>11. Cardinality(N) <= MaxSessions
    <2>1. IsFiniteSet(Old \ {q}) /\ Cardinality(Old \ {q}) = Cardinality(Old) - 1
      BY <1>7, <1>8, FS_RemoveElement
    <2>. DEFINE O == Old \ {q}
    <2>2. IsFiniteSet(O) /\ Cardinality(O) = Cardinality(Old) - 1 /\ N \subseteq O \cup {r}
      BY <1>10, <2>1
    <2>. HIDE DEF O, Old, N
    <2>3. /\ IsFiniteSet(O \cup {r})
          /\ Cardinality(O \cup {r}) = Cardinality(O) \/ Cardinality(O \cup {r}) = Cardinality(O) + 1
      BY <2>2, FS_AddElement
    <2>4. Cardinality(N) <= Cardinality(O \cup {r})
      BY <2>2, <2>3, FS_Subset
    <2>5. Cardinality(Old) <= MaxSessions
      BY DEF Old
    <2>. QED  BY <1>7, <2>2, <2>3, <2>4, <2>5, SomeSession
  <1>12. \A x \in N : tokens'[x] = new[x]
    <2>. SUFFICES ASSUME NEW x \in N
                  PROVE  ~(Cardinality(Newer(new, room, x)) >= MaxSessions)
      <3>1. N \subseteq Requests
        BY DEF Newer
      <3>. QED  BY <1>5, <3>1
    <2>. DEFINE M == Newer(new, room, x)
    <2>1. M \subseteq N /\ x \notin M
      BY <1>3, <1>9 DEF Newer
    <2>. HIDE DEF M, N
    <2>2. Cardinality(M) <= Cardinality(N) /\ Cardinality(M) # Cardinality(N)
          /\ Cardinality(M) \in Nat
      BY <1>7, <2>1, FS_Subset, FS_CardinalityType
    <2>3. Cardinality(M) < MaxSessions
      BY <1>7, <1>11, <2>2, SomeSession
    <2>. QED  BY <2>2, <2>3, SomeSession DEF M
  <1>13. N \subseteq K
    BY <1>3, <1>12 DEF Newer
  <1>14. IsFiniteSet(K)
    BY FiniteNames, FS_Subset
  <1>. HIDE DEF N, K
  <1>15. Cardinality(K) \in Nat /\ Cardinality(N) <= Cardinality(K)
    BY <1>13, <1>14, FS_Subset, FS_CardinalityType
  <1>16. Cardinality(K) >= MaxSessions
    BY <1>7, <1>15, <1>6, SomeSession
  <1>. QED  BY <1>16 DEF K

\* Only an admin or a request that is right in that step changes a room or takes it away.
LEMMA StepsGuardRooms ==
    ASSUME AccessOK, AccessNext, NEW s \in Slugs, rooms[s] # None, rooms'[s] # rooms[s]
    PROVE  \/ AdminDelete(s)
           \/ \E p \in Passwords : AdminReset(s, p)
           \/ \E r \in Requests : /\ reqs[r].pc = "checked"
                                  /\ reqs[r].kind \in {"change", "delete"}
                                  /\ reqs[r].slug = s
                                  /\ Valid(reqs[r].token, s)
                                  /\ reqs[r].checked.hash = rooms[s].hash
                                  /\ reqs'[r].pc # "checked"
  <1>1. ASSUME NEW u \in Slugs, NEW p \in Passwords, CreateRoom(u, p)
        PROVE  FALSE
    BY <1>1 DEF CreateRoom, AccessOK, Shapes
  <1>2. ASSUME NEW u \in Slugs, NEW p \in Passwords, AdminReset(u, p)
        PROVE  AdminReset(s, p)
    <2>1. u = s
      BY <1>2 DEF AdminReset, AccessOK, Shapes
    <2>. QED  BY <1>2, <2>1
  <1>3. ASSUME NEW u \in Slugs, AdminDelete(u)
        PROVE  AdminDelete(s)
    <2>1. u = s
      BY <1>3 DEF AdminDelete, DeleteRows, AccessOK, Shapes
    <2>. QED  BY <1>3, <2>1
  <1>4. ASSUME NEW r \in Requests, NEW u \in Slugs, SignInCheck(r, u)
        PROVE  FALSE
    BY <1>4 DEF SignInCheck
  <1>5. ASSUME NEW r \in Requests, NEW t \in Requests, NEW kind, NEW p, PasswordCheck(r, t, kind, p)
        PROVE  FALSE
    BY <1>5 DEF PasswordCheck
  <1>6. ASSUME NEW r \in Requests, SignInIssue(r) \/ SignInAnswer(r) \/ SignOut(r) \/ RefuseCommit(r)
        PROVE  FALSE
    BY <1>6 DEF SignInIssue, SignInAnswer, SignOut, RefuseCommit
  <1>7. ASSUME NEW r \in Requests, ChangeCommit(r) \/ DeleteCommit(r)
        PROVE  /\ reqs[r].pc = "checked" /\ reqs[r].kind \in {"change", "delete"}
               /\ reqs[r].slug = s /\ Valid(reqs[r].token, s)
               /\ reqs[r].checked.hash = rooms[s].hash
               /\ reqs'[r].pc # "checked"
    <2>1. reqs[r].slug = s
      BY <1>7 DEF ChangeCommit, DeleteCommit, DeleteRows, AccessOK, Shapes
    <2>2. Valid(reqs[r].token, s) /\ rooms[s] = reqs[r].checked
      BY <1>7, <2>1 DEF ChangeCommit, DeleteCommit, StillAllowed
    <2>3. reqs'[r].pc # "checked"
      BY <1>7 DEF ChangeCommit, DeleteCommit, Finished, NewRequest, AccessOK, Shapes
    <2>4. reqs[r].pc = "checked" /\ reqs[r].kind \in {"change", "delete"}
      BY <1>7 DEF ChangeCommit, DeleteCommit
    <2>. QED  BY <2>1, <2>2, <2>3, <2>4
  <1>. QED  BY <1>1, <1>2, <1>3, <1>4, <1>5, <1>6, <1>7 DEF AccessNext

\* A token that stops opening its room was signed out, pruned, or lost to a new password or
\* to the end of the room.
LEMMA StepsEndSessions ==
    ASSUME AccessOK, AccessNext, NEW t \in Requests, NEW s \in Slugs,
           Given(t), Valid(t, s), ~Valid(t, s)'
    PROVE  \/ rooms'[s] = None
           \/ rooms'[s].version > rooms[s].version
           \/ SignOut(t)
           \/ Cardinality({r \in Requests : /\ tokens'[r] # None
                                            /\ tokens'[r].room = rooms[s].id
                                            /\ tokens'[r].at > tokens[t].at}) >= MaxSessions
  <1>1. /\ rooms[s] # None /\ tokens[t] # None /\ tokens[t].room = rooms[s].id
        /\ rooms[s] \in RoomRow /\ rooms[s].version \in Nat
    BY DEF Valid, AccessOK, Shapes, RoomRow
  <1>2. rooms'[s] # rooms[s] \/ tokens'[t] # tokens[t]
    BY DEF Valid
  <1>3. \A u \in Slugs \ {s} : rooms[u] # None => rooms[u].id # rooms[s].id
    BY <1>1 DEF AccessOK, AccessInv, OneRowPerId
  <1>4. Shapes
    BY DEF AccessOK
  <1>5. ASSUME NEW u \in Slugs, NEW p \in Passwords, CreateRoom(u, p)
        PROVE  FALSE
    BY <1>1, <1>2, <1>5 DEF CreateRoom, AccessOK, Shapes
  <1>6. ASSUME NEW u \in Slugs, NEW p \in Passwords, AdminReset(u, p)
        PROVE  rooms'[s].version > rooms[s].version
    <2>1. CASE u = s
      <3>1. rooms'[s] = Replaced(rooms[s], p)
        BY <1>6, <2>1 DEF AdminReset, AccessOK, Shapes
      <3>2. rooms'[s].version = rooms[s].version + 1
        BY <1>1, <3>1, ReplacedRow
      <3>. QED  BY <1>1, <3>2
    <2>2. CASE u # s
      <3>1. rooms[u].id # rooms[s].id
        BY <1>3, <1>6, <2>2 DEF AdminReset
      <3>2. tokens'[t] = tokens[t] /\ rooms'[s] = rooms[s]
        BY <1>1, <1>6, <2>2, <3>1 DEF AdminReset, WithoutRoom, AccessOK, Shapes
      <3>. QED  BY <1>2, <3>2
    <2>. QED  BY <2>1, <2>2
  <1>7. ASSUME NEW u \in Slugs, rooms[u] # None, DeleteRows(u)
        PROVE  rooms'[s] = None
    <2>1. CASE u = s
      BY <1>7, <2>1 DEF DeleteRows, AccessOK, Shapes
    <2>2. CASE u # s
      <3>1. tokens'[t] = tokens[t] /\ rooms'[s] = rooms[s]
        BY <1>1, <1>3, <1>7, <2>2 DEF DeleteRows, WithoutRoom, AccessOK, Shapes
      <3>. QED  BY <1>2, <3>1
    <2>. QED  BY <2>1, <2>2
  <1>8. ASSUME NEW r \in Requests, DeleteCommit(r)
        PROVE  rooms'[s] = None
    BY <1>7, <1>8 DEF DeleteCommit, StillAllowed, Valid, AccessOK, AccessInv, RequestsKnowTheirRoom
  <1>9. ASSUME NEW r \in Requests, NEW u \in Slugs, SignInCheck(r, u)
        PROVE  FALSE
    BY <1>2, <1>9 DEF SignInCheck
  <1>10. ASSUME NEW r \in Requests, NEW q \in Requests, NEW kind, NEW p, PasswordCheck(r, q, kind, p)
         PROVE  FALSE
    BY <1>2, <1>10 DEF PasswordCheck
  <1>11. ASSUME NEW r \in Requests, SignInAnswer(r) \/ RefuseCommit(r)
         PROVE  FALSE
    BY <1>2, <1>11 DEF SignInAnswer, RefuseCommit
  <1>12. ASSUME NEW q \in Requests, SignOut(q)
         PROVE  SignOut(t)
    <2>1. q = t
      BY <1>2, <1>12 DEF SignOut, AccessOK, Shapes
    <2>. QED  BY <1>12, <2>1
  <1>13. ASSUME NEW r \in Requests, SignInIssue(r)
         PROVE  Cardinality({q \in Requests : /\ tokens'[q] # None
                                              /\ tokens'[q].room = rooms[s].id
                                              /\ tokens'[q].at > tokens[t].at}) >= MaxSessions
    <2>. DEFINE row == reqs[r].checked
    <2>1. /\ InsertToken(tokens, r, row.id, row.version) /\ rooms' = rooms
          /\ t # r /\ tokens'[t] # tokens[t] /\ reqs[r].pc = "checked"
      BY <1>2, <1>13 DEF SignInIssue, Given
    <2>2. row.id \in Nat /\ row.version \in Nat
      BY <2>1 DEF AccessOK, AccessInv, CheckedRowsAreDated, Shapes, Request, RoomRow
    <2>3. row.id = rooms[s].id
      BY <1>1, <1>4, <2>1, <2>2, InsertPrunesOneRoom DEF Shapes
    <2>4. Cardinality(TokensOf(tokens, row.id)) <= MaxSessions
      BY <1>1, <2>3 DEF AccessOK, SessionLimit
    <2>. HIDE DEF row
    <2>5. Cardinality({q \in Requests : /\ tokens'[q] # None
                                        /\ tokens'[q].room = row.id
                                        /\ tokens'[q].at > tokens[t].at}) >= MaxSessions
      BY <1>1, <1>4, <2>1, <2>2, <2>4, InsertPrunesTheOldest DEF Shapes
    <2>. QED  BY <2>3, <2>5
  <1>14. ASSUME NEW r \in Requests, ChangeCommit(r)
         PROVE  rooms'[s].version > rooms[s].version
    <2>. DEFINE u   == reqs[r].slug
                new == Replaced(rooms[u], reqs[r].password)
                toks == WithoutRoom(new.id)
    <2>1. /\ reqs[r].pc = "checked" /\ reqs[r].kind = "change" /\ Valid(reqs[r].token, u)
          /\ rooms' = [rooms EXCEPT ![u] = new] /\ InsertToken(toks, r, new.id, new.version)
      BY <1>14 DEF ChangeCommit, StillAllowed
    <2>2. /\ u \in Slugs /\ rooms[u] # None /\ rooms[u] \in RoomRow
          /\ rooms[u].id \in Nat /\ rooms[u].version \in Nat /\ reqs[r].password \in Passwords
      <3>1. rooms[u] # None
        BY <2>1 DEF Valid
      <3>2. u \in Slugs
        BY <2>1 DEF AccessOK, AccessInv, RequestsKnowTheirRoom
      <3>4. reqs[r].password \in Passwords \cup {None} /\ reqs[r].password # None
        BY <2>1 DEF AccessOK, AccessInv, CheckedRowsAreDated, Shapes, Request
      <3>3. rooms[u] \in RoomRow
        BY <3>1, <3>2 DEF AccessOK, Shapes
      <3>. QED  BY <3>1, <3>2, <3>3, <3>4 DEF RoomRow
    <2>3. new.id = rooms[u].id /\ new.version = rooms[u].version + 1
      BY <2>2, ReplacedRow
    <2>4. CASE u = s
      <3>1. rooms'[s] = new
        BY <1>4, <2>1, <2>4 DEF Shapes
      <3>. QED  BY <2>2, <2>3, <2>4, <3>1
    <2>5. CASE u # s
      <3>1. new.id # tokens[t].room /\ new.id \in Nat /\ new.version \in Nat
        BY <1>1, <1>3, <2>2, <2>3, <2>5
      <3>2. toks \in [Requests -> TokenRow \cup {None}] /\ toks[t] = tokens[t] /\ t # r
        BY <1>1, <1>4, <2>1, <3>1, WithoutRoomKeepsTokens DEF WithoutRoom, Given
      <3>3. rooms'[s] = rooms[s]
        BY <1>4, <2>1, <2>5 DEF Shapes
      <3>. HIDE DEF new, toks, u
      <3>4. tokens'[t] = tokens[t]
        BY <2>1, <3>1, <3>2, InsertPrunesOneRoom
      <3>. QED  BY <1>2, <3>3, <3>4
    <2>. QED  BY <2>4, <2>5
  <1>15. ASSUME NEW u \in Slugs, AdminDelete(u)
         PROVE  rooms'[s] = None
    BY <1>7, <1>15 DEF AdminDelete
  <1>. QED  BY <1>5, <1>6, <1>8, <1>9, <1>10, <1>11, <1>12, <1>13, <1>14, <1>15 DEF AccessNext

\* Steps of streams and writes leave rooms, tokens and requests alone.
LEMMA OnlyAccessStepsTouchRooms ==
    ASSUME [Next]_vars
    PROVE  AccessNext \/ UNCHANGED accessVars
  <1>1. CASE UNCHANGED vars
    BY <1>1 DEF vars, accessVars
  <1>2. CASE Next
    BY <1>2 DEF Next, StreamStep, Connect, CheckAccess, Subscribe, ReadRoom, Woken, Recheck,
                Disconnect, WriteRoom, Wake
  <1>. QED  BY <1>1, <1>2

\* Whatever ran between a password check and its commit: a room's password changes, or the
\* room goes, only by an admin or by one who knows the room's password and has access.
THEOREM PasswordsGuardRooms == Spec => PasswordGuardsRoom
  <1>. DEFINE A == \A s \in Slugs : rooms[s] # None /\ rooms'[s] # rooms[s] =>
                     \/ AdminDelete(s)
                     \/ \E p \in Passwords : AdminReset(s, p)
                     \/ \E r \in Requests : /\ reqs[r].pc = "checked"
                                            /\ reqs[r].kind \in {"change", "delete"}
                                            /\ reqs[r].slug = s
                                            /\ Valid(reqs[r].token, s)
                                            /\ reqs[r].checked.hash = rooms[s].hash
                                            /\ reqs'[r].pc # "checked"
  <1>1. AccessOK /\ [Next]_vars => [A]_<<accessVars, wakes>>
    <2>1. ASSUME UNCHANGED accessVars
          PROVE  A
      BY <2>1 DEF accessVars
    <2>2. ASSUME AccessOK, AccessNext
          PROVE  A
      BY <2>2, StepsGuardRooms
    <2>. HIDE DEF A
    <2>. QED  BY <2>1, <2>2, OnlyAccessStepsTouchRooms
  <1>. QED  BY <1>1, InitOK, NextOK, PTL DEF Spec, PasswordGuardsRoom

\* A session ends for one of four reasons, and none of them is what another member does with
\* a session of their own short of MAX_SESSIONS_PER_ROOM sign-ins.
THEOREM SessionsEndOnlyForAReason == Spec => SessionsEndForAReason
  <1>. DEFINE A == \A t \in Requests : \A s \in Slugs : Given(t) /\ Valid(t, s) /\ ~Valid(t, s)' =>
                     \/ rooms'[s] = None
                     \/ rooms'[s].version > rooms[s].version
                     \/ SignOut(t)
                     \/ Cardinality({r \in Requests : /\ tokens'[r] # None
                                                      /\ tokens'[r].room = rooms[s].id
                                                      /\ tokens'[r].at > tokens[t].at}) >= MaxSessions
  <1>1. AccessOK /\ [Next]_vars => [A]_<<accessVars, wakes>>
    <2>1. ASSUME UNCHANGED accessVars
          PROVE  A
      BY <2>1 DEF accessVars, Valid
    <2>2. ASSUME AccessOK, AccessNext
          PROVE  A
      BY <2>2, StepsEndSessions
    <2>. HIDE DEF A
    <2>. QED  BY <2>1, <2>2, OnlyAccessStepsTouchRooms
  <1>. QED  BY <1>1, InitOK, NextOK, PTL DEF Spec, SessionsEndForAReason
=============================================================================
