----------------------------- MODULE RoomAccess -----------------------------
(***************************************************************************)
(* Who may open a room (src/database_crud.py, api/session.py, api/room.py, *)
(* api/admin.py): room passwords, their versions and the room tokens that  *)
(* sign-ins and password changes hand out.                                 *)
(*                                                                         *)
(* A password is checked with bcrypt outside the database lock, so every   *)
(* request here takes two or three transactions, and other requests run    *)
(* between them.  rooms.id is max(id) + 1, so a new room may get the id of *)
(* a room that was deleted; its slug is always new.  Requests with a wrong *)
(* password change nothing and are left out.                               *)
(***************************************************************************)
EXTENDS Integers, FiniteSets

CONSTANTS Slugs,       \* slugs of rooms
          Passwords,   \* a room's password_hash stands for its password
          Requests,    \* requests that may hand out a token, named for it
          None,        \* no row, no token, no password
          MaxSessions, \* MAX_SESSIONS_PER_ROOM
          MaxVersion   \* bound: a room's password is not replaced beyond it

ASSUME FiniteNames == IsFiniteSet(Slugs) /\ IsFiniteSet(Requests)
ASSUME SomeSession == MaxSessions \in Nat \ {0}
ASSUME VersionBound == MaxVersion \in Nat \ {0}
ASSUME NoneIsNoRow ==
    /\ None \notin Slugs \cup Passwords \cup Requests
    /\ None \notin [id : Nat, hash : Passwords, version : Nat]
    /\ None \notin [room : Nat, version : Nat, revoked : BOOLEAN, at : Nat]

VARIABLES rooms,    \* the rooms table, by slug
          deleted,  \* slugs of rooms that were deleted
          tokens,   \* room_access_tokens, by the request that got the token
          reqs,     \* the requests
          wakes     \* ids of rooms whose streams are still to be woken

accessVars == <<rooms, deleted, tokens, reqs>>

RoomRow  == [id : Nat, hash : Passwords, version : Nat]
TokenRow == [room : Nat, version : Nat, revoked : BOOLEAN, at : Nat]

\* A request: what it is about, the token it came with, the room as it checked
\* the password, and the password its browser knows once it is answered.
Request == [pc : {"new", "checked", "issued", "given", "done"},
            kind : {"signIn", "change", "delete", None},
            slug : Slugs \cup {None}, token : Requests \cup {None},
            password : Passwords \cup {None}, checked : RoomRow \cup {None}]
NewRequest == [pc |-> "new", kind |-> None, slug |-> None, token |-> None,
               password |-> None, checked |-> None]
Finished == [NewRequest EXCEPT !.pc = "done"]

\* The tables and the requests have the shape the code gives them, and no room
\* has more tokens than it may have.
AccessTypeOK ==
    /\ rooms \in [Slugs -> RoomRow \cup {None}]
    /\ deleted \subseteq Slugs
    /\ tokens \in [Requests -> TokenRow \cup {None}]
    /\ reqs \in [Requests -> Request]
    /\ wakes \subseteq Nat
    /\ \A s \in Slugs : rooms[s] # None =>
          Cardinality({r \in Requests : tokens[r] # None /\ tokens[r].room = rooms[s].id})
             <= MaxSessions

-----------------------------------------------------------------------------
(* Rows.                                                                   *)

\* The id SQLite gives a new row: one more than the highest.
NextId(used, id) ==
    /\ \A u \in used : u < id
    /\ id = 1 \/ id - 1 \in used

RoomIds  == {rooms[s].id : s \in {s \in Slugs : rooms[s] # None}}
TokenIds(toks) == {toks[r].at : r \in {r \in Requests : toks[r] # None}}

\* Variant: the version a token was issued for is not compared.
ValidForAnyVersion(token, s) ==
    /\ rooms[s] # None
    /\ tokens[token] # None
    /\ tokens[token].room = rooms[s].id
    /\ ~tokens[token].revoked

\* _valid_room_id_for_token_locked
Valid(token, s) ==
    /\ rooms[s] # None
    /\ tokens[token] # None
    /\ tokens[token].room = rooms[s].id
    /\ tokens[token].version = rooms[s].version
    /\ ~tokens[token].revoked

\* A browser has the token in its cookie for the room.
Given(token) == reqs[token].pc = "given"

\* Variant: one session too many is kept.
KeepOneMore(toks, room) ==
    [r \in Requests |->
        IF /\ toks[r] # None
           /\ toks[r].room = room
           /\ Cardinality({q \in Requests : /\ toks[q] # None
                                            /\ toks[q].room = room
                                            /\ toks[q].at > toks[r].at}) > MaxSessions
        THEN None ELSE toks[r]]

\* The newest sessions of the room are kept.
KeepNewest(toks, room) ==
    [r \in Requests |->
        IF /\ toks[r] # None
           /\ toks[r].room = room
           /\ Cardinality({q \in Requests : /\ toks[q] # None
                                            /\ toks[q].room = room
                                            /\ toks[q].at > toks[r].at}) >= MaxSessions
        THEN None ELSE toks[r]]

\* _insert_room_access_token_locked, into the rows toks
InsertToken(toks, r, room, version) ==
    \E at \in 1..Cardinality(Requests) :
        /\ NextId(TokenIds(toks), at)
        /\ tokens' = KeepNewest([toks EXCEPT ![r] = [room |-> room, version |-> version,
                                                     revoked |-> FALSE, at |-> at]], room)

\* Variant: every token goes, of all rooms.
WithoutAny(room) == [r \in Requests |-> None]

\* The rows that are left when a room's tokens go.
WithoutRoom(room) ==
    [r \in Requests |-> IF tokens[r] # None /\ tokens[r].room = room THEN None ELSE tokens[r]]

-----------------------------------------------------------------------------
(* Rooms.                                                                  *)

\* By an admin or from an invitation.
CreateRoom(s, password) ==
    /\ rooms[s] = None
    /\ s \notin deleted
    /\ \E id \in 1..Cardinality(Slugs) :
          /\ NextId(RoomIds, id)
          /\ rooms' = [rooms EXCEPT ![s] = [id |-> id, hash |-> password, version |-> 1]]
    /\ UNCHANGED <<deleted, tokens, reqs, wakes>>

\* _delete_room_rows_locked; the tokens go by cascade.  The room's streams are
\* woken when the answer is out.
DeleteRows(s) ==
    /\ rooms' = [rooms EXCEPT ![s] = None]
    /\ deleted' = deleted \cup {s}
    /\ tokens' = WithoutRoom(rooms[s].id)
    /\ wakes' = wakes \cup {rooms[s].id}

\* The row of the room once its password is replaced.
Replaced(row, password) == [id |-> row.id, hash |-> password, version |-> row.version + 1]

AdminReset(s, password) ==
    /\ rooms[s] # None
    /\ rooms[s].version < MaxVersion
    /\ rooms' = [rooms EXCEPT ![s] = Replaced(@, password)]
    /\ tokens' = WithoutRoom(rooms[s].id)
    /\ wakes' = wakes \cup {rooms[s].id}
    /\ UNCHANGED <<deleted, reqs>>

AdminDelete(s) ==
    /\ rooms[s] # None
    /\ DeleteRows(s)
    /\ UNCHANGED reqs

-----------------------------------------------------------------------------
(* Sign-in and sign-out.                                                   *)

\* The room is read, then the password is found right, outside the lock.
SignInCheck(r, s) ==
    /\ reqs[r].pc = "new"
    /\ rooms[s] # None
    /\ reqs' = [reqs EXCEPT ![r] = [NewRequest EXCEPT
                    !.pc = "checked", !.kind = "signIn", !.slug = s,
                    !.password = rooms[s].hash, !.checked = rooms[s]]]
    /\ UNCHANGED <<rooms, deleted, tokens, wakes>>

\* The token keeps the version the password was checked against.
SignInIssue(r) ==
    /\ reqs[r].pc = "checked"
    /\ reqs[r].kind = "signIn"
    /\ IF reqs[r].checked.id \in RoomIds
       THEN /\ InsertToken(tokens, r, reqs[r].checked.id, reqs[r].checked.version)
            /\ reqs' = [reqs EXCEPT ![r].pc = "issued", ![r].checked = None]
       ELSE /\ reqs' = [reqs EXCEPT ![r] = Finished]
            /\ UNCHANGED tokens
    /\ UNCHANGED <<rooms, deleted, wakes>>

\* The browser gets the token only if it opens the room it asked for by now.
SignInAnswer(r) ==
    /\ reqs[r].pc = "issued"
    /\ reqs' = [reqs EXCEPT ![r] = IF Valid(r, reqs[r].slug)
                                   THEN [@ EXCEPT !.pc = "given", !.kind = None]
                                   ELSE Finished]
    /\ UNCHANGED <<rooms, deleted, tokens, wakes>>

\* revoke_room_access_token: the streams of the room are not woken.
SignOut(token) ==
    LET s == reqs[token].slug
    IN /\ Given(token)
       /\ rooms[s] # None
       /\ tokens[token] # None
       /\ tokens[token].room = rooms[s].id
       /\ tokens' = [tokens EXCEPT ![token].revoked = TRUE]
       /\ UNCHANGED <<rooms, deleted, reqs, wakes>>

-----------------------------------------------------------------------------
(* Changing the password and deleting the room, with the room password.    *)

\* Room access and the current password are checked; bcrypt runs.
PasswordCheck(r, token, kind, password) ==
    LET s == reqs[token].slug
    IN /\ reqs[r].pc = "new"
       /\ Given(token)
       /\ Valid(token, s)
       /\ reqs' = [reqs EXCEPT ![r] = [pc |-> "checked", kind |-> kind, slug |-> s,
                       token |-> token, password |-> password, checked |-> rooms[s]]]
       /\ UNCHANGED <<rooms, deleted, tokens, wakes>>

\* Variant: the write trusts the checks made before bcrypt.
RoomStillExists(r) == rooms[reqs[r].slug] # None

\* The second transaction: access again, and the room as it was checked.
StillAllowed(r) ==
    /\ Valid(reqs[r].token, reqs[r].slug)
    /\ rooms[reqs[r].slug] = reqs[r].checked

\* change_room_password_locked: this browser gets a new token.
ChangeCommit(r) ==
    LET s   == reqs[r].slug
        new == Replaced(rooms[s], reqs[r].password)
    IN /\ reqs[r].pc = "checked"
       /\ reqs[r].kind = "change"
       /\ StillAllowed(r)
       /\ new.version <= MaxVersion
       /\ rooms' = [rooms EXCEPT ![s] = new]
       /\ InsertToken(WithoutRoom(new.id), r, new.id, new.version)
       /\ reqs' = [reqs EXCEPT ![r] = [NewRequest EXCEPT !.pc = "given", !.slug = s,
                                                         !.password = reqs[r].password]]
       /\ wakes' = wakes \cup {new.id}
       /\ UNCHANGED deleted

\* delete_room_with_password_locked
DeleteCommit(r) ==
    /\ reqs[r].pc = "checked"
    /\ reqs[r].kind = "delete"
    /\ StillAllowed(r)
    /\ DeleteRows(reqs[r].slug)
    /\ reqs' = [reqs EXCEPT ![r] = Finished]

\* 401 or 403: nothing is written.
RefuseCommit(r) ==
    /\ reqs[r].pc = "checked"
    /\ reqs[r].kind \in {"change", "delete"}
    /\ ~StillAllowed(r)
    /\ reqs' = [reqs EXCEPT ![r] = Finished]
    /\ UNCHANGED <<rooms, deleted, tokens, wakes>>

-----------------------------------------------------------------------------

AccessInit ==
    /\ rooms = [s \in Slugs |-> None]
    /\ deleted = {}
    /\ tokens = [r \in Requests |-> None]
    /\ reqs = [r \in Requests |-> NewRequest]
    /\ wakes = {}

AccessNext ==
    \/ \E s \in Slugs, p \in Passwords : CreateRoom(s, p) \/ AdminReset(s, p)
    \/ \E s \in Slugs : AdminDelete(s)
    \/ \E r \in Requests, s \in Slugs : SignInCheck(r, s)
    \/ \E r \in Requests, t \in Requests, p \in Passwords : PasswordCheck(r, t, "change", p)
    \/ \E r \in Requests, t \in Requests : PasswordCheck(r, t, "delete", None)
    \/ \E r \in Requests :
          \/ SignInIssue(r) \/ SignInAnswer(r) \/ SignOut(r)
          \/ ChangeCommit(r) \/ DeleteCommit(r) \/ RefuseCommit(r)

AccessSpec == AccessInit /\ [][AccessNext]_<<accessVars, wakes>>

-----------------------------------------------------------------------------
(* Properties.                                                             *)

\* A token that a browser was given opens the one room it was given for, and
\* only while that room's password is the one its user proved or set: not after
\* a change that ran while bcrypt checked the old password, and not a later
\* room that got the same id.
TokenProvesPassword ==
    \A t \in Requests : \A s \in Slugs :
        Given(t) /\ Valid(t, s) =>
            /\ s = reqs[t].slug
            /\ rooms[s].hash = reqs[t].password

\* Why it holds.  No id, no insertion order and no slug has two rows, and a
\* deleted slug does not come back; a token goes with its room; a request knows a
\* room that is there, or was; the row a password was checked against has the
\* room's hash until its version is replaced; and the token of a request is for
\* the request's room while its hash is the request's password.
OneRowPerId ==
    /\ \A s, u \in Slugs :
          rooms[s] # None /\ rooms[u] # None /\ rooms[s].id = rooms[u].id => s = u
    /\ \A q, r \in Requests :
          tokens[q] # None /\ tokens[r] # None /\ tokens[q].at = tokens[r].at => q = r
TokensHaveRooms ==
    \A r \in Requests : tokens[r] # None =>
        \E s \in Slugs : rooms[s] # None /\ rooms[s].id = tokens[r].room
RequestsKnowTheirRoom ==
    \A r \in Requests : reqs[r].pc \in {"checked", "issued", "given"} =>
        /\ reqs[r].slug \in Slugs
        /\ rooms[reqs[r].slug] # None \/ reqs[r].slug \in deleted
CheckedRowsAreDated ==
    \A r \in Requests : reqs[r].pc = "checked" =>
        /\ reqs[r].checked # None
        /\ reqs[r].kind = "signIn" => reqs[r].password = reqs[r].checked.hash
        /\ reqs[r].kind = "change" => reqs[r].password # None
        /\ rooms[reqs[r].slug] # None =>
              /\ reqs[r].checked.id = rooms[reqs[r].slug].id
              /\ reqs[r].checked.version <= rooms[reqs[r].slug].version
              /\ reqs[r].checked.version = rooms[reqs[r].slug].version
                    => reqs[r].checked.hash = rooms[reqs[r].slug].hash
TokensAreProved ==
    \A r \in Requests :
        /\ reqs[r].pc \in {"issued", "given"} /\ Valid(r, reqs[r].slug)
              => rooms[reqs[r].slug].hash = reqs[r].password
        /\ Given(r) /\ tokens[r] # None
              => /\ rooms[reqs[r].slug] # None
                 /\ rooms[reqs[r].slug].id = tokens[r].room
AccessInv ==
    /\ OneRowPerId
    /\ \A s \in deleted : rooms[s] = None
    /\ TokensHaveRooms
    /\ RequestsKnowTheirRoom
    /\ CheckedRowsAreDated
    /\ TokensAreProved

\* A room's password changes, or the room goes, only by an admin or by a request
\* whose access is valid and whose password is the room's in that very step: not
\* one that was right when bcrypt ran, and not one for another room.
PasswordGuardsRoom ==
    [][\A s \in Slugs : rooms[s] # None /\ rooms'[s] # rooms[s] =>
          \/ AdminDelete(s)
          \/ \E p \in Passwords : AdminReset(s, p)
          \/ \E r \in Requests : /\ reqs[r].pc = "checked"
                                 /\ reqs[r].kind \in {"change", "delete"}
                                 /\ reqs[r].slug = s
                                 /\ Valid(reqs[r].token, s)
                                 /\ reqs[r].checked.hash = rooms[s].hash
                                 /\ reqs'[r].pc # "checked"]_<<accessVars, wakes>>

\* A session ends by its own sign-out, with its room, by a new password, or when
\* the room has got MAX_SESSIONS_PER_ROOM newer tokens; never by another's
\* sign-out or a sign-in elsewhere.
SessionsEndForAReason ==
    [][\A t \in Requests : \A s \in Slugs : Given(t) /\ Valid(t, s) /\ ~Valid(t, s)' =>
          \/ rooms'[s] = None
          \/ rooms'[s].version > rooms[s].version
          \/ SignOut(t)
          \/ Cardinality({r \in Requests : /\ tokens'[r] # None
                                           /\ tokens'[r].room = rooms[s].id
                                           /\ tokens'[r].at > tokens[t].at}) >= MaxSessions
      ]_<<accessVars, wakes>>
=============================================================================
