------------------------------ MODULE FrontDoor ------------------------------
(***************************************************************************)
(* What the server lets in before anybody is in a room: sign-in attempts   *)
(* under the limit (SignInLimiter), the admin session (admin_access.py),   *)
(* and the invitations the admin gives out, with which anyone makes rooms  *)
(* (room_invitations.py, api/invitations.py, api/admin.py).                *)
(*                                                                         *)
(* A request runs in a thread of its own: bcrypt runs between its calls of *)
(* the limiter, and between its first look at an invitation and the        *)
(* transaction that makes the room.                                        *)
(***************************************************************************)
EXTENDS SignInLimiter

CONSTANTS Requests,     \* requests for a sign-in or a new room
          Invitations,  \* tokens of invitations
          None,
          Lifetime,     \* INVITATION_LIFETIME, in seconds
          Retention,    \* INVITATION_RETENTION, in seconds
          MaxRooms,     \* MAX_ROOMS_PER_INVITATION
          AdminSession  \* ADMIN_SESSION_SECONDS, in ticks

ASSUME FinitelyMany == IsFiniteSet(Requests)
ASSUME Durations == {MaxRooms, Lifetime, Retention, AdminSession} \subseteq Nat
ASSUME NoneIsNoTime == None \notin Int

VARIABLES invitations, \* room_invitations, by token
          issued,      \* when a token was given out
          revoked,     \* tokens that were ever revoked
          listing,     \* tokens whose request has yet to read the list back
          admin,       \* the expiry in the admin cookie, in seconds
          reqs         \* the requests

invites == <<invitations, issued, revoked, listing>>
vars == <<now, limiter, invites, admin, reqs>>

InvitationRow == [expires : Int, revokedAt : Int \cup {None}, rooms : Nat]
NewRequest == [pc |-> "new", target |-> None, at |-> None, retryAfter |-> None, ahead |-> {},
               invalid |-> FALSE]
Finished == [NewRequest EXCEPT !.pc = "done"]

\* int(time.time())
Seconds == now \div Second

\* The tables, the buckets and the requests have the shape the code gives them:
\* stamps come in order, no bucket is over its limit, and only buckets in the
\* dict hold stamps.
TypeOK ==
    /\ invitations \in [Invitations -> InvitationRow \cup {None}]
    /\ revoked \cup listing \subseteq {i \in Invitations : issued[i] # None}
    /\ \A q \in Requests :
          /\ reqs[q].pc \in {"new", "checking", "failed", "refused", "hashing", "created", "done"}
          /\ reqs[q].pc \in {"hashing", "created"} => reqs[q].target \in Invitations
          /\ reqs[q].pc \in {"checking", "failed", "refused"} => reqs[q].target \in Slugs \cup {Admin}
    /\ \A k \in Keys :
          /\ Len(buckets[k]) <= LimitOf(k)
          /\ \A m, n \in DOMAIN buckets[k] : m <= n => buckets[k][m] <= buckets[k][n]
          /\ buckets[k] # <<>> <=> Contains(order, k)

-----------------------------------------------------------------------------
(* Sign-in attempts (api/session.py and api/admin.py, sign_in).            *)

Attempt(q, target) ==
    /\ reqs[q].pc = "new"
    /\ IF Full(target) = {}
       THEN /\ Take(target)
            /\ reqs' = [reqs EXCEPT ![q] = [@ EXCEPT !.pc = "checking", !.target = target,
                                                     !.at = now]]
       ELSE /\ TakeNothing(target)
            /\ reqs' = [reqs EXCEPT ![q] = [@ EXCEPT !.pc = "refused", !.target = target,
                            !.at = now, !.retryAfter = RetryAfter(Read(target), Full(target)),
                            !.ahead = {p \in Requests : reqs[p].pc \in {"checking", "failed"}}]]
    /\ UNCHANGED <<now, invites, admin>>

\* The password was wrong, the room is unknown, or the database failed.
Fails(q) ==
    /\ reqs[q].pc = "checking"
    /\ reqs' = [reqs EXCEPT ![q].pc = "failed"]
    /\ UNCHANGED <<now, limiter, invites, admin>>

\* The password was right; an admin gets a fresh token.
Succeeds(q) ==
    /\ reqs[q].pc = "checking"
    /\ GiveBack(reqs[q].target, reqs[q].at)
    /\ admin' = IF reqs[q].target = Admin THEN (now + AdminSession) \div Second ELSE admin
    /\ reqs' = [reqs EXCEPT ![q] = Finished]
    /\ UNCHANGED <<now, invites>>

AdminSignsOut ==
    /\ admin' = 0
    /\ UNCHANGED <<now, limiter, invites, reqs>>

-----------------------------------------------------------------------------
(* Invitations.                                                            *)

\* admin_token_valid, for require_admin
AdminSignedIn == admin * Second > now

\* _is_active_locked
Active(i) ==
    /\ invitations[i] # None
    /\ invitations[i].revokedAt = None
    /\ invitations[i].expires > Seconds
    /\ invitations[i].rooms < MaxRooms

\* create_invitation
Issue(i) ==
    /\ AdminSignedIn
    /\ issued[i] = None
    /\ invitations' = [invitations EXCEPT ![i] =
                          [expires |-> Seconds + Lifetime, revokedAt |-> None, rooms |-> 0]]
    /\ issued' = [issued EXCEPT ![i] = now]
    /\ listing' = listing \cup {i}
    /\ UNCHANGED <<now, limiter, revoked, admin, reqs>>

\* get_invitations: rows inactive for the retention are deleted.
Prune ==
    LET cutoff == Seconds - Retention
        old(i) == /\ invitations[i] # None
                  /\ \/ invitations[i].expires <= cutoff
                     \/ invitations[i].revokedAt # None /\ invitations[i].revokedAt <= cutoff
    IN  invitations' = [i \in Invitations |-> IF old(i) THEN None ELSE invitations[i]]

List ==
    /\ AdminSignedIn
    /\ Prune
    /\ UNCHANGED <<now, limiter, issued, revoked, listing, admin, reqs>>

\* The request of a new invitation reads the list back.
IssueListed(i) ==
    /\ i \in listing
    /\ Prune
    /\ listing' = listing \ {i}
    /\ UNCHANGED <<now, limiter, issued, revoked, admin, reqs>>

\* revoke_invitation
Revoke(i) ==
    /\ AdminSignedIn
    /\ invitations[i] # None
    /\ invitations[i].revokedAt = None
    /\ invitations' = [invitations EXCEPT ![i].revokedAt = Seconds]
    /\ revoked' = revoked \cup {i}
    /\ UNCHANGED <<now, limiter, issued, listing, admin, reqs>>

\* create_room_from_invitation: the first look, then a name or a password that
\* is not allowed, or bcrypt.
StartRoom(q, i) ==
    /\ reqs[q].pc = "new"
    /\ reqs' \in {[reqs EXCEPT ![q] = r] :
                     r \in {Finished} \cup IF Active(i) THEN {[reqs[q] EXCEPT !.pc = "hashing",
                                                                              !.target = i]}
                                           ELSE {}}
    /\ UNCHANGED <<now, limiter, invites, admin>>

\* Variant: the first look decides.
StillActive(i) == invitations[i] # None

\* The second look, in the transaction.
ActiveInTransaction(i) == Active(i)

\* The transaction counts the room and makes it, or finds the invitation gone.
FinishRoom(q) ==
    LET i == reqs[q].target IN
    /\ reqs[q].pc = "hashing"
    /\ IF ActiveInTransaction(i)
       THEN /\ invitations' = [invitations EXCEPT ![i].rooms = @ + 1]
            /\ reqs' = [reqs EXCEPT ![q] =
                           [@ EXCEPT !.pc = "created", !.at = now,
                                     !.invalid = i \in revoked
                                                   \/ Seconds >= issued[i] \div Second + Lifetime]]
       ELSE /\ reqs' = [reqs EXCEPT ![q] = Finished]
            /\ UNCHANGED invitations
    /\ UNCHANGED <<now, limiter, issued, revoked, listing, admin>>

Tick ==
    /\ now < MaxNow
    /\ now' = now + 1
    /\ UNCHANGED <<limiter, invites, admin, reqs>>

-----------------------------------------------------------------------------
Init ==
    /\ now = 0
    /\ buckets = [k \in Keys |-> <<>>]
    /\ order = <<>>
    /\ invitations = [i \in Invitations |-> None]
    /\ issued = [i \in Invitations |-> None]
    /\ revoked = {}
    /\ listing = {}
    /\ admin = 0
    /\ reqs = [q \in Requests |-> NewRequest]

Next ==
    \/ \E q \in Requests :
          \/ \E target \in Slugs \cup {Admin} : Attempt(q, target)
          \/ Fails(q) \/ Succeeds(q)
          \/ \E i \in Invitations : StartRoom(q, i)
          \/ FinishRoom(q)
    \/ \E i \in Invitations : Issue(i) \/ IssueListed(i) \/ Revoke(i)
    \/ List \/ AdminSignsOut \/ Tick

Spec == Init /\ [][Next]_vars

-----------------------------------------------------------------------------
\* The requests whose attempt counts in bucket k: failed, or not answered yet.
Counts(k) == {q \in Requests : /\ reqs[q].pc \in {"checking", "failed"}
                               /\ k \in KeysOf(reqs[q].target)}

\* "Only failures count", and every failure does: what a bucket holds of the
\* last minute are the attempts that failed or are still being checked.
SlotsAreAttempts ==
    \A k \in Keys : \A stamp \in (now - Window + 1)..now :
        Cardinality({n \in DOMAIN buckets[k] : buckets[k][n] = stamp})
          = Cardinality({q \in Counts(k) : reqs[q].at = stamp})

\* Who waits as long as the answer says is refused again only for attempts that
\* came after it.
RetryAfterSuffices ==
    \A q \in Requests :
        reqs[q].pc = "refused" /\ now >= reqs[q].at + reqs[q].retryAfter * Second =>
            \A k \in KeysOf(reqs[q].target) :
                Cardinality({p \in Counts(k) \cap reqs[q].ahead : reqs[p].at > now - Window})
                   < LimitOf(k)

\* Rooms made with an invitation.
RoomsOf(i) == {q \in Requests : reqs[q].pc = "created" /\ reqs[q].target = i}

\* An invitation makes at most its number of rooms, also after its record is
\* deleted, and none after it was revoked or its time was over.
InvitationHolds ==
    \A i \in Invitations :
        /\ Cardinality(RoomsOf(i)) <= MaxRooms
        /\ \A q \in RoomsOf(i) : ~reqs[q].invalid
=============================================================================
