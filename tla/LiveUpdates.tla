----------------------------- MODULE LiveUpdates -----------------------------
(***************************************************************************)
(* The live update streams of rooms (src/api/events.py, live_updates.py)   *)
(* over RoomAccess: a stream takes a slot, checks access, subscribes, and  *)
(* then reads access and the room's seq whenever it is woken, and every 15 *)
(* seconds.  Writes wake the room's streams after their commit.            *)
(*                                                                         *)
(* A step of a stream is what it does up to its next await; reads are      *)
(* transactions in a worker thread.  Share links have the same streams.    *)
(***************************************************************************)
EXTENDS RoomAccess

CONSTANTS Streams,           \* connections that may ask for a stream
          MaxSubscriptions,  \* MAX_SUBSCRIPTIONS
          MaxSeq             \* bound: writes stop at this seq

ASSUME Capacity == IsFiniteSet(Streams) /\ MaxSubscriptions \in Nat /\ MaxSeq \in Nat

VARIABLES seq,           \* rooms.change_seq
          streams,       \* the connections
          reservations,  \* _reservations
          subscriptions  \* _subscriptions

streamVars == <<streams, reservations, subscriptions>>
vars == <<rooms, deleted, tokens, reqs, wakes, seq, streams, reservations, subscriptions>>

\* A connection: where it is, the token and the room it is for, the seq it was
\* last sent, and whether it was woken.
Stream == [pc : {"off", "access", "start", "read", "wait"},
           token : Requests \cup {None}, room : Nat, last : Nat, woken : BOOLEAN]
Off == [pc |-> "off", token |-> None, room |-> 0, last |-> 0, woken |-> FALSE]

\* The shapes of RoomAccess and of the streams.
TypeOK ==
    /\ AccessTypeOK
    /\ seq \in [Slugs -> Nat]
    /\ streams \in [Streams -> Stream]
    /\ reservations \subseteq Streams
    /\ subscriptions \subseteq Streams

\* The room the stream's URL and cookie name.
Slug(st) == reqs[streams[st].token].slug
HasAccess(st) == Valid(streams[st].token, Slug(st))

-----------------------------------------------------------------------------

\* reserve(): a slot is held while access is checked.  With no slot left the
\* answer is 503 and nothing changes.
Connect(st, token) ==
    /\ streams[st].pc = "off"
    /\ Given(token)
    /\ Cardinality(subscriptions) + Cardinality(reservations) < MaxSubscriptions
    /\ reservations' = reservations \cup {st}
    /\ streams' = [streams EXCEPT ![st] = [Off EXCEPT !.pc = "access", !.token = token]]
    /\ UNCHANGED <<accessVars, wakes, seq, subscriptions>>

\* The stream ends: its slot is given back, whichever it has.
Ended(st) ==
    /\ streams' = [streams EXCEPT ![st] = Off]
    /\ reservations' = reservations \ {st}
    /\ subscriptions' = subscriptions \ {st}

\* Variant: a refused request keeps its slot.
CheckAccessKeepsSlot(st) ==
    /\ streams[st].pc = "access"
    /\ IF HasAccess(st)
       THEN streams' = [streams EXCEPT ![st].pc = "start", ![st].room = rooms[Slug(st)].id]
       ELSE streams' = [streams EXCEPT ![st] = Off]
    /\ UNCHANGED <<accessVars, wakes, seq, reservations, subscriptions>>

\* _room_stream_access
CheckAccess(st) ==
    /\ streams[st].pc = "access"
    /\ IF HasAccess(st)
       THEN /\ streams' = [streams EXCEPT ![st].pc = "start", ![st].room = rooms[Slug(st)].id]
            /\ UNCHANGED <<reservations, subscriptions>>
       ELSE Ended(st)
    /\ UNCHANGED <<accessVars, wakes, seq>>

\* subscribe(): the slot becomes a subscription, before the first read.
Subscribe(st) ==
    /\ streams[st].pc = "start"
    /\ streams' = [streams EXCEPT ![st].pc = "read"]
    /\ reservations' = reservations \ {st}
    /\ subscriptions' = subscriptions \cup {st}
    /\ UNCHANGED <<accessVars, wakes, seq>>

\* Access and seq in one transaction: seq is sent if it is new; without access
\* the stream sends revoked and ends.
ReadRoom(st) ==
    /\ streams[st].pc = "read"
    /\ IF HasAccess(st)
       THEN /\ streams' = [streams EXCEPT ![st].pc = "wait", ![st].last = seq[Slug(st)]]
            /\ UNCHANGED <<reservations, subscriptions>>
       ELSE Ended(st)
    /\ UNCHANGED <<accessVars, wakes, seq>>

\* wait(): the signal is cleared, then the room is read.
Woken(st) ==
    /\ streams[st].pc = "wait"
    /\ streams[st].woken
    /\ streams' = [streams EXCEPT ![st].pc = "read", ![st].woken = FALSE]
    /\ UNCHANGED <<accessVars, wakes, seq, reservations, subscriptions>>

\* Variant: a stream reads only when it is woken.
NoRecheck(st) == FALSE /\ UNCHANGED vars

\* wait() runs into its 15 seconds; a signal set at that moment stays set.
Recheck(st) ==
    /\ streams[st].pc = "wait"
    /\ streams' = [streams EXCEPT ![st].pc = "read"]
    /\ UNCHANGED <<accessVars, wakes, seq, reservations, subscriptions>>

\* The client goes away, the server shuts down, or the database fails.
Disconnect(st) ==
    /\ streams[st].pc # "off"
    /\ Ended(st)
    /\ UNCHANGED <<accessVars, wakes, seq>>

\* Variant: a handler that forgets notify_room_changed.
WriteRoomQuietly(token) ==
    LET s == reqs[token].slug
    IN /\ Given(token)
       /\ Valid(token, s)
       /\ seq[s] < MaxSeq
       /\ seq' = [seq EXCEPT ![s] = @ + 1]
       /\ UNCHANGED <<accessVars, wakes, streamVars>>

\* A write of a member; its commit comes before its wake.
WriteRoom(token) ==
    LET s == reqs[token].slug
    IN /\ Given(token)
       /\ Valid(token, s)
       /\ seq[s] < MaxSeq
       /\ seq' = [seq EXCEPT ![s] = @ + 1]
       /\ wakes' = wakes \cup {rooms[s].id}
       /\ UNCHANGED <<accessVars, streamVars>>

\* wake_streams
Wake(room) ==
    /\ room \in wakes
    /\ wakes' = wakes \ {room}
    /\ streams' = [st \in Streams |->
                      IF st \in subscriptions /\ streams[st].room = room
                      THEN [streams[st] EXCEPT !.woken = TRUE] ELSE streams[st]]
    /\ UNCHANGED <<accessVars, seq, reservations, subscriptions>>

Init ==
    /\ AccessInit
    /\ seq = [s \in Slugs |-> 0]
    /\ streams = [st \in Streams |-> Off]
    /\ reservations = {}
    /\ subscriptions = {}

StreamStep(st) ==
    \/ CheckAccess(st) \/ Subscribe(st) \/ ReadRoom(st) \/ Woken(st) \/ Recheck(st)

Next ==
    \/ AccessNext /\ UNCHANGED <<seq, streamVars>>
    \/ \E st \in Streams : StreamStep(st) \/ Disconnect(st)
    \/ \E st \in Streams, t \in Requests : Connect(st, t)
    \/ \E t \in Requests : WriteRoom(t)
    \/ \E room \in wakes : Wake(room)

\* The event loop runs each stream on, and the timer of a waiting one runs out.
Spec == Init /\ [][Next]_vars /\ \A st \in Streams : WF_vars(StreamStep(st))

-----------------------------------------------------------------------------
(* Properties.                                                             *)

\* A slot belongs to a connection that is still there, and to one only: none is
\* lost to a refused, cancelled or ended stream, and the limit holds.
SlotsAreHeld ==
    /\ reservations = {st \in Streams : streams[st].pc \in {"access", "start"}}
    /\ subscriptions = {st \in Streams : streams[st].pc \in {"read", "wait"}}
    /\ Cardinality(subscriptions) + Cardinality(reservations) <= MaxSubscriptions

\* A stream that sleeps without a signal, with no wake of its room on the way,
\* has nothing to tell: its room is there, and it has sent the room's seq.  The
\* 15 seconds are not needed for writes.
AsleepIsCurrent ==
    \A st \in Streams :
        /\ streams[st].pc = "wait"
        /\ ~streams[st].woken
        /\ streams[st].room \notin wakes
        => /\ rooms[Slug(st)] # None
           /\ streams[st].last = seq[Slug(st)]

\* Why it holds: the rooms and tokens are in order (AccessInv), a stream comes with
\* a token that was given, and once it has its room's id it keeps that room.
StreamsKnowTheirRoom ==
    \A st \in Streams :
        /\ streams[st].pc # "off" => streams[st].token \in Requests /\ Given(streams[st].token)
        /\ streams[st].pc \in {"start", "read", "wait"} /\ rooms[Slug(st)] # None
              => streams[st].room = rooms[Slug(st)].id
LiveInv == AccessInv /\ StreamsKnowTheirRoom

\* A stream whose access is gone ends, however it went: a sign-out wakes nobody
\* (api/session.py), so this rests on the recheck.
RevokedEnds ==
    \A st \in Streams :
        streams[st].pc # "off" /\ ~HasAccess(st) ~> streams[st].pc = "off"
=============================================================================
