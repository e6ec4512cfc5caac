----------------------------- MODULE RoomSession -----------------------------
(***************************************************************************)
(* One room in the tabs of one browser: signing in, signing out and the    *)
(* access checks between them (frontend/src/lib/data: index.ts,            *)
(* room-signin.ts, pending-logout.ts, session-transition.ts,               *)
(* snapshot-store.ts).                                                     *)
(*                                                                         *)
(* The tabs share the cookie, one IndexedDB control record with the saved  *)
(* copy beside it, one Web Lock, and two broadcast channels.  The lock     *)
(* orders the requests that read or change the cookie; the control record  *)
(* decides.  A task of a tab runs until it awaits the lock, the network or *)
(* IndexedDB; two reads of IndexedDB with nothing but a comparison between *)
(* them are one step.                                                      *)
(*                                                                         *)
(* Left out: browsers without IndexedDB or Web Locks, a sign-out marker    *)
(* that cannot be stored in time, share links, and what the queue and the  *)
(* stream do on their own (OfflineQueue, LiveUpdates).                     *)
(***************************************************************************)
EXTENDS SequenceFilter

CONSTANTS Tabs,        \* tabs of the browser
          MaxSignIns,  \* bound: sign-ins with a password
          MaxSignOuts, \* bound: sign-outs
          MaxOpens,    \* bound: times a tab opens the room
          MaxFaults    \* bound: lost answers, wrong passwords, revocations

ASSUME SessionBounds == {MaxSignIns, MaxSignOuts, MaxOpens, MaxFaults} \subseteq Nat

VARIABLES control, \* the room's control record: generation and sign-out marker
          saved,   \* the room has a saved copy
          cookie,  \* the token in the room cookie, or NoToken
          valid,   \* tokens the server accepts
          kept,    \* the token of the last sign-in that was not signed out, or NoToken
          lock,    \* who asked for the session lock, in order; the first holds it
          tab,     \* the room's handle in each tab
          hints,   \* clear hints on their way to a tab
          news,    \* a sign-in was announced and the tab has not heard it yet
          left     \* how often each bounded event may still happen

vars == <<control, saved, cookie, valid, kept, lock, tab, hints, news, left>>
shared == <<control, saved, cookie, valid, kept>>

NoToken == 0
NoGeneration == -1
Kinds == {"check", "user", "retry"}  \* a tab's tasks: access check, user action, late sign-out

\* A handle whose page is closed.
Closed == [open |-> FALSE, blocked |-> FALSE, gen |-> NoGeneration, view |-> "none",
           auth |-> FALSE, timer |-> FALSE, clearing |-> FALSE,
           pc |-> [k \in Kinds |-> "idle"], stale |-> {}, again |-> FALSE,
           before |-> NoGeneration, token |-> NoToken, write |-> "none"]

\* Steps of a task that asked for the session lock.
Locked == [check |-> {"lock", "who", "feed", "save", "grant", "open", "session"},
           user  |-> {"in", "revoke", "clear", "post", "who", "feed", "save", "grant", "open",
                      "out"},
           retry |-> {"late"}]
OpenTabs == {t \in Tabs : tab[t].open}

\* The records have the shape the code gives them, and the tasks of the session
\* lock are those that asked for it, each once.
TypeOK ==
    /\ control \in [gen : Nat, mark : {"none", "pending", "done"}]
    /\ saved \in BOOLEAN
    /\ {cookie, kept} \cup valid \subseteq 0..(MaxSignIns + 1)
    /\ \A t \in Tabs :
          /\ tab[t].gen <= control.gen
          /\ tab[t].view \in {"none", "saved", "shown", "locked"}
          /\ hints[t] \subseteq 1..control.gen
          /\ \A k \in Kinds :
                /\ tab[t].pc[k] \in {"idle", "hold", "mark"} \cup Locked[k]
                /\ tab[t].pc[k] \in Locked[k] <=> \E i \in DOMAIN lock : lock[i] = <<t, k>>
                /\ Cardinality({i \in DOMAIN lock : lock[i] = <<t, k>>}) <= 1

-----------------------------------------------------------------------------
(* The handle.                                                             *)

\* #blockAndClear: the tasks under way belong to an older identity.  With
\* persist, the saved copy is cleared too, in its own time.
Blocked(r, persist) ==
    [r EXCEPT !.blocked = TRUE, !.auth = FALSE, !.timer = FALSE, !.view = "locked",
              !.clearing = @ \/ persist, !.write = "none",
              !.stale = {k \in {"check", "user"} : r.pc[k] # "idle"}]

\* #identityStillCurrent answers true.
Current(r) ==
    /\ ~r.blocked
    /\ control.mark = "none"
    /\ r.gen \in {NoGeneration, control.gen}

\* The handle after #identityStillCurrent.
Identified(r) ==
    CASE Current(r) -> [r EXCEPT !.gen = control.gen]
      [] r.blocked  -> r
      [] OTHER      -> Blocked(r, FALSE)

\* The epoch of the task is over, or a sign-out has begun.
Overtaken(r, k) == k \in r.stale \/ r.blocked

\* Variant: a failed access check is not tried again.
LoadGivenUp(r) == [r EXCEPT !.auth = FALSE]

\* reportLoadFailure and #scheduleRevalidation
LoadFailed(r) == [r EXCEPT !.auth = FALSE, !.timer = ~r.blocked]

\* #revalidateAndRefresh up to its wait for the lock.  It stops the queue, but a
\* write the queue is about to read from storage may still go out.
Checking(r, again) ==
    [r EXCEPT !.timer = FALSE, !.auth = FALSE, !.pc.check = "lock", !.again = again,
              !.write = IF r.auth THEN "may" ELSE "none"]

\* The end of a task, ok or not.  A check that the timer started is scheduled
\* again; a sign-in that was overtaken clears the page.
Ended(r, k, ok) ==
    LET done == [r EXCEPT !.pc[k] = "idle", !.stale = @ \ {k}, !.again = FALSE,
                          !.write = IF @ = "out" THEN "out" ELSE "none",
                          !.before = IF k = "user" THEN NoGeneration ELSE @,
                          !.token = IF k = "user" THEN NoToken ELSE @] IN
    CASE k = "check" /\ ~ok /\ r.again /\ ~r.blocked -> [done EXCEPT !.timer = TRUE]
      [] k = "user" /\ ~ok /\ Overtaken(r, k)        -> Blocked(done, FALSE)
      [] OTHER                                       -> done

-----------------------------------------------------------------------------
(* The lock and the channels.                                              *)

\* withRoomSessionLock: task k of t is at step p and holds the lock.
Holds(t, k, p) == lock # <<>> /\ Head(lock) = <<t, k>> /\ tab[t].pc[k] = p

Go(t, k, r, p) ==
    /\ tab' = [tab EXCEPT ![t] = [r EXCEPT !.pc[k] = p]]
    /\ UNCHANGED lock

Leave(t, k, r, ok) ==
    /\ tab' = [tab EXCEPT ![t] = Ended(r, k, ok)]
    /\ lock' = Tail(lock)

\* Variant: the hint goes to listeners of the same page only.
PublishNowhere(gen) == UNCHANGED hints

\* publishClear, to every page with the room open, the own one included.
Publish(gen) == hints' = [t \in Tabs |-> IF tab[t].open THEN hints[t] \cup {gen} ELSE hints[t]]

\* Variant: the marker is stored in the generation of the signed-in room.
MarkKeepsGeneration ==
    /\ control' = [control EXCEPT !.mark = "pending"]
    /\ saved' = FALSE
    /\ kept' = NoToken
    /\ Publish(control.gen + 1)

\* invalidate with a marker, of localSignOut
MarkSignedOut ==
    /\ control' = [gen |-> control.gen + 1, mark |-> "pending"]
    /\ saved' = FALSE
    /\ kept' = NoToken
    /\ Publish(control.gen + 1)

\* The network answers nothing, at most as often as the bound allows.
Fault == left.faults > 0 /\ left' = [left EXCEPT !.faults = @ - 1]

\* A read that began before another in the same tab is answered before it.
InOrder(t) == \A k \in Kinds : tab[t].pc[k] # "grant"

-----------------------------------------------------------------------------
(* The access check, alone or at the end of a sign-in (k).                 *)

\* #validateAndRefresh begins.
CheckEnter(t) ==
    /\ Holds(t, "check", "lock")
    /\ LET r == tab[t] IN
       IF Overtaken(r, "check") THEN Leave(t, "check", r, FALSE)
       ELSE IF Current(r) THEN Go(t, "check", Identified(r), "who")
       ELSE Leave(t, "check", Identified(r), FALSE)
    /\ UNCHANGED <<shared, hints, news, left>>

\* whoAmI is answered.  A 401 also drops the cookie, and counts although the
\* check was overtaken.
WhoAmI(t, k) ==
    /\ Holds(t, k, "who")
    /\ \/ /\ cookie \in valid
          /\ IF Overtaken(tab[t], k) THEN Leave(t, k, tab[t], FALSE) ELSE Go(t, k, tab[t], "feed")
          /\ UNCHANGED <<cookie, left>>
       \/ /\ cookie \notin valid
          /\ cookie' = NoToken
          /\ Leave(t, k, Blocked(tab[t], TRUE), FALSE)
          /\ UNCHANGED left
       \/ /\ Fault
          /\ Leave(t, k, LoadFailed(tab[t]), FALSE)
          /\ UNCHANGED cookie
    /\ UNCHANGED <<control, saved, valid, kept, hints, news>>

\* The changes feed is answered (RoomStore #load).  It is dropped if a write of
\* the page went out after it was asked for.  A page whose sign-out has begun is
\* cleared, except while the marker is being stored.
Feed(t, k) ==
    /\ Holds(t, k, "feed")
    /\ LET r == tab[t] IN
       \/ /\ k \in r.stale
          /\ Leave(t, k, r, FALSE)
          /\ UNCHANGED left
       \/ /\ k \notin r.stale /\ cookie \in valid /\ r.write = "may"
          /\ Leave(t, k, [r EXCEPT !.write = "out"], FALSE)
          /\ UNCHANGED left
       \/ /\ k \notin r.stale /\ cookie \in valid
          /\ CASE Current(r) -> Go(t, k, [Identified(r) EXCEPT !.view = "shown"], "save")
               [] r.blocked /\ r.pc.user # "mark" ->
                     Leave(t, k, [r EXCEPT !.view = "locked", !.auth = FALSE], FALSE)
               [] OTHER -> Leave(t, k, Identified(r), FALSE)
          /\ UNCHANGED left
       \/ /\ k \notin r.stale /\ cookie \notin valid
          /\ Leave(t, k, Blocked(r, TRUE), FALSE)
          /\ UNCHANGED left
       \/ /\ k \notin r.stale /\ Fault
          /\ Leave(t, k, LoadFailed(r), FALSE)
    /\ UNCHANGED <<shared, hints, news>>

\* Variant: the control record is not looked at again before the copy is stored.
SaveUnchecked(t, k) ==
    /\ Holds(t, k, "save")
    /\ saved' = TRUE
    /\ Go(t, k, tab[t], "grant")
    /\ UNCHANGED <<control, cookie, valid, kept, hints, news, left>>

\* #saveSnapshot, and the last look at the control record.
Save(t, k) ==
    /\ Holds(t, k, "save")
    /\ LET r == tab[t] IN
       IF k \notin r.stale /\ Current(r)
       THEN saved' = TRUE /\ Go(t, k, Identified(r), "grant")
       ELSE UNCHANGED saved /\ Leave(t, k, Identified(r), FALSE)
    /\ UNCHANGED <<control, cookie, valid, kept, hints, news, left>>

\* Writes are allowed when that look is answered, with no look at the page.
Grant(t, k) ==
    /\ Holds(t, k, "grant")
    /\ Go(t, k, [tab[t] EXCEPT !.auth = TRUE], "open")
    /\ UNCHANGED <<shared, hints, news, left>>

\* The queue is read again, the queue and the stream run; a sign-in is announced.
Done(t, k) ==
    /\ Holds(t, k, "open")
    /\ Leave(t, k, tab[t], TRUE)
    /\ news' = [u \in Tabs |-> news[u] \/ (k = "user" /\ u # t /\ tab[u].open)]
    /\ UNCHANGED <<shared, hints, left>>

\* The stream was closed by the server: #checkSession.  A pending sign-out is
\* seen without the lock.
SessionCheck(t) ==
    /\ tab[t].open /\ ~tab[t].blocked /\ tab[t].view # "none"
    /\ tab[t].pc.check = "idle" /\ InOrder(t)
    /\ IF control.mark = "pending"
       THEN tab' = [tab EXCEPT ![t] = Blocked(@, TRUE)] /\ UNCHANGED lock
       ELSE /\ tab' = [tab EXCEPT ![t].pc.check = "session"]
            /\ lock' = Append(lock, <<t, "check">>)
    /\ UNCHANGED <<shared, hints, news, left>>

\* Its answer; authRequired unless the page was cleared meanwhile.
SessionAnswer(t) ==
    /\ Holds(t, "check", "session")
    /\ LET r == tab[t] IN
       \/ /\ ~Current(r)
          /\ Leave(t, "check", Identified(r), FALSE)
          /\ UNCHANGED <<cookie, left>>
       \/ /\ Current(r) /\ cookie \notin valid
          /\ cookie' = NoToken
          /\ Leave(t, "check", Blocked(Identified(r), TRUE), FALSE)
          /\ UNCHANGED left
       \/ /\ Current(r) /\ cookie \in valid
          /\ Leave(t, "check", Identified(r), FALSE)
          /\ UNCHANGED <<cookie, left>>
       \/ /\ Current(r) /\ Fault
          /\ Leave(t, "check", Identified(r), FALSE)
          /\ UNCHANGED cookie
    /\ UNCHANGED <<control, saved, valid, kept, hints, news>>

-----------------------------------------------------------------------------
(* Signing in (signInRoom, RoomHandle.login).                              *)

\* sendServerLogout: the server ends the session of the cookie it is sent.
EndSession == valid' = valid \ {cookie} /\ cookie' = NoToken
Acknowledged == [control EXCEPT !.mark = IF @ = "pending" THEN "done" ELSE @]

\* The request was lost, or only its answer was.
EndSessionLost ==
    /\ Fault
    /\ valid' \in {valid, valid \ {cookie}}
    /\ UNCHANGED <<control, cookie>>

\* The password is entered.
SignIn(t) ==
    /\ tab[t].open /\ tab[t].view = "locked" /\ tab[t].pc.user = "idle"
    /\ left.signIns > 0
    /\ left' = [left EXCEPT !.signIns = @ - 1]
    /\ tab' = [tab EXCEPT ![t] = [@ EXCEPT !.timer = FALSE, !.auth = FALSE, !.pc.user = "in",
                                           !.token = MaxSignIns - left.signIns + 2]]
    /\ lock' = Append(lock, <<t, "user">>)
    /\ UNCHANGED <<shared, hints, news>>

\* Under the lock: a sign-out the server has not had goes first.
SignInEnter(t) ==
    /\ Holds(t, "user", "in")
    /\ Go(t, "user", tab[t], IF control.mark = "pending" THEN "revoke" ELSE "clear")
    /\ UNCHANGED <<shared, hints, news, left>>

SignInRevoke(t) ==
    /\ Holds(t, "user", "revoke")
    /\ \/ /\ EndSession
          /\ control' = Acknowledged
          /\ Go(t, "user", tab[t], "clear")
          /\ UNCHANGED left
       \/ /\ EndSessionLost
          /\ Leave(t, "user", tab[t], TRUE)
    /\ UNCHANGED <<saved, kept, hints, news>>

\* clearSignOutAfterSignIn, unless the page was cleared meanwhile.
SignInClear(t) ==
    /\ Holds(t, "user", "clear")
    /\ IF "user" \in tab[t].stale
       THEN Leave(t, "user", tab[t], FALSE) /\ UNCHANGED control
       ELSE /\ control' = [gen |-> control.gen + 1, mark |-> "none"]
            /\ Go(t, "user", [tab[t] EXCEPT !.before = control.gen + 1], "post")
    /\ UNCHANGED <<saved, cookie, valid, kept, hints, news, left>>

\* After the request: nobody signed out and the page was not cleared.
GoesThrough(r) ==
    /\ "user" \notin r.stale
    /\ control.mark = "none"
    /\ control.gen = r.before

\* The password is answered.  A sign-in that does not go through leaves a new
\* sign-out behind (restoreAndCancel).
SignInPost(t) ==
    /\ Holds(t, "user", "post")
    /\ LET r == tab[t] IN
       \/ /\ cookie' = r.token
          /\ valid' = valid \cup {r.token}
          /\ IF GoesThrough(r)
             THEN /\ kept' = r.token
                  /\ Go(t, "user", [r EXCEPT !.gen = control.gen, !.blocked = FALSE], "who")
                  /\ UNCHANGED <<control, saved, hints>>
             ELSE /\ MarkSignedOut
                  /\ Leave(t, "user", Blocked(r, FALSE), FALSE)
          /\ UNCHANGED left
       \/ /\ Fault
          /\ Leave(t, "user", Blocked(r, TRUE), FALSE)  \* a wrong password
          /\ UNCHANGED <<shared, hints>>
       \/ /\ Fault
          /\ Leave(t, "user", r, TRUE)                  \* no answer
          /\ UNCHANGED <<shared, hints>>
    /\ UNCHANGED news

\* Another tab signed in (#acceptExternalSignIn).
HearSignIn(t) ==
    /\ news[t]
    /\ tab[t].pc.check = "idle" /\ InOrder(t)
    /\ news' = [news EXCEPT ![t] = FALSE]
    /\ IF tab[t].blocked /\ control.mark = "none"
       THEN /\ tab' = [tab EXCEPT ![t] =
                          Checking([@ EXCEPT !.blocked = FALSE, !.gen = control.gen], FALSE)]
            /\ lock' = Append(lock, <<t, "check">>)
       ELSE UNCHANGED <<tab, lock>>
    /\ UNCHANGED <<shared, hints, left>>

-----------------------------------------------------------------------------
(* Signing out.                                                            *)

\* logout: writes stop at once; ops that wait are held first.
SignOut(t, opsWait) ==
    /\ tab[t].open /\ tab[t].view \in {"shown", "saved"} /\ tab[t].pc.user = "idle"
    /\ left.signOuts > 0
    /\ left' = [left EXCEPT !.signOuts = @ - 1]
    /\ tab' = [tab EXCEPT ![t] = [@ EXCEPT !.timer = FALSE, !.blocked = TRUE, !.auth = FALSE,
                                           !.pc.user = IF opsWait THEN "hold" ELSE "mark"]]
    /\ UNCHANGED <<shared, lock, hints, news>>

SignOutHeld(t) ==
    /\ tab[t].pc.user = "hold"
    /\ tab' = [tab EXCEPT ![t].pc.user = "mark"]
    /\ UNCHANGED <<shared, lock, hints, news, left>>

\* The marker is stored and the page cleared.
SignOutMark(t) ==
    /\ tab[t].pc.user = "mark" /\ InOrder(t)
    /\ MarkSignedOut
    /\ tab' = [tab EXCEPT ![t] = [Blocked(@, FALSE) EXCEPT !.gen = NoGeneration, !.pc.user = "out"]]
    /\ lock' = Append(lock, <<t, "user">>)
    /\ UNCHANGED <<cookie, valid, news, left>>

\* Variant: what is pending is not looked at again under the lock.
ServerSignOutAlways(t, k, p) ==
    /\ Holds(t, k, p)
    /\ Leave(t, k, tab[t], TRUE)
    /\ EndSession
    /\ control' = Acknowledged
    /\ UNCHANGED <<saved, kept, hints, news, left>>

\* finishServerSignOut, or retryPendingServerLogout, under the lock.
ServerSignOut(t, k, p) ==
    /\ Holds(t, k, p)
    /\ Leave(t, k, tab[t], TRUE)
    /\ \/ /\ control.mark # "pending"
          /\ UNCHANGED <<control, cookie, valid, left>>
       \/ /\ control.mark = "pending"
          /\ EndSession
          /\ control' = Acknowledged
          /\ UNCHANGED left
       \/ /\ control.mark = "pending"
          /\ EndSessionLost
    /\ UNCHANGED <<saved, kept, hints, news>>

\* Asks for a sign-out the server has not had, once per tab.
Retrying(r) == IF control.mark = "pending" /\ r.pc.retry = "idle"
               THEN [r EXCEPT !.pc.retry = "late"] ELSE r
RetryLock(t, r) == lock' = IF Retrying(r) = r THEN lock ELSE Append(lock, <<t, "retry">>)

\* A clear hint arrives (#checkClearHint): the control record decides.
Hint(t) ==
    /\ InOrder(t)
    /\ \E gen \in hints[t] :
          LET r == tab[t]
              ignored == control.mark = "none" /\ (control.gen # gen \/ r.gen = gen)
              next == Blocked(r, FALSE) IN
          /\ hints' = [hints EXCEPT ![t] = @ \ {gen}]
          /\ IF ignored THEN UNCHANGED <<tab, lock>>
             ELSE IF r.pc.user \in {"hold", "mark", "out"}
             THEN tab' = [tab EXCEPT ![t] = next] /\ UNCHANGED lock
             ELSE tab' = [tab EXCEPT ![t] = Retrying(next)] /\ RetryLock(t, next)
    /\ UNCHANGED <<shared, news, left>>

\* The clear that #blockAndClear began is stored; the marker stays.
ClearLands(t) ==
    /\ tab[t].clearing
    /\ control' = [control EXCEPT !.gen = @ + 1]
    /\ saved' = FALSE
    /\ tab' = [tab EXCEPT ![t].clearing = FALSE]
    /\ Publish(control.gen + 1)
    /\ UNCHANGED <<cookie, valid, kept, lock, news, left>>

-----------------------------------------------------------------------------
(* Pages, timers and the server.                                           *)

\* A page opens the room (#initialize): the saved copy shows until the check.
Open(t) ==
    /\ ~tab[t].open
    /\ left.opens > 0
    /\ left' = [left EXCEPT !.opens = @ - 1]
    /\ LET r == [Closed EXCEPT !.open = TRUE]
           out == [r EXCEPT !.blocked = TRUE, !.view = "locked"]
           in == [r EXCEPT !.gen = control.gen, !.view = IF saved THEN "saved" ELSE "none"] IN
       IF control.mark = "none"
       THEN /\ tab' = [tab EXCEPT ![t] = Checking(in, FALSE)]
            /\ lock' = Append(lock, <<t, "check">>)
       ELSE tab' = [tab EXCEPT ![t] = Retrying(out)] /\ RetryLock(t, out)
    /\ UNCHANGED <<shared, hints, news>>

\* The page is closed, at any step of its tasks.
Close(t) ==
    /\ tab[t].open
    /\ tab' = [tab EXCEPT ![t] = Closed]
    /\ lock' = Picked(lock, {i \in DOMAIN lock : lock[i][1] # t})
    /\ hints' = [hints EXCEPT ![t] = {}]
    /\ news' = [news EXCEPT ![t] = FALSE]
    /\ UNCHANGED <<shared, left>>

\* The timer, or an event of the stream or the page, starts an access check.
Recheck(t) ==
    /\ tab[t].open /\ ~tab[t].blocked /\ tab[t].pc.check = "idle" /\ tab[t].pc.user = "idle"
    /\ tab' = [tab EXCEPT ![t] = Checking(@, tab[t].timer)]
    /\ lock' = Append(lock, <<t, "check">>)
    /\ UNCHANGED <<shared, hints, news, left>>

TimerFires(t) == tab[t].timer /\ Recheck(t)

\* The password is changed elsewhere: no token of the room is valid any more.
Revoke ==
    /\ valid # {}
    /\ Fault
    /\ valid' = {}
    /\ kept' = NoToken
    /\ UNCHANGED <<control, saved, cookie, lock, tab, hints, news>>

-----------------------------------------------------------------------------
\* Signed in with a saved copy, or never signed in.
Init ==
    /\ control = [gen |-> 0, mark |-> "none"]
    /\ cookie \in {NoToken, 1}
    /\ saved = (cookie = 1)
    /\ valid = {1} \cap {cookie}
    /\ kept = cookie
    /\ lock = <<>>
    /\ tab = [t \in Tabs |-> Closed]
    /\ hints = [t \in Tabs |-> {}]
    /\ news = [t \in Tabs |-> FALSE]
    /\ left = [signIns |-> MaxSignIns, signOuts |-> MaxSignOuts, opens |-> MaxOpens,
               faults |-> MaxFaults]

\* What goes on by itself once it was started.
Task(t) ==
    \/ CheckEnter(t) \/ SessionAnswer(t)
    \/ \E k \in {"check", "user"} : WhoAmI(t, k) \/ Feed(t, k) \/ Save(t, k) \/ Grant(t, k)
                                       \/ Done(t, k)
    \/ SignInEnter(t) \/ SignInRevoke(t) \/ SignInClear(t) \/ SignInPost(t)
    \/ SignOutHeld(t) \/ SignOutMark(t)
    \/ ServerSignOut(t, "user", "out") \/ ServerSignOut(t, "retry", "late")

Next ==
    \/ \E t \in Tabs :
          \/ Task(t) \/ HearSignIn(t) \/ Hint(t) \/ ClearLands(t) \/ TimerFires(t)
          \/ Open(t) \/ Close(t) \/ Recheck(t) \/ SessionCheck(t) \/ SignIn(t)
          \/ \E opsWait \in BOOLEAN : SignOut(t, opsWait)
    \/ Revoke

Spec == Init /\ [][Next]_vars

-----------------------------------------------------------------------------
\* A sign-in that went through is not undone: no late sign-out request ends its
\* session, and no other request takes its cookie.
SignInIsKept == kept # NoToken => kept \in valid /\ kept = cookie

\* While the browser is signed out of the room it keeps no copy of it, and a
\* sign-out that is marked as done at the server left no working cookie.
SignedOutForGood ==
    /\ control.mark # "none" => ~saved
    /\ control.mark = "done" => cookie \notin valid

\* A sign-out that a tab still shows the room after is on its way to it.
SignOutReachesTabs ==
    \A t \in OpenTabs : control.mark # "none" /\ tab[t].view # "locked" => hints[t] # {}

\* A page that is neither signed out nor allowed to write is about to be checked:
\* no failed, lost or overtaken check leaves it waiting for ever.  The one check
\* that is not tried again is one whose feed was dropped for a write of the page.
NeverStranded ==
    \A t \in OpenTabs :
        \/ tab[t].blocked \/ tab[t].view = "locked" \/ tab[t].auth \/ tab[t].timer
        \/ tab[t].pc.check \notin {"idle", "session"}
        \/ tab[t].pc.user # "idle"
        \/ tab[t].write = "out"
=============================================================================
