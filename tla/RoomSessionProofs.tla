-------------------------- MODULE RoomSessionProofs --------------------------
(***************************************************************************)
(* Proofs about RoomSession, for any number of tabs, sign-ins, sign-outs,  *)
(* openings and faults: a browser that is signed out keeps no copy and no  *)
(* working cookie, every tab that still shows the room has the hint that   *)
(* clears it on its way, a sign-in that went through is not undone, and no *)
(* page is left without the right to write and without a check to come.    *)
(*                                                                         *)
(* The first two and the last need nothing of the lock that orders the     *)
(* requests which read or change the cookie: SessionInv and TendedInv say  *)
(* nothing of it.  The third rests on the lock, and has an invariant of    *)
(* its own that says what the tab that holds it has read.  LineInv says    *)
(* which tasks stand in its line.                                          *)
(***************************************************************************)
EXTENDS RoomSession, SequenceFilterProofs, TLAPS

Steps == {"idle", "hold", "mark", "lock", "in", "revoke", "clear", "post", "who", "feed", "save",
          "grant", "open", "out", "session", "late"}

TabRecord ==
    [open : BOOLEAN, blocked : BOOLEAN, gen : Int, view : {"none", "saved", "shown", "locked"},
     auth : BOOLEAN, timer : BOOLEAN, clearing : BOOLEAN, pc : [Kinds -> Steps],
     stale : SUBSET Kinds, again : BOOLEAN, before : Int, token : Nat,
     write : {"none", "may", "out"}]

\* A sign-in that has not ended has a token to ask for.
HasToken(r) == r.pc["user"] \in {"in", "revoke", "clear", "post"} => r.token # NoToken

Shape ==
    /\ control \in [gen : Nat, mark : {"none", "pending", "done"}]
    /\ tab \in [Tabs -> TabRecord]
    /\ hints \in [Tabs -> SUBSET Nat]
    /\ left \in [signIns : Int, signOuts : Int, opens : Int, faults : Int]
    /\ left.signIns <= MaxSignIns
    /\ NoToken \notin valid
    /\ \A t \in Tabs : HasToken(tab[t])

SessionInv == Shape /\ SignedOutForGood /\ SignOutReachesTabs

-----------------------------------------------------------------------------
(* What the operators on a handle return.                                  *)

\* A handle after a step that shows no more than before.
ShowsNoMore(r, s) == s \in TabRecord /\ s.open = r.open /\ s.view \in {r.view, "locked"}

LEMMA BlockedIs ==
    ASSUME NEW r \in TabRecord, NEW persist \in BOOLEAN
    PROVE  /\ Blocked(r, persist) \in TabRecord
           /\ Blocked(r, persist).view = "locked"
           /\ Blocked(r, persist).open = r.open
           /\ Blocked(r, persist).pc = r.pc
           /\ Blocked(r, persist).token = r.token
<1>1. {k \in {"check", "user"} : r.pc[k] # "idle"} \in SUBSET Kinds
  BY DEF Kinds
<1> QED BY <1>1 DEF Blocked, TabRecord

LEMMA IdentifiedIs ==
    ASSUME NEW r \in TabRecord, Shape
    PROVE  /\ ShowsNoMore(r, Identified(r))
           /\ Identified(r).pc = r.pc
           /\ Identified(r).token = r.token
<1>1. CASE Current(r)
  <2>1. Identified(r) = [r EXCEPT !.gen = control.gen]
    BY <1>1 DEF Identified, Current
  <2>2. control.gen \in Int
    BY DEF Shape
  <2>3. Identified(r) \in TabRecord
    BY <2>1, <2>2 DEF TabRecord
  <2>4. /\ Identified(r).open = r.open /\ Identified(r).view = r.view
        /\ Identified(r).pc = r.pc /\ Identified(r).token = r.token
    BY <2>1 DEF TabRecord
  <2> QED BY <2>3, <2>4 DEF ShowsNoMore
<1>2. CASE ~Current(r) /\ r.blocked
  <2>1. Identified(r) = r
    BY <1>2 DEF Identified
  <2> QED BY <2>1 DEF ShowsNoMore
<1>3. CASE ~Current(r) /\ ~r.blocked
  <2>1. Identified(r) = Blocked(r, FALSE)
    BY <1>3 DEF Identified
  <2> QED BY <2>1, BlockedIs DEF ShowsNoMore
<1> QED BY <1>1, <1>2, <1>3

LEMMA LoadFailedIs ==
    ASSUME NEW r \in TabRecord
    PROVE  /\ ShowsNoMore(r, LoadFailed(r))
           /\ LoadFailed(r).pc = r.pc
           /\ LoadFailed(r).token = r.token
BY DEF LoadFailed, ShowsNoMore, TabRecord

LEMMA CheckingIs ==
    ASSUME NEW r \in TabRecord, NEW again \in BOOLEAN
    PROVE  /\ ShowsNoMore(r, Checking(r, again))
           /\ Checking(r, again).pc["user"] = r.pc["user"]
           /\ Checking(r, again).token = r.token
<1> DEFINE pc == [r.pc EXCEPT !["check"] = "lock"]
<1>1. pc \in [Kinds -> Steps] /\ pc["user"] = r.pc["user"]
  BY DEF TabRecord, Kinds, Steps
<1>2. Checking(r, again) = [r EXCEPT !.timer = FALSE, !.auth = FALSE, !.pc = pc, !.again = again,
                                     !.write = IF r.auth THEN "may" ELSE "none"]
  BY DEF Checking
<1> HIDE DEF pc
<1> QED BY <1>1, <1>2 DEF ShowsNoMore, TabRecord

\* The end of a task ends no other task.
LEMMA EndedIs ==
    ASSUME NEW r \in TabRecord, NEW k \in Kinds, NEW ok \in BOOLEAN, HasToken(r)
    PROVE  /\ ShowsNoMore(r, Ended(r, k, ok))
           /\ HasToken(Ended(r, k, ok))
<1> DEFINE done == [r EXCEPT !.pc[k] = "idle", !.stale = @ \ {k}, !.again = FALSE,
                             !.write = IF @ = "out" THEN "out" ELSE "none",
                             !.before = IF k = "user" THEN NoGeneration ELSE @,
                             !.token = IF k = "user" THEN NoToken ELSE @]
<1>1. done \in TabRecord /\ done.open = r.open /\ done.view = r.view
  <2> DEFINE pc == [r.pc EXCEPT ![k] = "idle"]
  <2>1. pc \in [Kinds -> Steps]
    BY DEF TabRecord, Steps
  <2> DEFINE stale  == r.stale \ {k}
             write  == IF r.write = "out" THEN "out" ELSE "none"
             before == IF k = "user" THEN NoGeneration ELSE r.before
             token  == IF k = "user" THEN NoToken ELSE r.token
  <2>2. done = [r EXCEPT !.pc = pc, !.stale = stale, !.again = FALSE, !.write = write,
                         !.before = before, !.token = token]
    OBVIOUS
  <2>3. /\ stale \in SUBSET Kinds /\ write \in {"none", "may", "out"}
        /\ before \in Int /\ token \in Nat
    BY DEF TabRecord, NoGeneration, NoToken
  <2> HIDE DEF pc, done, stale, write, before, token
  <2> QED BY <2>1, <2>2, <2>3 DEF TabRecord
<1>2. HasToken(done)
  BY DEF HasToken, TabRecord, Kinds
<1>3. CASE k = "check" /\ ~ok /\ r.again /\ ~r.blocked
  <2>1. Ended(r, k, ok) = [done EXCEPT !.timer = TRUE]
    BY <1>3 DEF Ended
  <2> HIDE DEF done
  <2> QED BY <1>1, <1>2, <2>1 DEF ShowsNoMore, HasToken, TabRecord
<1>4. CASE k = "user" /\ ~ok /\ Overtaken(r, k)
  <2>1. Ended(r, k, ok) = Blocked(done, FALSE)
    BY <1>4 DEF Ended
  <2> HIDE DEF done
  <2> QED BY <1>1, <1>2, <2>1, BlockedIs DEF ShowsNoMore, HasToken
<1>5. CASE /\ ~(k = "check" /\ ~ok /\ r.again /\ ~r.blocked)
           /\ ~(k = "user" /\ ~ok /\ Overtaken(r, k))
  <2>1. Ended(r, k, ok) = done
    BY <1>5 DEF Ended
  <2> HIDE DEF done
  <2> QED BY <1>1, <1>2, <2>1 DEF ShowsNoMore
<1> QED BY <1>3, <1>4, <1>5

-----------------------------------------------------------------------------
(* Steps of a tab that show no more than before.                           *)

\* No page opens, none shows more, and every sign-in keeps a token.
TabsShowNoMore ==
    /\ tab' \in [Tabs -> TabRecord]
    /\ \A u \in Tabs : /\ HasToken(tab'[u])
                       /\ tab'[u].open => tab[u].open
                       /\ tab'[u].view \in {tab[u].view, "locked"}

LEMMA TabStep ==
    ASSUME Shape, NEW t \in Tabs, NEW r, ShowsNoMore(tab[t], r), HasToken(r),
           tab' = [tab EXCEPT ![t] = r]
    PROVE  TabsShowNoMore
BY DEF TabsShowNoMore, ShowsNoMore, Shape

LEMMA LeaveStep ==
    ASSUME Shape, NEW t \in Tabs, NEW k \in Kinds, NEW ok \in BOOLEAN, NEW r,
           ShowsNoMore(tab[t], r), HasToken(r), Leave(t, k, r, ok)
    PROVE  TabsShowNoMore
<1>1. ShowsNoMore(r, Ended(r, k, ok)) /\ HasToken(Ended(r, k, ok))
  BY EndedIs DEF ShowsNoMore
<1>2. ShowsNoMore(tab[t], Ended(r, k, ok))
  BY <1>1 DEF ShowsNoMore
<1> QED BY <1>1, <1>2, TabStep DEF Leave

LEMMA GoStep ==
    ASSUME Shape, NEW t \in Tabs, NEW k \in Kinds, NEW p \in Steps, NEW r,
           ShowsNoMore(tab[t], r), HasToken(r), Go(t, k, r, p),
           k = "user" /\ p \in {"in", "revoke", "clear", "post"} => r.token # NoToken
    PROVE  TabsShowNoMore
<1> DEFINE s == [r EXCEPT !.pc[k] = p]
<1> DEFINE pc == [r.pc EXCEPT ![k] = p]
<1>1. r \in TabRecord
  BY DEF ShowsNoMore
<1>2. pc \in [Kinds -> Steps] /\ pc["user"] = IF k = "user" THEN p ELSE r.pc["user"]
  BY <1>1 DEF TabRecord, Kinds
<1>3. s = [r EXCEPT !.pc = pc]
  OBVIOUS
<1> HIDE DEF pc, s
<1>4. /\ s \in TabRecord /\ s.open = r.open /\ s.view = r.view /\ s.token = r.token /\ s.pc = pc
  BY <1>1, <1>2, <1>3 DEF TabRecord
<1>5. HasToken(s)
  BY <1>1, <1>2, <1>4 DEF HasToken
<1>6. ShowsNoMore(tab[t], s)
  BY <1>4 DEF ShowsNoMore
<1>7. tab' = [tab EXCEPT ![t] = s]
  BY DEF Go, s
<1> QED BY <1>5, <1>6, <1>7, TabStep

\* Such a step leaves no page without its hint, unless it takes hints away or
\* stores a marker.
LEMMA QuietReach ==
    ASSUME SignOutReachesTabs, Shape, TabsShowNoMore, hints' = hints,
           control'.mark # "none" => control.mark # "none"
    PROVE  SignOutReachesTabs'
BY DEF SignOutReachesTabs, OpenTabs, TabsShowNoMore, Shape

\* A stored marker sends every open page its hint.
LEMMA MarkReach ==
    ASSUME Shape, TabsShowNoMore, Publish(control.gen + 1)
    PROVE  SignOutReachesTabs' /\ hints' \in [Tabs -> SUBSET Nat]
<1>1. control.gen + 1 \in Nat
  BY DEF Shape
<1>2. \A u \in Tabs : tab[u].open => control.gen + 1 \in hints'[u]
  BY DEF Publish
<1>3. hints' \in [Tabs -> SUBSET Nat]
  BY <1>1 DEF Publish, Shape
<1>4. SignOutReachesTabs'
  BY <1>2 DEF SignOutReachesTabs, OpenTabs, TabsShowNoMore
<1> QED BY <1>3, <1>4

\* The rest of the shape, when no page, no marker and no token is added.
LEMMA QuietShape ==
    ASSUME Shape, TabsShowNoMore, hints' = hints, control' = control, valid' \subseteq valid,
           left' = left \/ Fault
    PROVE  Shape'
<1>1. left' \in [signIns : Int, signOuts : Int, opens : Int, faults : Int]
        /\ left'.signIns = left.signIns
  BY DEF Fault, Shape
<1> QED BY <1>1 DEF Shape, TabsShowNoMore, HasToken

\* The handles a step may leave a page with.
LEMMA Handles ==
    ASSUME Shape, NEW t \in Tabs, NEW persist \in BOOLEAN
    PROVE  /\ ShowsNoMore(tab[t], tab[t]) /\ HasToken(tab[t])
           /\ ShowsNoMore(tab[t], Identified(tab[t])) /\ HasToken(Identified(tab[t]))
           /\ ShowsNoMore(tab[t], Blocked(tab[t], persist)) /\ HasToken(Blocked(tab[t], persist))
           /\ ShowsNoMore(tab[t], LoadFailed(tab[t])) /\ HasToken(LoadFailed(tab[t]))
           /\ ShowsNoMore(tab[t], Blocked(Identified(tab[t]), persist))
           /\ HasToken(Blocked(Identified(tab[t]), persist))
<1>1. tab[t] \in TabRecord /\ HasToken(tab[t])
  BY DEF Shape
<1>2. ShowsNoMore(tab[t], Identified(tab[t])) /\ HasToken(Identified(tab[t]))
  BY <1>1, IdentifiedIs DEF HasToken
<1>3. ShowsNoMore(tab[t], Blocked(tab[t], persist)) /\ HasToken(Blocked(tab[t], persist))
  BY <1>1, BlockedIs DEF ShowsNoMore, HasToken
<1>4. ShowsNoMore(tab[t], LoadFailed(tab[t])) /\ HasToken(LoadFailed(tab[t]))
  BY <1>1, LoadFailedIs DEF HasToken
<1>5. /\ ShowsNoMore(tab[t], Blocked(Identified(tab[t]), persist))
      /\ HasToken(Blocked(Identified(tab[t]), persist))
  <2>1. Identified(tab[t]) \in TabRecord
    BY <1>2 DEF ShowsNoMore
  <2> QED BY <1>2, <2>1, BlockedIs DEF ShowsNoMore, HasToken
<1> QED BY <1>1, <1>2, <1>3, <1>4, <1>5 DEF ShowsNoMore

\* What stays signed out for good while no copy is saved and no token added.
LEMMA QuietSignedOut ==
    ASSUME SignedOutForGood, control' = control, saved' = saved, valid' \subseteq valid,
           cookie' = cookie \/ cookie' \notin valid'
    PROVE  SignedOutForGood'
BY DEF SignedOutForGood

-----------------------------------------------------------------------------
(* The access check.                                                       *)

LEMMA CheckEnterKeeps ==
    ASSUME SessionInv, NEW t \in Tabs, CheckEnter(t)
    PROVE  SessionInv'
<1>1. TabsShowNoMore
  <2>1. CASE Leave(t, "check", tab[t], FALSE)
    BY <2>1, Handles, LeaveStep DEF SessionInv, Kinds
  <2>2. CASE Go(t, "check", Identified(tab[t]), "who")
    BY <2>2, Handles, GoStep DEF SessionInv, Kinds, Steps
  <2>3. CASE Leave(t, "check", Identified(tab[t]), FALSE)
    BY <2>3, Handles, LeaveStep DEF SessionInv, Kinds
  <2> QED BY <2>1, <2>2, <2>3 DEF CheckEnter
<1> QED BY <1>1, QuietReach, QuietShape, QuietSignedOut DEF SessionInv, CheckEnter, shared

LEMMA WhoAmIKeeps ==
    ASSUME SessionInv, NEW t \in Tabs, NEW k \in {"check", "user"}, WhoAmI(t, k)
    PROVE  SessionInv'
<1>1. TabsShowNoMore
  <2>1. CASE Leave(t, k, tab[t], FALSE)
    BY <2>1, Handles, LeaveStep DEF SessionInv, Kinds
  <2>2. CASE Go(t, k, tab[t], "feed")
    BY <2>2, Handles, GoStep DEF SessionInv, Kinds, Steps
  <2>3. CASE Leave(t, k, Blocked(tab[t], TRUE), FALSE)
    BY <2>3, Handles, LeaveStep DEF SessionInv, Kinds
  <2>4. CASE Leave(t, k, LoadFailed(tab[t]), FALSE)
    BY <2>4, Handles, LeaveStep DEF SessionInv, Kinds
  <2> QED BY <2>1, <2>2, <2>3, <2>4 DEF WhoAmI
<1>2. UNCHANGED <<control, saved, valid, hints>> /\ (left' = left \/ Fault)
  BY DEF WhoAmI
<1>3. cookie' = cookie \/ cookie' \notin valid'
  BY <1>2 DEF WhoAmI, SessionInv, Shape
<1> QED BY <1>1, <1>2, <1>3, QuietReach, QuietShape, QuietSignedOut DEF SessionInv

LEMMA SessionAnswerKeeps ==
    ASSUME SessionInv, NEW t \in Tabs, SessionAnswer(t)
    PROVE  SessionInv'
<1>1. TabsShowNoMore
  <2>1. CASE Leave(t, "check", Identified(tab[t]), FALSE)
    BY <2>1, Handles, LeaveStep DEF SessionInv, Kinds
  <2>2. CASE Leave(t, "check", Blocked(Identified(tab[t]), TRUE), FALSE)
    BY <2>2, Handles, LeaveStep DEF SessionInv, Kinds
  <2> QED BY <2>1, <2>2 DEF SessionAnswer
<1>2. UNCHANGED <<control, saved, valid, hints>> /\ (left' = left \/ Fault)
  BY DEF SessionAnswer
<1>3. cookie' = cookie \/ cookie' \notin valid'
  BY <1>2 DEF SessionAnswer, SessionInv, Shape
<1> QED BY <1>1, <1>2, <1>3, QuietReach, QuietShape, QuietSignedOut DEF SessionInv

\* The only step that shows the room: it has just read that nobody signed out.
LEMMA FeedKeeps ==
    ASSUME SessionInv, NEW t \in Tabs, NEW k \in {"check", "user"}, Feed(t, k)
    PROVE  SessionInv'
<1>1. UNCHANGED <<shared, hints>> /\ (left' = left \/ Fault)
  BY DEF Feed
<1>2. CASE TabsShowNoMore
  BY <1>1, <1>2, QuietReach, QuietShape, QuietSignedOut DEF SessionInv, shared
<1>3. CASE /\ Current(tab[t])
           /\ Go(t, k, [Identified(tab[t]) EXCEPT !.view = "shown"], "save")
  <2> DEFINE i == Identified(tab[t])
  <2> DEFINE r == [i EXCEPT !.view = "shown"]
  <2>0. /\ i \in TabRecord /\ i.open = tab[t].open /\ i.token = tab[t].token
        /\ i.pc = tab[t].pc
    <3>1. tab[t] \in TabRecord /\ Shape
      BY DEF SessionInv, Shape
    <3> QED BY <3>1, IdentifiedIs DEF ShowsNoMore
  <2>1. /\ r \in TabRecord /\ r.open = tab[t].open /\ r.token = tab[t].token
        /\ r.pc = tab[t].pc
    <3> HIDE DEF i
    <3> QED BY <2>0 DEF TabRecord
  <2> DEFINE pc == [r.pc EXCEPT ![k] = "save"]
  <2> DEFINE s == [r EXCEPT !.pc[k] = "save"]
  <2>2. s = [r EXCEPT !.pc = pc]
    OBVIOUS
  <2>3. tab' = [tab EXCEPT ![t] = s]
    BY <1>3 DEF Go
  <2> HIDE DEF r
  <2>4. pc \in [Kinds -> Steps] /\ (pc["user"] = r.pc["user"] \/ pc["user"] = "save")
    BY <2>1 DEF TabRecord, Kinds, Steps
  <2> HIDE DEF s, pc
  <2>5. s \in TabRecord /\ HasToken(s)
    BY <2>1, <2>2, <2>4 DEF TabRecord, HasToken, SessionInv, Shape
  <2>6. tab' \in [Tabs -> TabRecord] /\ \A u \in Tabs : HasToken(tab'[u])
    BY <2>3, <2>5 DEF SessionInv, Shape
  <2>7. left' \in [signIns : Int, signOuts : Int, opens : Int, faults : Int]
          /\ left'.signIns = left.signIns
    BY <1>1 DEF Fault, SessionInv, Shape
  <2>8. Shape'
    BY <1>1, <2>6, <2>7 DEF SessionInv, Shape, HasToken, shared
  <2>9. SignOutReachesTabs'
    BY <1>1, <1>3 DEF Current, SignOutReachesTabs, OpenTabs, shared
  <2> QED BY <1>1, <2>8, <2>9, QuietSignedOut DEF SessionInv, shared
<1>4. \/ Leave(t, k, tab[t], FALSE)
      \/ Current(tab[t]) /\ Go(t, k, [Identified(tab[t]) EXCEPT !.view = "shown"], "save")
      \/ Leave(t, k, [tab[t] EXCEPT !.write = "out"], FALSE)
      \/ Leave(t, k, [tab[t] EXCEPT !.view = "locked", !.auth = FALSE], FALSE)
      \/ Leave(t, k, Identified(tab[t]), FALSE)
      \/ Leave(t, k, Blocked(tab[t], TRUE), FALSE)
      \/ Leave(t, k, LoadFailed(tab[t]), FALSE)
  BY DEF Feed
<1>5. CASE Leave(t, k, [tab[t] EXCEPT !.view = "locked", !.auth = FALSE], FALSE)
  <2>0. tab[t] \in TabRecord /\ HasToken(tab[t])
    BY DEF SessionInv, Shape
  <2>1. /\ ShowsNoMore(tab[t], [tab[t] EXCEPT !.view = "locked", !.auth = FALSE])
        /\ HasToken([tab[t] EXCEPT !.view = "locked", !.auth = FALSE])
    BY <2>0 DEF ShowsNoMore, HasToken, TabRecord
  <2>2. TabsShowNoMore
    BY <1>5, <2>1, LeaveStep DEF SessionInv, Kinds
  <2> QED BY <1>2, <2>2
<1>6. CASE Leave(t, k, [tab[t] EXCEPT !.write = "out"], FALSE)
  <2>0. tab[t] \in TabRecord /\ HasToken(tab[t])
    BY DEF SessionInv, Shape
  <2>1. /\ ShowsNoMore(tab[t], [tab[t] EXCEPT !.write = "out"])
        /\ HasToken([tab[t] EXCEPT !.write = "out"])
    BY <2>0 DEF ShowsNoMore, HasToken, TabRecord
  <2>2. TabsShowNoMore
    BY <1>6, <2>1, LeaveStep DEF SessionInv, Kinds
  <2> QED BY <1>2, <2>2
<1>7. CASE \/ Leave(t, k, tab[t], FALSE)
           \/ Leave(t, k, Identified(tab[t]), FALSE)
           \/ Leave(t, k, Blocked(tab[t], TRUE), FALSE)
           \/ Leave(t, k, LoadFailed(tab[t]), FALSE)
  <2>1. TabsShowNoMore
    BY <1>7, Handles, LeaveStep DEF SessionInv, Kinds
  <2> QED BY <1>2, <2>1
<1> QED BY <1>3, <1>4, <1>5, <1>6, <1>7

\* The copy is stored in the step that reads that nobody signed out.
LEMMA SaveKeeps ==
    ASSUME SessionInv, NEW t \in Tabs, NEW k \in {"check", "user"}, Save(t, k)
    PROVE  SessionInv'
<1>1. TabsShowNoMore
  <2>1. CASE Go(t, k, Identified(tab[t]), "grant")
    BY <2>1, Handles, GoStep DEF SessionInv, Kinds, Steps
  <2>2. CASE Leave(t, k, Identified(tab[t]), FALSE)
    BY <2>2, Handles, LeaveStep DEF SessionInv, Kinds
  <2> QED BY <2>1, <2>2 DEF Save
<1>2. UNCHANGED <<control, cookie, valid, hints, left>>
  BY DEF Save
<1>3. SignedOutForGood'
  BY <1>2 DEF Save, Current, SessionInv, SignedOutForGood
<1> QED BY <1>1, <1>2, <1>3, QuietReach, QuietShape DEF SessionInv

LEMMA GrantKeeps ==
    ASSUME SessionInv, NEW t \in Tabs, NEW k \in {"check", "user"}, Grant(t, k)
    PROVE  SessionInv'
<1> DEFINE r == [tab[t] EXCEPT !.auth = TRUE]
<1>1. ShowsNoMore(tab[t], r) /\ HasToken(r)
  <2>1. tab[t] \in TabRecord /\ HasToken(tab[t])
    BY DEF SessionInv, Shape
  <2> QED BY <2>1 DEF ShowsNoMore, HasToken, TabRecord
<1>2. Go(t, k, r, "open")
  BY DEF Grant
<1> HIDE DEF r
<1>3. TabsShowNoMore
  BY <1>1, <1>2, GoStep DEF SessionInv, Kinds, Steps
<1> QED BY <1>3, QuietReach, QuietShape, QuietSignedOut DEF SessionInv, Grant, shared

LEMMA DoneKeeps ==
    ASSUME SessionInv, NEW t \in Tabs, NEW k \in {"check", "user"}, Done(t, k)
    PROVE  SessionInv'
<1>1. TabsShowNoMore
  BY Handles, LeaveStep DEF SessionInv, Kinds, Done
<1> QED BY <1>1, QuietReach, QuietShape, QuietSignedOut DEF SessionInv, Done, shared

\* A task that starts, or a check that is scheduled, shows no more.
LEMMA StartIs ==
    ASSUME NEW r \in TabRecord, HasToken(r), NEW k \in Kinds, NEW p \in Steps,
           p \notin {"in", "revoke", "clear", "post"}
    PROVE  /\ ShowsNoMore(r, [r EXCEPT !.pc[k] = p])
           /\ HasToken([r EXCEPT !.pc[k] = p])
<1> DEFINE pc == [r.pc EXCEPT ![k] = p]
<1>1. pc \in [Kinds -> Steps] /\ pc["user"] \in {r.pc["user"], p}
  BY DEF TabRecord, Kinds
<1>2. [r EXCEPT !.pc[k] = p] = [r EXCEPT !.pc = pc]
  OBVIOUS
<1> HIDE DEF pc
<1> QED BY <1>1, <1>2 DEF ShowsNoMore, HasToken, TabRecord

LEMMA SessionCheckKeeps ==
    ASSUME SessionInv, NEW t \in Tabs, SessionCheck(t)
    PROVE  SessionInv'
<1>0. tab[t] \in TabRecord /\ HasToken(tab[t]) /\ Shape
  BY DEF SessionInv, Shape
<1>1. TabsShowNoMore
  <2>1. CASE tab' = [tab EXCEPT ![t] = Blocked(@, TRUE)]
    BY <1>0, <2>1, Handles, TabStep
  <2>2. CASE tab' = [tab EXCEPT ![t].pc.check = "session"]
    <3> DEFINE s == [tab[t] EXCEPT !.pc["check"] = "session"]
    <3>1. tab' = [tab EXCEPT ![t] = s]
      BY <2>2
    <3>2. ShowsNoMore(tab[t], s) /\ HasToken(s)
      BY <1>0, StartIs DEF Kinds, Steps
    <3> HIDE DEF s
    <3> QED BY <1>0, <3>1, <3>2, TabStep
  <2> QED BY <2>1, <2>2 DEF SessionCheck
<1> QED BY <1>1, QuietReach, QuietShape, QuietSignedOut DEF SessionInv, SessionCheck, shared

-----------------------------------------------------------------------------
(* Signing in.                                                             *)

LEMMA SignInKeeps ==
    ASSUME SessionInv, NEW t \in Tabs, SignIn(t)
    PROVE  SessionInv'
<1> DEFINE token == MaxSignIns - left.signIns + 2
<1> DEFINE pc == [tab[t].pc EXCEPT !["user"] = "in"]
<1> DEFINE r == [tab[t] EXCEPT !.timer = FALSE, !.auth = FALSE, !.pc = pc, !.token = token]
<1>0. tab[t] \in TabRecord /\ Shape
  BY DEF SessionInv, Shape
<1>1. token \in Nat /\ token # NoToken
  BY <1>0, SessionBounds DEF Shape, NoToken
<1>2. pc \in [Kinds -> Steps]
  BY <1>0 DEF TabRecord, Steps
<1>3. tab' = [tab EXCEPT ![t] = r]
  BY DEF SignIn
<1> HIDE DEF token, pc
<1>4. ShowsNoMore(tab[t], r) /\ HasToken(r)
  BY <1>0, <1>1, <1>2 DEF ShowsNoMore, HasToken, TabRecord
<1> HIDE DEF r
<1>5. TabsShowNoMore
  BY <1>0, <1>3, <1>4, TabStep
<1>6. Shape'
  <2>1. left' \in [signIns : Int, signOuts : Int, opens : Int, faults : Int]
          /\ left'.signIns <= MaxSignIns
    BY SessionBounds DEF SignIn, SessionInv, Shape
  <2>2. tab' \in [Tabs -> TabRecord] /\ \A u \in Tabs : HasToken(tab[u])'
    BY <1>5 DEF TabsShowNoMore, HasToken
  <2>3. control' = control /\ hints' = hints /\ valid' = valid
    BY DEF SignIn, shared
  <2> QED BY <1>0, <2>1, <2>2, <2>3 DEF Shape
<1> QED BY <1>5, <1>6, QuietReach, QuietSignedOut DEF SessionInv, SignIn, shared

LEMMA SignInEnterKeeps ==
    ASSUME SessionInv, NEW t \in Tabs, SignInEnter(t)
    PROVE  SessionInv'
<1>0. tab[t].token # NoToken
  BY DEF SignInEnter, Holds, SessionInv, Shape, HasToken
<1>1. TabsShowNoMore
  <2>1. CASE Go(t, "user", tab[t], "revoke")
    BY <1>0, <2>1, Handles, GoStep DEF SessionInv, Kinds, Steps
  <2>2. CASE Go(t, "user", tab[t], "clear")
    BY <1>0, <2>2, Handles, GoStep DEF SessionInv, Kinds, Steps
  <2> QED BY <2>1, <2>2 DEF SignInEnter
<1> QED BY <1>1, QuietReach, QuietShape, QuietSignedOut DEF SessionInv, SignInEnter, shared

\* A sign-out that the server answered, or that was lost.
LEMMA EndSessionKeeps ==
    ASSUME SessionInv, TabsShowNoMore, UNCHANGED <<saved, hints>>,
           \/ EndSession /\ control' = Acknowledged /\ UNCHANGED left
           \/ EndSessionLost
    PROVE  SessionInv'
<1>1. CASE EndSession /\ control' = Acknowledged /\ UNCHANGED left
  <2>1. /\ control' \in [gen : Nat, mark : {"none", "pending", "done"}]
        /\ control'.mark # "none" <=> control.mark # "none"
    BY <1>1 DEF Acknowledged, SessionInv, Shape
  <2>2. NoToken \notin valid' /\ cookie' = NoToken
    BY <1>1 DEF EndSession, SessionInv, Shape
  <2>3. Shape'
    BY <1>1, <2>1, <2>2 DEF SessionInv, Shape, TabsShowNoMore, HasToken
  <2>4. SignedOutForGood'
    BY <1>1, <2>1, <2>2 DEF SessionInv, SignedOutForGood
  <2> QED BY <2>1, <2>3, <2>4, QuietReach DEF SessionInv
<1>2. CASE EndSessionLost
  BY <1>2, QuietReach, QuietShape, QuietSignedOut DEF EndSessionLost, Fault, SessionInv
<1> QED BY <1>1, <1>2

LEMMA SignInRevokeKeeps ==
    ASSUME SessionInv, NEW t \in Tabs, SignInRevoke(t)
    PROVE  SessionInv'
<1>0. tab[t].token # NoToken
  BY DEF SignInRevoke, Holds, SessionInv, Shape, HasToken
<1>1. TabsShowNoMore
  <2>1. CASE Go(t, "user", tab[t], "clear")
    BY <1>0, <2>1, Handles, GoStep DEF SessionInv, Kinds, Steps
  <2>2. CASE Leave(t, "user", tab[t], TRUE)
    BY <2>2, Handles, LeaveStep DEF SessionInv, Kinds
  <2> QED BY <2>1, <2>2 DEF SignInRevoke
<1> QED BY <1>1, EndSessionKeeps DEF SignInRevoke

\* clearSignOutAfterSignIn: nothing is marked any more.
LEMMA SignInClearKeeps ==
    ASSUME SessionInv, NEW t \in Tabs, SignInClear(t)
    PROVE  SessionInv'
<1>0. /\ tab[t] \in TabRecord /\ HasToken(tab[t]) /\ Shape
      /\ tab[t].token # NoToken
  BY DEF SignInClear, Holds, SessionInv, Shape, HasToken
<1>1. CASE Leave(t, "user", tab[t], FALSE) /\ UNCHANGED control
  <2>1. TabsShowNoMore
    BY <1>1, Handles, LeaveStep DEF SessionInv, Kinds
  <2> QED BY <1>1, <2>1, QuietReach, QuietShape, QuietSignedOut DEF SessionInv, SignInClear
<1>2. CASE /\ control' = [gen |-> control.gen + 1, mark |-> "none"]
           /\ Go(t, "user", [tab[t] EXCEPT !.before = control.gen + 1], "post")
  <2> DEFINE r == [tab[t] EXCEPT !.before = control.gen + 1]
  <2>1. control.gen + 1 \in Nat
    BY <1>0 DEF Shape
  <2>2. ShowsNoMore(tab[t], r) /\ HasToken(r) /\ r.token # NoToken
    BY <1>0, <2>1 DEF ShowsNoMore, HasToken, TabRecord
  <2>3. Go(t, "user", r, "post")
    BY <1>2
  <2> HIDE DEF r
  <2>4. TabsShowNoMore
    BY <1>0, <2>2, <2>3, GoStep DEF Kinds, Steps
  <2>5. control' \in [gen : Nat, mark : {"none", "pending", "done"}] /\ control'.mark = "none"
    BY <1>2, <2>1
  <2>6. Shape'
    BY <1>0, <2>4, <2>5 DEF SignInClear, Shape, TabsShowNoMore, HasToken
  <2>7. SignedOutForGood'
    BY <2>5 DEF SignedOutForGood
  <2> QED BY <2>4, <2>5, <2>6, <2>7, QuietReach DEF SessionInv, SignInClear
<1> QED BY <1>1, <1>2 DEF SignInClear

\* A marker is stored: the copy goes, the mark is not "done", every open page is
\* sent its hint.
LEMMA MarkKeeps ==
    ASSUME SessionInv, TabsShowNoMore, MarkSignedOut, NoToken \notin valid',
           left' = left \/ left' \in [signIns : Int, signOuts : Int, opens : Int, faults : Int],
           left'.signIns = left.signIns
    PROVE  SessionInv'
<1>1. control.gen + 1 \in Nat
  BY DEF SessionInv, Shape
<1>2. control' \in [gen : Nat, mark : {"none", "pending", "done"}] /\ control'.mark = "pending"
  BY <1>1 DEF MarkSignedOut
<1>3. SignOutReachesTabs' /\ hints' \in [Tabs -> SUBSET Nat]
  BY MarkReach DEF MarkSignedOut, SessionInv
<1>4. SignedOutForGood'
  BY <1>2 DEF MarkSignedOut, SignedOutForGood
<1>5. Shape'
  BY <1>2, <1>3 DEF SessionInv, Shape, TabsShowNoMore, HasToken
<1> QED BY <1>3, <1>4, <1>5 DEF SessionInv

LEMMA SignInPostKeeps ==
    ASSUME SessionInv, NEW t \in Tabs, SignInPost(t)
    PROVE  SessionInv'
<1>0. /\ tab[t] \in TabRecord /\ HasToken(tab[t]) /\ Shape
      /\ tab[t].token # NoToken
  BY DEF SignInPost, Holds, SessionInv, Shape, HasToken
<1>1. CASE /\ valid' = valid \cup {tab[t].token}
           /\ GoesThrough(tab[t])
           /\ Go(t, "user", [tab[t] EXCEPT !.gen = control.gen, !.blocked = FALSE], "who")
           /\ UNCHANGED <<control, saved, hints, left>>
  <2> DEFINE r == [tab[t] EXCEPT !.gen = control.gen, !.blocked = FALSE]
  <2>1. ShowsNoMore(tab[t], r) /\ HasToken(r)
    <3>1. control.gen \in Int
      BY <1>0 DEF Shape
    <3> QED BY <1>0, <3>1 DEF ShowsNoMore, HasToken, TabRecord
  <2>2. Go(t, "user", r, "who")
    BY <1>1
  <2> HIDE DEF r
  <2>3. TabsShowNoMore
    BY <1>0, <2>1, <2>2, GoStep DEF Kinds, Steps
  <2>4. Shape'
    BY <1>0, <1>1, <2>3 DEF Shape, TabsShowNoMore, HasToken
  <2>5. SignedOutForGood'
    BY <1>1 DEF SignedOutForGood, GoesThrough
  <2> QED BY <1>1, <2>3, <2>4, <2>5, QuietReach DEF SessionInv
<1>2. CASE /\ valid' = valid \cup {tab[t].token}
           /\ MarkSignedOut
           /\ Leave(t, "user", Blocked(tab[t], FALSE), FALSE)
           /\ UNCHANGED left
  <2>1. TabsShowNoMore
    BY <1>0, <1>2, Handles, LeaveStep DEF Kinds
  <2>2. NoToken \notin valid'
    BY <1>0, <1>2 DEF Shape
  <2> QED BY <1>2, <2>1, <2>2, MarkKeeps
<1>3. CASE /\ Fault
           /\ Leave(t, "user", Blocked(tab[t], TRUE), FALSE) \/ Leave(t, "user", tab[t], TRUE)
           /\ UNCHANGED <<shared, hints>>
  <2>1. TabsShowNoMore
    BY <1>0, <1>3, Handles, LeaveStep DEF Kinds
  <2> QED BY <1>3, <2>1, QuietReach, QuietShape, QuietSignedOut DEF SessionInv, shared
<1> QED BY <1>1, <1>2, <1>3 DEF SignInPost

LEMMA HearSignInKeeps ==
    ASSUME SessionInv, NEW t \in Tabs, HearSignIn(t)
    PROVE  SessionInv'
<1>0. tab[t] \in TabRecord /\ HasToken(tab[t]) /\ Shape
  BY DEF SessionInv, Shape
<1>1. TabsShowNoMore
  <2>1. CASE UNCHANGED tab
    BY <1>0, <2>1 DEF TabsShowNoMore, Shape
  <2>2. CASE tab' = [tab EXCEPT ![t] =
                        Checking([tab[t] EXCEPT !.blocked = FALSE, !.gen = control.gen], FALSE)]
    <3> DEFINE r == [tab[t] EXCEPT !.blocked = FALSE, !.gen = control.gen]
    <3>1. r \in TabRecord /\ r.open = tab[t].open /\ r.view = tab[t].view
            /\ r.pc = tab[t].pc /\ r.token = tab[t].token
      <4>1. control.gen \in Int
        BY <1>0 DEF Shape
      <4> QED BY <1>0, <4>1 DEF TabRecord
    <3>2. tab' = [tab EXCEPT ![t] = Checking(r, FALSE)]
      BY <2>2
    <3> HIDE DEF r
    <3>3. ShowsNoMore(tab[t], Checking(r, FALSE)) /\ HasToken(Checking(r, FALSE))
      BY <1>0, <3>1, CheckingIs DEF ShowsNoMore, HasToken
    <3> QED BY <1>0, <3>2, <3>3, TabStep
  <2> QED BY <2>1, <2>2 DEF HearSignIn
<1> QED BY <1>1, QuietReach, QuietShape, QuietSignedOut DEF SessionInv, HearSignIn, shared

-----------------------------------------------------------------------------
(* Signing out.                                                            *)

LEMMA SignOutKeeps ==
    ASSUME SessionInv, NEW t \in Tabs, NEW opsWait \in BOOLEAN, SignOut(t, opsWait)
    PROVE  SessionInv'
<1> DEFINE p == IF opsWait THEN "hold" ELSE "mark"
<1> DEFINE q == [tab[t] EXCEPT !.timer = FALSE, !.blocked = TRUE, !.auth = FALSE]
<1> DEFINE r == [q EXCEPT !.pc["user"] = p]
<1>0. tab[t] \in TabRecord /\ HasToken(tab[t]) /\ Shape
  BY DEF SessionInv, Shape
<1>1. ShowsNoMore(tab[t], q) /\ HasToken(q)
  BY <1>0 DEF ShowsNoMore, HasToken, TabRecord
<1>2. tab' = [tab EXCEPT ![t] = r]
  BY DEF SignOut
<1>3. p \in Steps /\ p \notin {"in", "revoke", "clear", "post"}
  BY DEF Steps
<1> HIDE DEF p, q
<1>4. ShowsNoMore(q, r) /\ HasToken(r)
  BY <1>1, <1>3, StartIs DEF ShowsNoMore, Kinds
<1>5. ShowsNoMore(tab[t], r)
  BY <1>1, <1>4 DEF ShowsNoMore
<1> HIDE DEF r
<1>6. TabsShowNoMore
  BY <1>0, <1>2, <1>4, <1>5, TabStep
<1>7. left' \in [signIns : Int, signOuts : Int, opens : Int, faults : Int]
        /\ left'.signIns <= MaxSignIns
  BY <1>0 DEF SignOut, Shape
<1>8. Shape'
  BY <1>6, <1>7 DEF SignOut, SessionInv, Shape, TabsShowNoMore, HasToken, shared
<1> QED BY <1>6, <1>8, QuietReach, QuietSignedOut DEF SessionInv, SignOut, shared

LEMMA SignOutHeldKeeps ==
    ASSUME SessionInv, NEW t \in Tabs, SignOutHeld(t)
    PROVE  SessionInv'
<1> DEFINE r == [tab[t] EXCEPT !.pc["user"] = "mark"]
<1>0. tab[t] \in TabRecord /\ HasToken(tab[t]) /\ Shape
  BY DEF SessionInv, Shape
<1>1. tab' = [tab EXCEPT ![t] = r]
  BY DEF SignOutHeld
<1>2. ShowsNoMore(tab[t], r) /\ HasToken(r)
  BY <1>0, StartIs DEF Kinds, Steps
<1> HIDE DEF r
<1>3. TabsShowNoMore
  BY <1>0, <1>1, <1>2, TabStep
<1> QED BY <1>3, QuietReach, QuietShape, QuietSignedOut DEF SessionInv, SignOutHeld, shared

LEMMA SignOutMarkKeeps ==
    ASSUME SessionInv, NEW t \in Tabs, SignOutMark(t)
    PROVE  SessionInv'
<1> DEFINE q == [Blocked(tab[t], FALSE) EXCEPT !.gen = NoGeneration]
<1> DEFINE r == [q EXCEPT !.pc["user"] = "out"]
<1>0. tab[t] \in TabRecord /\ HasToken(tab[t]) /\ Shape
  BY DEF SessionInv, Shape
<1>1. ShowsNoMore(tab[t], q) /\ HasToken(q)
  <2> DEFINE b == Blocked(tab[t], FALSE)
  <2>1. ShowsNoMore(tab[t], b) /\ HasToken(b)
    BY <1>0, Handles
  <2>2. q = [b EXCEPT !.gen = NoGeneration]
    OBVIOUS
  <2> HIDE DEF b, q
  <2> QED BY <2>1, <2>2 DEF ShowsNoMore, HasToken, TabRecord, NoGeneration
<1>2. tab' = [tab EXCEPT ![t] = r]
  BY DEF SignOutMark
<1> HIDE DEF q
<1>3. ShowsNoMore(q, r) /\ HasToken(r)
  BY <1>1, StartIs DEF ShowsNoMore, Kinds, Steps
<1>4. ShowsNoMore(tab[t], r)
  BY <1>1, <1>3 DEF ShowsNoMore
<1> HIDE DEF r
<1>5. TabsShowNoMore
  BY <1>0, <1>2, <1>3, <1>4, TabStep
<1> QED BY <1>0, <1>5, MarkKeeps DEF SignOutMark, Shape

LEMMA ServerSignOutKeeps ==
    ASSUME SessionInv, NEW t \in Tabs, NEW k \in Kinds, NEW p, ServerSignOut(t, k, p)
    PROVE  SessionInv'
<1>1. TabsShowNoMore
  BY Handles, LeaveStep DEF SessionInv, ServerSignOut
<1>2. CASE UNCHANGED <<control, cookie, valid, left>>
  BY <1>1, <1>2, QuietReach, QuietShape, QuietSignedOut DEF SessionInv, ServerSignOut
<1> QED BY <1>1, <1>2, EndSessionKeeps DEF ServerSignOut

\* A tab whose sign-out request is begun again, at most.
LEMMA RetryingIs ==
    ASSUME NEW r \in TabRecord, HasToken(r)
    PROVE  ShowsNoMore(r, Retrying(r)) /\ HasToken(Retrying(r))
<1>1. ShowsNoMore(r, r)
  BY DEF ShowsNoMore
<1>2. ShowsNoMore(r, [r EXCEPT !.pc["retry"] = "late"]) /\ HasToken([r EXCEPT !.pc["retry"] = "late"])
  BY StartIs DEF Kinds, Steps
<1> QED BY <1>1, <1>2 DEF Retrying

\* The hint that a tab is waiting for clears it when it comes.
LEMMA HintKeeps ==
    ASSUME SessionInv, NEW t \in Tabs, Hint(t)
    PROVE  SessionInv'
<1> DEFINE next == Blocked(tab[t], FALSE)
<1>0. tab[t] \in TabRecord /\ HasToken(tab[t]) /\ Shape
  BY DEF SessionInv, Shape
<1>1. PICK gen \in hints[t] : hints' = [hints EXCEPT ![t] = @ \ {gen}]
  BY DEF Hint
<1>2. hints' \in [Tabs -> SUBSET Nat] /\ \A u \in Tabs \ {t} : hints'[u] = hints[u]
  BY <1>0, <1>1 DEF Shape
<1>3. /\ ShowsNoMore(tab[t], next) /\ HasToken(next) /\ next.view = "locked"
      /\ next \in TabRecord
  BY <1>0, Handles, BlockedIs DEF ShowsNoMore
<1>4. \/ UNCHANGED tab /\ control.mark = "none"
      \/ tab' = [tab EXCEPT ![t] = next]
      \/ tab' = [tab EXCEPT ![t] = Retrying(next)]
  BY DEF Hint
<1>5. /\ ShowsNoMore(tab[t], Retrying(next)) /\ HasToken(Retrying(next))
      /\ Retrying(next).view = "locked"
  <2> HIDE DEF next
  <2> QED BY <1>3, RetryingIs DEF ShowsNoMore
<1> HIDE DEF next
<1>6. TabsShowNoMore
  <2>1. CASE UNCHANGED tab
    BY <1>0, <2>1 DEF TabsShowNoMore, Shape
  <2> QED BY <1>0, <1>3, <1>4, <1>5, <2>1, TabStep
<1>7. control.mark = "none" \/ tab'[t].view = "locked"
  BY <1>0, <1>3, <1>4, <1>5 DEF Shape
<1>8. UNCHANGED <<shared, news, left>>
  BY DEF Hint
<1>9. Shape'
  BY <1>0, <1>2, <1>6, <1>8 DEF Shape, TabsShowNoMore, HasToken, shared
<1>10. SignOutReachesTabs'
  BY <1>2, <1>6, <1>7, <1>8 DEF SignOutReachesTabs, OpenTabs, SessionInv, TabsShowNoMore, shared
<1> QED BY <1>8, <1>9, <1>10, QuietSignedOut DEF SessionInv, shared

\* The clear keeps the marker and drops the copy.
LEMMA ClearLandsKeeps ==
    ASSUME SessionInv, NEW t \in Tabs, ClearLands(t)
    PROVE  SessionInv'
<1> DEFINE r == [tab[t] EXCEPT !.clearing = FALSE]
<1>0. tab[t] \in TabRecord /\ HasToken(tab[t]) /\ Shape
  BY DEF SessionInv, Shape
<1>1. tab' = [tab EXCEPT ![t] = r]
  BY DEF ClearLands
<1>2. ShowsNoMore(tab[t], r) /\ HasToken(r)
  BY <1>0 DEF ShowsNoMore, HasToken, TabRecord
<1> HIDE DEF r
<1>3. TabsShowNoMore
  BY <1>0, <1>1, <1>2, TabStep
<1>4. SignOutReachesTabs' /\ hints' \in [Tabs -> SUBSET Nat]
  BY <1>0, <1>3, MarkReach DEF ClearLands
<1>5. /\ control' \in [gen : Nat, mark : {"none", "pending", "done"}]
      /\ control'.mark = control.mark
  BY <1>0 DEF ClearLands, Shape
<1>6. Shape'
  BY <1>0, <1>3, <1>4, <1>5 DEF Shape, TabsShowNoMore, HasToken, ClearLands
<1>7. SignedOutForGood'
  BY <1>5 DEF SignedOutForGood, SessionInv, ClearLands
<1> QED BY <1>4, <1>6, <1>7 DEF SessionInv

-----------------------------------------------------------------------------
(* Pages, timers and the server.                                           *)

LEMMA ClosedIs == Closed \in TabRecord /\ HasToken(Closed)
BY DEF Closed, TabRecord, HasToken, Kinds, Steps, NoGeneration, NoToken

\* A page that opens shows something only when nobody is signed out.
LEMMA OpenKeeps ==
    ASSUME SessionInv, NEW t \in Tabs, Open(t)
    PROVE  SessionInv'
<1> DEFINE r == [Closed EXCEPT !.open = TRUE]
<1> DEFINE out == [r EXCEPT !.blocked = TRUE, !.view = "locked"]
<1> DEFINE in == [r EXCEPT !.gen = control.gen, !.view = IF saved THEN "saved" ELSE "none"]
<1>0. Shape
  BY DEF SessionInv
<1>1. r \in TabRecord /\ HasToken(r)
  <2> DEFINE c == Closed
  <2>1. c \in TabRecord /\ HasToken(c)
    BY ClosedIs
  <2> HIDE DEF c
  <2>2. [c EXCEPT !.open = TRUE] \in TabRecord /\ HasToken([c EXCEPT !.open = TRUE])
    BY <2>1 DEF HasToken, TabRecord
  <2> QED BY <2>2 DEF c
<1>2. out \in TabRecord /\ HasToken(out) /\ out.view = "locked"
  <2> HIDE DEF r
  <2> QED BY <1>1 DEF HasToken, TabRecord
<1>3. in \in TabRecord /\ HasToken(in)
  <2> HIDE DEF r
  <2>1. control.gen \in Int
    BY <1>0 DEF Shape
  <2> QED BY <1>1, <2>1 DEF HasToken, TabRecord
<1>4. \/ control.mark = "none" /\ tab' = [tab EXCEPT ![t] = Checking(in, FALSE)]
      \/ tab' = [tab EXCEPT ![t] = Retrying(out)]
  BY DEF Open
<1> HIDE DEF r, out, in
<1>5. Checking(in, FALSE) \in TabRecord /\ HasToken(Checking(in, FALSE))
  BY <1>3, CheckingIs DEF ShowsNoMore, HasToken
<1>6. /\ Retrying(out) \in TabRecord /\ HasToken(Retrying(out))
      /\ Retrying(out).view = "locked"
  BY <1>2, RetryingIs DEF ShowsNoMore
<1>7. /\ tab' \in [Tabs -> TabRecord]
      /\ \A u \in Tabs : HasToken(tab'[u])
      /\ \A u \in Tabs \ {t} : tab'[u] = tab[u]
      /\ control.mark = "none" \/ tab'[t].view = "locked"
  BY <1>0, <1>4, <1>5, <1>6 DEF Shape
<1>8. left' \in [signIns : Int, signOuts : Int, opens : Int, faults : Int]
        /\ left'.signIns = left.signIns
  BY <1>0 DEF Open, Shape
<1>9. UNCHANGED <<shared, hints, news>>
  BY DEF Open
<1>10. Shape'
  BY <1>0, <1>7, <1>8, <1>9 DEF Shape, HasToken, shared
<1>11. SignOutReachesTabs'
  BY <1>7, <1>9 DEF SignOutReachesTabs, OpenTabs, SessionInv, shared
<1> QED BY <1>9, <1>10, <1>11, QuietSignedOut DEF SessionInv, shared

LEMMA CloseKeeps ==
    ASSUME SessionInv, NEW t \in Tabs, Close(t)
    PROVE  SessionInv'
<1>0. Shape
  BY DEF SessionInv
<1>1. tab' \in [Tabs -> TabRecord] /\ \A u \in Tabs : HasToken(tab'[u])
  BY <1>0, ClosedIs DEF Close, Shape
<1>2. ~tab'[t].open /\ \A u \in Tabs \ {t} : tab'[u] = tab[u] /\ hints'[u] = hints[u]
  BY <1>0 DEF Close, Shape, Closed
<1>3. UNCHANGED <<shared, left>>
  BY DEF Close
<1>4. hints' \in [Tabs -> SUBSET Nat]
  BY <1>0 DEF Close, Shape
<1>5. Shape'
  BY <1>0, <1>1, <1>3, <1>4 DEF Shape, HasToken, shared
<1>6. SignOutReachesTabs'
  BY <1>2, <1>3 DEF SignOutReachesTabs, OpenTabs, SessionInv, shared
<1> QED BY <1>3, <1>5, <1>6, QuietSignedOut DEF SessionInv, shared

LEMMA RecheckKeeps ==
    ASSUME SessionInv, NEW t \in Tabs, Recheck(t)
    PROVE  SessionInv'
<1>0. tab[t] \in TabRecord /\ HasToken(tab[t]) /\ Shape
  BY DEF SessionInv, Shape
<1>1. tab' = [tab EXCEPT ![t] = Checking(tab[t], tab[t].timer)]
  BY DEF Recheck
<1>2. tab[t].timer \in BOOLEAN
  BY <1>0 DEF TabRecord
<1>3. ShowsNoMore(tab[t], Checking(tab[t], tab[t].timer)) /\ HasToken(Checking(tab[t], tab[t].timer))
  BY <1>0, <1>2, CheckingIs DEF HasToken
<1>4. TabsShowNoMore
  BY <1>0, <1>1, <1>3, TabStep
<1> QED BY <1>4, QuietReach, QuietShape, QuietSignedOut DEF SessionInv, Recheck, shared

\* A step that leaves the tabs alone and takes tokens away at most.
LEMMA TabsStayKeeps ==
    ASSUME SessionInv, UNCHANGED <<control, saved, cookie, tab, hints>>, valid' \subseteq valid,
           left' = left \/ Fault
    PROVE  SessionInv'
<1>1. TabsShowNoMore
  BY DEF TabsShowNoMore, SessionInv, Shape
<1> QED BY <1>1, QuietReach, QuietShape, QuietSignedOut DEF SessionInv

-----------------------------------------------------------------------------
(* The specification.                                                      *)

LEMMA InitHolds ==
    ASSUME Init
    PROVE  SessionInv
<1>1. control.gen = 0 /\ control.mark = "none" /\ control \in [gen : Nat, mark : {"none", "pending", "done"}]
  BY DEF Init
<1>2. tab \in [Tabs -> TabRecord] /\ \A t \in Tabs : HasToken(tab[t])
  BY ClosedIs DEF Init
<1>3. hints \in [Tabs -> SUBSET Nat] /\ NoToken \notin valid
  BY DEF Init, NoToken
<1>4. /\ left \in [signIns : Int, signOuts : Int, opens : Int, faults : Int]
      /\ left.signIns <= MaxSignIns
  BY SessionBounds DEF Init
<1>5. SignedOutForGood /\ SignOutReachesTabs
  BY <1>1 DEF SignedOutForGood, SignOutReachesTabs
<1> QED BY <1>1, <1>2, <1>3, <1>4, <1>5 DEF SessionInv, Shape

LEMMA TaskKeeps ==
    ASSUME SessionInv, NEW t \in Tabs, Task(t)
    PROVE  SessionInv'
<1>1. ASSUME NEW k \in {"check", "user"},
             WhoAmI(t, k) \/ Feed(t, k) \/ Save(t, k) \/ Grant(t, k) \/ Done(t, k)
      PROVE  SessionInv'
  BY <1>1, WhoAmIKeeps, FeedKeeps, SaveKeeps, GrantKeeps, DoneKeeps
<1>2. CASE ServerSignOut(t, "user", "out") \/ ServerSignOut(t, "retry", "late")
  BY <1>2, ServerSignOutKeeps DEF Kinds
<1>3. CASE \/ CheckEnter(t) \/ SessionAnswer(t) \/ SignInEnter(t) \/ SignInRevoke(t)
           \/ SignInClear(t) \/ SignInPost(t) \/ SignOutHeld(t) \/ SignOutMark(t)
  BY <1>3, CheckEnterKeeps, SessionAnswerKeeps, SignInEnterKeeps, SignInRevokeKeeps,
     SignInClearKeeps, SignInPostKeeps, SignOutHeldKeeps, SignOutMarkKeeps
<1> QED BY <1>1, <1>2, <1>3 DEF Task

LEMMA NextKeeps ==
    ASSUME SessionInv, [Next]_vars
    PROVE  SessionInv'
<1>1. ASSUME NEW t \in Tabs, Task(t)
      PROVE  SessionInv'
  BY <1>1, TaskKeeps
<1>2. ASSUME NEW t \in Tabs,
             \/ HearSignIn(t) \/ Hint(t) \/ ClearLands(t) \/ TimerFires(t)
             \/ Open(t) \/ Close(t) \/ Recheck(t) \/ SessionCheck(t) \/ SignIn(t)
      PROVE  SessionInv'
  BY <1>2, HearSignInKeeps, HintKeeps, ClearLandsKeeps, OpenKeeps, CloseKeeps, RecheckKeeps,
     SessionCheckKeeps, SignInKeeps DEF TimerFires
<1>3. ASSUME NEW t \in Tabs, NEW opsWait \in BOOLEAN, SignOut(t, opsWait)
      PROVE  SessionInv'
  BY <1>3, SignOutKeeps
<1>4. CASE Revoke
  BY <1>4, TabsStayKeeps DEF Revoke
<1>5. CASE UNCHANGED vars
  BY <1>5, TabsStayKeeps DEF vars
<1> QED BY <1>1, <1>2, <1>3, <1>4, <1>5 DEF Next

\* The inductive invariant of the room's sign-outs in a browser.
THEOREM SessionInvariant == Spec => []SessionInv
<1>1. Init => SessionInv
  BY InitHolds
<1>2. SessionInv /\ [Next]_vars => SessionInv'
  BY NextKeeps
<1> QED BY <1>1, <1>2, PTL DEF Spec

\* However the tabs, the requests and the clears of a sign-out interleave, a
\* browser that is signed out keeps no copy, and once the server has answered,
\* no working cookie.
THEOREM SignedOutStaysSignedOut == Spec => []SignedOutForGood
<1>1. SessionInv => SignedOutForGood
  BY DEF SessionInv
<1> QED BY <1>1, SessionInvariant, PTL

\* A sign-out reaches every tab that shows the room, whatever it was doing.
THEOREM SignOutReachesEveryTab == Spec => []SignOutReachesTabs
<1>1. SessionInv => SignOutReachesTabs
  BY DEF SessionInv
<1> QED BY <1>1, SessionInvariant, PTL
-----------------------------------------------------------------------------
(* A sign-in that went through is kept: this is what the session lock is   *)
(* for.  The task that holds it is the only one that may take a marker     *)
(* away, so a sign-in that found one still finds it when it ends the old   *)
(* session.                                                                *)

MarkedIsNotKept == control.mark # "none" => kept = NoToken
RevokesUnderLock ==
    \A t \in Tabs : tab[t].pc["user"] = "revoke" =>
        /\ control.mark = "pending"
        /\ lock # <<>> /\ Head(lock) = <<t, "user">>
KeptInv ==
    /\ lock \in Seq(Tabs \X Kinds)
    /\ MarkedIsNotKept
    /\ RevokesUnderLock
    /\ SignInIsKept

\* What a task's end, and a handle that a step leaves, do to the tasks.
LEMMA EndedEndsItsTask ==
    ASSUME NEW r \in TabRecord, NEW k \in Kinds, NEW ok \in BOOLEAN
    PROVE  Ended(r, k, ok).pc = [r.pc EXCEPT ![k] = "idle"]
<1> DEFINE done == [r EXCEPT !.pc[k] = "idle", !.stale = @ \ {k}, !.again = FALSE,
                             !.write = IF @ = "out" THEN "out" ELSE "none",
                             !.before = IF k = "user" THEN NoGeneration ELSE @,
                             !.token = IF k = "user" THEN NoToken ELSE @]
<1>1. /\ done.pc = [r.pc EXCEPT ![k] = "idle"]
      /\ [done EXCEPT !.timer = TRUE].pc = done.pc
  BY DEF TabRecord
<1>2. Blocked(done, FALSE).pc = done.pc
  <2>1. done = [done EXCEPT !.open = done.open]
    BY DEF TabRecord
  <2>2. DOMAIN done = DOMAIN r /\ "pc" \in DOMAIN r
    BY DEF TabRecord
  <2> HIDE DEF done
  <2> QED BY <2>2 DEF Blocked, TabRecord
<1>3. \/ Ended(r, k, ok) = [done EXCEPT !.timer = TRUE]
      \/ Ended(r, k, ok) = Blocked(done, FALSE)
      \/ Ended(r, k, ok) = done
  BY DEF Ended
<1> HIDE DEF done
<1> QED BY <1>1, <1>2, <1>3

\* A step of the task that holds the lock, other than the one that finds a
\* marker, leaves no sign-in about to end a session.
NobodyRevokes == \A u \in Tabs : tab'[u].pc["user"] # "revoke"

LEMMA OnlyHolderRevokes ==
    ASSUME KeptInv, NEW t \in Tabs, NEW k \in Kinds, NEW p, Holds(t, k, p),
           NEW u \in Tabs, tab[u].pc["user"] = "revoke"
    PROVE  u = t /\ k = "user"
BY DEF KeptInv, RevokesUnderLock, Holds

LEMMA HolderGoes ==
    ASSUME Shape, KeptInv, NEW t \in Tabs, NEW k \in Kinds, NEW q, Holds(t, k, q),
           NEW r \in TabRecord, r.pc = tab[t].pc, NEW p \in Steps, p # "revoke", Go(t, k, r, p)
    PROVE  NobodyRevokes /\ lock' \in Seq(Tabs \X Kinds)
<1>1. tab'[t].pc = [r.pc EXCEPT ![k] = p] /\ \A u \in Tabs \ {t} : tab'[u] = tab[u]
  BY DEF Go, Shape, TabRecord
<1>2. [r.pc EXCEPT ![k] = p]["user"] = IF k = "user" THEN p ELSE r.pc["user"]
  BY DEF TabRecord, Kinds
<1>3. ASSUME NEW u \in Tabs
      PROVE  tab'[u].pc["user"] # "revoke"
  <2>1. tab[u].pc["user"] = "revoke" => u = t /\ k = "user"
    BY OnlyHolderRevokes
  <2>2. CASE u = t
    BY <1>1, <1>2, <2>1, <2>2
  <2>3. CASE u # t
    BY <1>1, <2>1, <2>3
  <2> QED BY <2>2, <2>3
<1> QED BY <1>3 DEF Go, KeptInv, NobodyRevokes

LEMMA HolderLeaves ==
    ASSUME Shape, KeptInv, NEW t \in Tabs, NEW k \in Kinds, NEW q, Holds(t, k, q),
           NEW r \in TabRecord, r.pc = tab[t].pc, NEW ok \in BOOLEAN, Leave(t, k, r, ok)
    PROVE  NobodyRevokes /\ lock' \in Seq(Tabs \X Kinds)
<1>1. tab'[t].pc = [r.pc EXCEPT ![k] = "idle"] /\ \A u \in Tabs \ {t} : tab'[u] = tab[u]
  BY EndedEndsItsTask DEF Leave, Shape
<1>2. [r.pc EXCEPT ![k] = "idle"]["user"] = IF k = "user" THEN "idle" ELSE r.pc["user"]
  BY DEF TabRecord, Kinds
<1>3. ASSUME NEW u \in Tabs
      PROVE  tab'[u].pc["user"] # "revoke"
  <2>1. tab[u].pc["user"] = "revoke" => u = t /\ k = "user"
    BY OnlyHolderRevokes
  <2>2. CASE u = t
    <3>1. k # "user" => tab[t].pc["user"] # "revoke"
      BY <2>1, <2>2
    <3>2. tab'[t].pc["user"] = IF k = "user" THEN "idle" ELSE tab[t].pc["user"]
      BY <1>1, <1>2
    <3> QED BY <2>2, <3>1, <3>2
  <2>3. CASE u # t
    BY <1>1, <2>1, <2>3
  <2> QED BY <2>2, <2>3
<1>4. lock' \in Seq(Tabs \X Kinds)
  BY DEF Leave, Holds, KeptInv
<1> QED BY <1>3, <1>4 DEF NobodyRevokes

\* The handles of the steps under the lock, and their tasks.
LEMMA HandlesKeepTasks ==
    ASSUME Shape, NEW t \in Tabs, NEW persist \in BOOLEAN
    PROVE  /\ tab[t] \in TabRecord
           /\ Identified(tab[t]) \in TabRecord /\ Identified(tab[t]).pc = tab[t].pc
           /\ Blocked(tab[t], persist) \in TabRecord /\ Blocked(tab[t], persist).pc = tab[t].pc
           /\ LoadFailed(tab[t]) \in TabRecord /\ LoadFailed(tab[t]).pc = tab[t].pc
           /\ Blocked(Identified(tab[t]), persist) \in TabRecord
           /\ Blocked(Identified(tab[t]), persist).pc = tab[t].pc
<1>1. tab[t] \in TabRecord
  BY DEF Shape
<1>2. Identified(tab[t]) \in TabRecord /\ Identified(tab[t]).pc = tab[t].pc
  BY <1>1, IdentifiedIs DEF ShowsNoMore
<1> QED BY <1>1, <1>2, BlockedIs, LoadFailedIs DEF ShowsNoMore

\* A 401 takes no cookie that was kept.
LEMMA BadCookieIsNotKept ==
    ASSUME KeptInv, cookie \notin valid
    PROVE  kept = NoToken
BY DEF KeptInv, SignInIsKept

\* A request that ends a session, while a sign-out is pending, ends none that
\* is kept.
LEMMA EndSessionSparesKept ==
    ASSUME KeptInv, NobodyRevokes, lock' \in Seq(Tabs \X Kinds), UNCHANGED kept,
           control.mark = "pending",
           (EndSession /\ control' = Acknowledged) \/ EndSessionLost
    PROVE  KeptInv'
<1>1. kept' = NoToken
  BY DEF KeptInv, MarkedIsNotKept
<1> QED BY <1>1 DEF KeptInv, MarkedIsNotKept, RevokesUnderLock, SignInIsKept, NobodyRevokes

-----------------------------------------------------------------------------
(* The steps of the task that holds the lock.                              *)

LEMMA HolderIsCareful ==
    ASSUME KeptInv, NobodyRevokes, lock' \in Seq(Tabs \X Kinds), UNCHANGED <<control, valid, kept>>,
           cookie' = cookie \/ cookie \notin valid
    PROVE  KeptInv'
<1>1. MarkedIsNotKept' /\ RevokesUnderLock'
  BY DEF KeptInv, MarkedIsNotKept, RevokesUnderLock, NobodyRevokes
<1>2. SignInIsKept'
  BY BadCookieIsNotKept DEF KeptInv, SignInIsKept
<1> QED BY <1>1, <1>2 DEF KeptInv

LEMMA CheckKeepsSignIn ==
    ASSUME Shape, KeptInv, NEW t \in Tabs, NEW k \in {"check", "user"},
           \/ CheckEnter(t) \/ SessionAnswer(t)
           \/ WhoAmI(t, k) \/ Save(t, k) \/ Done(t, k)
    PROVE  KeptInv'
<1>1. CASE CheckEnter(t)
  <2>1. \/ Leave(t, "check", tab[t], FALSE) \/ Leave(t, "check", Identified(tab[t]), FALSE)
        \/ Go(t, "check", Identified(tab[t]), "who")
    BY <1>1 DEF CheckEnter
  <2>2. NobodyRevokes /\ lock' \in Seq(Tabs \X Kinds)
    BY <1>1, <2>1, HandlesKeepTasks, HolderGoes, HolderLeaves DEF CheckEnter, Kinds, Steps
  <2> QED BY <1>1, <2>2, HolderIsCareful DEF CheckEnter, shared
<1>2. CASE SessionAnswer(t)
  <2>1. \/ Leave(t, "check", Identified(tab[t]), FALSE)
        \/ Leave(t, "check", Blocked(Identified(tab[t]), TRUE), FALSE)
    BY <1>2 DEF SessionAnswer
  <2>2. NobodyRevokes /\ lock' \in Seq(Tabs \X Kinds)
    BY <1>2, <2>1, HandlesKeepTasks, HolderLeaves DEF SessionAnswer, Kinds
  <2> QED BY <1>2, <2>2, HolderIsCareful DEF SessionAnswer
<1>3. CASE WhoAmI(t, k)
  <2>1. \/ Leave(t, k, tab[t], FALSE) \/ Leave(t, k, Blocked(tab[t], TRUE), FALSE)
        \/ Leave(t, k, LoadFailed(tab[t]), FALSE) \/ Go(t, k, tab[t], "feed")
    BY <1>3 DEF WhoAmI
  <2>2. NobodyRevokes /\ lock' \in Seq(Tabs \X Kinds)
    BY <1>3, <2>1, HandlesKeepTasks, HolderGoes, HolderLeaves DEF WhoAmI, Kinds, Steps
  <2> QED BY <1>3, <2>2, HolderIsCareful DEF WhoAmI
<1>4. CASE Save(t, k)
  <2>1. Go(t, k, Identified(tab[t]), "grant") \/ Leave(t, k, Identified(tab[t]), FALSE)
    BY <1>4 DEF Save
  <2>2. NobodyRevokes /\ lock' \in Seq(Tabs \X Kinds)
    BY <1>4, <2>1, HandlesKeepTasks, HolderGoes, HolderLeaves DEF Save, Kinds, Steps
  <2> QED BY <1>4, <2>2, HolderIsCareful DEF Save
<1>5. CASE Done(t, k)
  <2>1. NobodyRevokes /\ lock' \in Seq(Tabs \X Kinds)
    BY <1>5, HandlesKeepTasks, HolderLeaves DEF Done, Kinds
  <2> QED BY <1>5, <2>1, HolderIsCareful DEF Done, shared
<1> QED BY <1>1, <1>2, <1>3, <1>4, <1>5

LEMMA FeedKeepsSignIn ==
    ASSUME Shape, KeptInv, NEW t \in Tabs, NEW k \in {"check", "user"}, Feed(t, k) \/ Grant(t, k)
    PROVE  KeptInv'
<1> DEFINE i == Identified(tab[t])
<1>1. tab[t] \in TabRecord /\ i \in TabRecord /\ i.pc = tab[t].pc
  BY HandlesKeepTasks
<1>2. CASE Feed(t, k)
  <2>1. \/ Leave(t, k, tab[t], FALSE) \/ Leave(t, k, i, FALSE)
        \/ Leave(t, k, Blocked(tab[t], TRUE), FALSE) \/ Leave(t, k, LoadFailed(tab[t]), FALSE)
        \/ Leave(t, k, [tab[t] EXCEPT !.write = "out"], FALSE)
        \/ Leave(t, k, [tab[t] EXCEPT !.view = "locked", !.auth = FALSE], FALSE)
        \/ Go(t, k, [i EXCEPT !.view = "shown"], "save")
    BY <1>2 DEF Feed
  <2> HIDE DEF i
  <2>2. /\ [tab[t] EXCEPT !.write = "out"] \in TabRecord
        /\ [tab[t] EXCEPT !.write = "out"].pc = tab[t].pc
        /\ [tab[t] EXCEPT !.view = "locked", !.auth = FALSE] \in TabRecord
        /\ [tab[t] EXCEPT !.view = "locked", !.auth = FALSE].pc = tab[t].pc
        /\ [i EXCEPT !.view = "shown"] \in TabRecord /\ [i EXCEPT !.view = "shown"].pc = tab[t].pc
    BY <1>1 DEF TabRecord
  <2>3. Holds(t, k, "feed") /\ k \in Kinds
    BY <1>2 DEF Feed, Kinds
  <2>4. NobodyRevokes /\ lock' \in Seq(Tabs \X Kinds)
    BY <1>1, <2>1, <2>2, <2>3, HandlesKeepTasks, HolderGoes, HolderLeaves DEF Steps
  <2> QED BY <1>2, <2>4, HolderIsCareful DEF Feed, shared
<1>3. CASE Grant(t, k)
  <2>1. /\ [tab[t] EXCEPT !.auth = TRUE] \in TabRecord
        /\ [tab[t] EXCEPT !.auth = TRUE].pc = tab[t].pc
    BY <1>1 DEF TabRecord
  <2>2. NobodyRevokes /\ lock' \in Seq(Tabs \X Kinds)
    BY <1>3, <2>1, HolderGoes DEF Grant, Kinds, Steps
  <2> QED BY <1>3, <2>2, HolderIsCareful DEF Grant, shared
<1> QED BY <1>2, <1>3

LEMMA SignInEnterKeepsSignIn ==
    ASSUME Shape, KeptInv, NEW t \in Tabs, SignInEnter(t)
    PROVE  KeptInv'
<1>1. tab[t] \in TabRecord /\ "user" \in Kinds /\ UNCHANGED <<shared, lock>>
  BY DEF Shape, Kinds, SignInEnter, Go
<1>2. CASE control.mark = "pending"
  <2>1. \A u \in Tabs \ {t} : tab'[u] = tab[u]
    BY DEF SignInEnter, Go, Shape
  <2>2. RevokesUnderLock'
    BY <1>1, <1>2, <2>1 DEF KeptInv, RevokesUnderLock, SignInEnter, Holds, shared
  <2> QED BY <1>1, <2>2 DEF KeptInv, MarkedIsNotKept, SignInIsKept, shared
<1>3. CASE control.mark # "pending"
  <2>1. NobodyRevokes /\ lock' \in Seq(Tabs \X Kinds)
    BY <1>1, <1>3, HolderGoes DEF SignInEnter, Steps
  <2> QED BY <1>1, <2>1, HolderIsCareful DEF shared
<1> QED BY <1>2, <1>3

LEMMA SignInRevokeKeepsSignIn ==
    ASSUME Shape, KeptInv, NEW t \in Tabs, SignInRevoke(t)
    PROVE  KeptInv'
<1>1. tab[t] \in TabRecord /\ "user" \in Kinds
  BY DEF Shape, Kinds
<1>2. NobodyRevokes /\ lock' \in Seq(Tabs \X Kinds)
  BY <1>1, HolderGoes, HolderLeaves DEF SignInRevoke, Steps
<1>3. control.mark = "pending"
  BY DEF SignInRevoke, Holds, KeptInv, RevokesUnderLock
<1> QED BY <1>2, <1>3, EndSessionSparesKept DEF SignInRevoke

LEMMA SignInClearKeepsSignIn ==
    ASSUME Shape, KeptInv, NEW t \in Tabs, SignInClear(t)
    PROVE  KeptInv'
<1>1. tab[t] \in TabRecord /\ "user" \in Kinds /\ control.gen + 1 \in Int
  BY DEF Shape, Kinds
<1>2. NobodyRevokes /\ lock' \in Seq(Tabs \X Kinds)
  <2>1. CASE Leave(t, "user", tab[t], FALSE)
    BY <1>1, <2>1, HolderLeaves DEF SignInClear
  <2>2. CASE Go(t, "user", [tab[t] EXCEPT !.before = control.gen + 1], "post")
    <3>1. /\ [tab[t] EXCEPT !.before = control.gen + 1] \in TabRecord
          /\ [tab[t] EXCEPT !.before = control.gen + 1].pc = tab[t].pc
      BY <1>1 DEF TabRecord
    <3> QED BY <1>1, <2>2, <3>1, HolderGoes DEF SignInClear, Steps
  <2> QED BY <2>1, <2>2 DEF SignInClear
<1>3. control' = control \/ control'.mark = "none"
  <2>1. control' = control \/ control' = [gen |-> control.gen + 1, mark |-> "none"]
    BY DEF SignInClear
  <2> QED BY <2>1
<1>4. UNCHANGED <<cookie, valid, kept>>
  BY DEF SignInClear
<1> QED BY <1>2, <1>3, <1>4 DEF KeptInv, MarkedIsNotKept, RevokesUnderLock, SignInIsKept,
                                NobodyRevokes

LEMMA SignInPostKeepsSignIn ==
    ASSUME Shape, KeptInv, NEW t \in Tabs, SignInPost(t)
    PROVE  KeptInv'
<1>1. tab[t] \in TabRecord /\ "user" \in Kinds /\ Holds(t, "user", "post")
  BY DEF Shape, Kinds, SignInPost
<1>2. CASE /\ valid' = valid \cup {tab[t].token} /\ cookie' = tab[t].token
           /\ kept' = tab[t].token /\ control' = control /\ GoesThrough(tab[t])
           /\ Go(t, "user", [tab[t] EXCEPT !.gen = control.gen, !.blocked = FALSE], "who")
  <2> DEFINE r == [tab[t] EXCEPT !.gen = control.gen, !.blocked = FALSE]
  <2>1. r \in TabRecord /\ r.pc = tab[t].pc
    <3>1. control.gen \in Int
      BY DEF Shape
    <3> QED BY <1>1, <3>1 DEF TabRecord
  <2>2. NobodyRevokes /\ lock' \in Seq(Tabs \X Kinds)
    <3>1. Go(t, "user", r, "who")
      BY <1>2
    <3> HIDE DEF r
    <3> QED BY <1>1, <2>1, <3>1, HolderGoes DEF Steps
  <2> QED BY <1>2, <2>2 DEF KeptInv, MarkedIsNotKept, RevokesUnderLock, SignInIsKept,
                            NobodyRevokes, GoesThrough
<1>3. CASE MarkSignedOut /\ Leave(t, "user", Blocked(tab[t], FALSE), FALSE)
  <2>1. NobodyRevokes /\ lock' \in Seq(Tabs \X Kinds)
    BY <1>1, <1>3, HandlesKeepTasks, HolderLeaves
  <2> QED BY <1>3, <2>1 DEF KeptInv, MarkedIsNotKept, RevokesUnderLock, SignInIsKept,
                            NobodyRevokes, MarkSignedOut
<1>4. CASE /\ Leave(t, "user", Blocked(tab[t], TRUE), FALSE) \/ Leave(t, "user", tab[t], TRUE)
           /\ UNCHANGED shared
  <2>1. NobodyRevokes /\ lock' \in Seq(Tabs \X Kinds)
    BY <1>1, <1>4, HandlesKeepTasks, HolderLeaves
  <2> QED BY <1>4, <2>1, HolderIsCareful DEF shared
<1> QED BY <1>2, <1>3, <1>4 DEF SignInPost

LEMMA ServerSignOutKeepsSignIn ==
    ASSUME Shape, KeptInv, NEW t \in Tabs, NEW k \in Kinds, NEW p, ServerSignOut(t, k, p)
    PROVE  KeptInv'
<1>1. tab[t] \in TabRecord
  BY DEF Shape
<1>2. NobodyRevokes /\ lock' \in Seq(Tabs \X Kinds)
  BY <1>1, HolderLeaves DEF ServerSignOut
<1>3. CASE control.mark # "pending"
  BY <1>2, <1>3, HolderIsCareful DEF ServerSignOut
<1>4. CASE control.mark = "pending"
  BY <1>2, <1>4, EndSessionSparesKept DEF ServerSignOut
<1> QED BY <1>3, <1>4

-----------------------------------------------------------------------------
(* The steps without the lock: they may ask for it, and leave who holds it.*)

NobodyBegins == \A u \in Tabs : tab'[u].pc["user"] = "revoke" => tab[u].pc["user"] = "revoke"
SameHolder ==
    /\ lock' \in Seq(Tabs \X Kinds)
    /\ \A t \in Tabs : /\ tab'[t].pc["user"] = "revoke"
                       /\ lock # <<>> /\ Head(lock) = <<t, "user">>
                       => lock' # <<>> /\ Head(lock') = <<t, "user">>

LEMMA AskingKeepsHolder ==
    ASSUME KeptInv, NEW t \in Tabs, NEW k \in Kinds, lock' = lock \/ lock' = Append(lock, <<t, k>>)
    PROVE  SameHolder
<1>1. lock \in Seq(Tabs \X Kinds) /\ <<t, k>> \in Tabs \X Kinds
  BY DEF KeptInv
<1>2. ASSUME lock # <<>>
      PROVE  Append(lock, <<t, k>>) # <<>> /\ Head(Append(lock, <<t, k>>)) = Head(lock)
  <2> DEFINE e == <<t, k>>
  <2>1. e \in Tabs \X Kinds
    BY <1>1
  <2> HIDE DEF e
  <2>2. Append(lock, e) # <<>>
    BY <1>1, <2>1, AppendProperties
  <2>3. Head(Append(lock, e)) = IF lock = <<>> THEN e ELSE Head(lock)
    BY <1>1, HeadTailAppend
  <2> QED BY <1>2, <2>2, <2>3 DEF e
<1>3. lock' \in Seq(Tabs \X Kinds)
  BY <1>1, AppendProperties
<1>4. lock # <<>> => lock' # <<>> /\ Head(lock') = Head(lock)
  BY <1>2
<1> QED BY <1>3, <1>4 DEF SameHolder

LEMMA WithoutTheLock ==
    ASSUME KeptInv, NobodyBegins, SameHolder,
           \/ UNCHANGED <<cookie, valid, kept>> /\ control'.mark = control.mark
           \/ kept' = NoToken /\ control'.mark \in {control.mark, "pending"}
    PROVE  KeptInv'
<1>1. RevokesUnderLock'
  BY DEF KeptInv, RevokesUnderLock, NobodyBegins, SameHolder
<1> QED BY <1>1 DEF KeptInv, MarkedIsNotKept, SignInIsKept, SameHolder

\* Nobody begins when a handle keeps its user task or takes it elsewhere.
LEMMA TabBegins ==
    ASSUME Shape, NEW t \in Tabs, NEW r, tab' = [tab EXCEPT ![t] = r],
           r.pc["user"] = "revoke" => tab[t].pc["user"] = "revoke"
    PROVE  NobodyBegins
BY DEF NobodyBegins, Shape

LEMMA PageStepKeepsSignIn ==
    ASSUME Shape, KeptInv, NEW t \in Tabs, NEW opsWait \in BOOLEAN,
           \/ SessionCheck(t) \/ SignIn(t) \/ SignOut(t, opsWait) \/ SignOutHeld(t) \/ Recheck(t)
    PROVE  KeptInv'
<1>0. tab[t] \in TabRecord /\ tab[t].pc \in [Kinds -> Steps]
  BY DEF Shape, TabRecord
<1>1. NobodyBegins
  <2>1. CASE tab' = [tab EXCEPT ![t] = Blocked(@, TRUE)]
    BY <1>0, <2>1, BlockedIs, TabBegins
  <2>2. CASE tab' = [tab EXCEPT ![t].pc.check = "session"]
    BY <1>0, <2>2 DEF NobodyBegins, Shape, TabRecord, Kinds
  <2>3. CASE SignIn(t)
    BY <1>0, <2>3 DEF SignIn, NobodyBegins, Shape, TabRecord, Kinds
  <2>4. CASE SignOut(t, opsWait)
    BY <1>0, <2>4 DEF SignOut, NobodyBegins, Shape, TabRecord, Kinds
  <2>5. CASE SignOutHeld(t)
    BY <1>0, <2>5 DEF SignOutHeld, NobodyBegins, Shape, TabRecord, Kinds
  <2>6. CASE Recheck(t)
    <3>1. tab[t].timer \in BOOLEAN /\ tab' = [tab EXCEPT ![t] = Checking(tab[t], tab[t].timer)]
      BY <1>0, <2>6 DEF Recheck, TabRecord
    <3> QED BY <1>0, <3>1, CheckingIs, TabBegins
  <2> QED BY <2>1, <2>2, <2>3, <2>4, <2>5, <2>6 DEF SessionCheck
<1>2. UNCHANGED shared
  BY DEF SessionCheck, SignIn, SignOut, SignOutHeld, Recheck
<1>3. \/ lock' = lock \/ lock' = Append(lock, <<t, "check">>) \/ lock' = Append(lock, <<t, "user">>)
  BY DEF SessionCheck, SignIn, SignOut, SignOutHeld, Recheck
<1>4. SameHolder
  BY <1>3, AskingKeepsHolder DEF Kinds
<1> QED BY <1>1, <1>2, <1>4, WithoutTheLock DEF shared

LEMMA SignOutMarkKeepsSignIn ==
    ASSUME Shape, KeptInv, NEW t \in Tabs, SignOutMark(t)
    PROVE  KeptInv'
<1> DEFINE b == Blocked(tab[t], FALSE)
<1>1. b \in TabRecord
  BY HandlesKeepTasks
<1>2. tab' = [tab EXCEPT ![t] = [b EXCEPT !.gen = NoGeneration, !.pc.user = "out"]]
  BY DEF SignOutMark
<1> HIDE DEF b
<1>3. [b EXCEPT !.gen = NoGeneration, !.pc.user = "out"].pc["user"] = "out"
  BY <1>1 DEF TabRecord, Kinds
<1>4. NobodyBegins
  BY <1>2, <1>3, TabBegins
<1>5. SameHolder
  BY AskingKeepsHolder DEF SignOutMark, Kinds
<1> QED BY <1>4, <1>5, WithoutTheLock DEF SignOutMark, MarkSignedOut

LEMMA HearSignInKeepsSignIn ==
    ASSUME Shape, KeptInv, NEW t \in Tabs, HearSignIn(t)
    PROVE  KeptInv'
<1> DEFINE r == [tab[t] EXCEPT !.blocked = FALSE, !.gen = control.gen]
<1>1. r \in TabRecord /\ r.pc = tab[t].pc
  <2>1. control.gen \in Int /\ tab[t] \in TabRecord
    BY DEF Shape
  <2> QED BY <2>1 DEF TabRecord
<1>2. UNCHANGED tab \/ tab' = [tab EXCEPT ![t] = Checking(r, FALSE)]
  BY DEF HearSignIn
<1> HIDE DEF r
<1>3. NobodyBegins
  <2>1. CASE UNCHANGED tab
    BY <2>1 DEF NobodyBegins
  <2>2. CASE tab' = [tab EXCEPT ![t] = Checking(r, FALSE)]
    BY <1>1, <2>2, CheckingIs, TabBegins
  <2> QED BY <1>2, <2>1, <2>2
<1>4. SameHolder
  BY AskingKeepsHolder DEF HearSignIn, Kinds
<1> QED BY <1>3, <1>4, WithoutTheLock DEF HearSignIn, shared

LEMMA RetryingKeepsUser ==
    ASSUME NEW r \in TabRecord
    PROVE  Retrying(r).pc["user"] = r.pc["user"]
BY DEF Retrying, TabRecord, Kinds

LEMMA HintKeepsSignIn ==
    ASSUME Shape, KeptInv, NEW t \in Tabs, Hint(t)
    PROVE  KeptInv'
<1> DEFINE next == Blocked(tab[t], FALSE)
<1>1. next \in TabRecord /\ next.pc = tab[t].pc
  BY HandlesKeepTasks
<1>2. /\ \/ UNCHANGED tab
         \/ tab' = [tab EXCEPT ![t] = next]
         \/ tab' = [tab EXCEPT ![t] = Retrying(next)]
      /\ lock' = lock \/ lock' = Append(lock, <<t, "retry">>)
  BY DEF Hint, RetryLock
<1> HIDE DEF next
<1>3. NobodyBegins
  <2>1. CASE UNCHANGED tab
    BY <2>1 DEF NobodyBegins
  <2>2. CASE tab' = [tab EXCEPT ![t] = next] \/ tab' = [tab EXCEPT ![t] = Retrying(next)]
    BY <1>1, <2>2, RetryingKeepsUser, TabBegins
  <2> QED BY <1>2, <2>1, <2>2
<1>4. SameHolder
  BY <1>2, AskingKeepsHolder DEF Kinds
<1> QED BY <1>3, <1>4, WithoutTheLock DEF Hint, shared

LEMMA ClearLandsKeepsSignIn ==
    ASSUME Shape, KeptInv, NEW t \in Tabs, ClearLands(t)
    PROVE  KeptInv'
<1>1. NobodyBegins
  BY DEF ClearLands, NobodyBegins, Shape, TabRecord
<1>2. SameHolder
  BY AskingKeepsHolder DEF ClearLands, Kinds
<1>3. control'.mark = control.mark
  BY DEF ClearLands, Shape
<1> QED BY <1>1, <1>2, <1>3, WithoutTheLock DEF ClearLands

LEMMA OpenKeepsSignIn ==
    ASSUME Shape, KeptInv, NEW t \in Tabs, Open(t)
    PROVE  KeptInv'
<1> DEFINE r == [Closed EXCEPT !.open = TRUE]
<1> DEFINE out == [r EXCEPT !.blocked = TRUE, !.view = "locked"]
<1> DEFINE in == [r EXCEPT !.gen = control.gen, !.view = IF saved THEN "saved" ELSE "none"]
<1>1. out \in TabRecord /\ in \in TabRecord /\ out.pc["user"] = "idle" /\ in.pc["user"] = "idle"
  <2>1. Closed \in TabRecord /\ Closed.pc["user"] = "idle"
    BY ClosedIs DEF Closed, Kinds
  <2>2. control.gen \in Int
    BY DEF Shape
  <2>3. r \in TabRecord /\ r.pc["user"] = "idle"
    <3> DEFINE c == Closed
    <3>1. c \in TabRecord /\ c.pc["user"] = "idle"
      BY <2>1
    <3> HIDE DEF c
    <3>2. [c EXCEPT !.open = TRUE] \in TabRecord /\ [c EXCEPT !.open = TRUE].pc["user"] = "idle"
      BY <3>1 DEF TabRecord
    <3> QED BY <3>2 DEF c
  <2> HIDE DEF r
  <2> QED BY <2>2, <2>3 DEF TabRecord
<1>2. /\ \/ tab' = [tab EXCEPT ![t] = Checking(in, FALSE)]
         \/ tab' = [tab EXCEPT ![t] = Retrying(out)]
      /\ \/ lock' = lock \/ lock' = Append(lock, <<t, "check">>)
         \/ lock' = Append(lock, <<t, "retry">>)
  BY DEF Open, RetryLock
<1> HIDE DEF r, out, in
<1>3. NobodyBegins
  <2>1. Checking(in, FALSE).pc["user"] = "idle" /\ Retrying(out).pc["user"] = "idle"
    BY <1>1, CheckingIs, RetryingKeepsUser
  <2> QED BY <1>2, <2>1, TabBegins
<1>4. SameHolder
  BY <1>2, AskingKeepsHolder DEF Kinds
<1> QED BY <1>3, <1>4, WithoutTheLock DEF Open, shared

\* A page that closes takes its own requests for the lock with it.
LEMMA CloseKeepsSignIn ==
    ASSUME Shape, KeptInv, NEW t \in Tabs, Close(t)
    PROVE  KeptInv'
<1> DEFINE places == {i \in DOMAIN lock : lock[i][1] # t}
<1>1. lock \in Seq(Tabs \X Kinds) /\ lock' = Picked(lock, places) /\ places \in SUBSET DOMAIN lock
  BY DEF KeptInv, Close
<1>2. tab'[t].pc["user"] = "idle" /\ \A u \in Tabs \ {t} : tab'[u] = tab[u]
  BY DEF Close, Shape, Closed, Kinds
<1>3. ASSUME NEW u \in Tabs, tab'[u].pc["user"] = "revoke", lock # <<>>, Head(lock) = <<u, "user">>
      PROVE  lock' # <<>> /\ Head(lock') = <<u, "user">>
  <2>1. u # t
    BY <1>2, <1>3
  <2>2. 1 \in DOMAIN lock /\ lock[1] = <<u, "user">>
    BY <1>1, <1>3
  <2>3. 1 \in places
    BY <2>1, <2>2
  <2> HIDE DEF places
  <2> QED BY <1>1, <1>3, <2>3, PickedKeepsTheHead
<1>4. lock' \in Seq(Tabs \X Kinds)
  <2> HIDE DEF places
  <2> QED BY <1>1, PickedElements
<1>5. SameHolder
  BY <1>3, <1>4 DEF SameHolder
<1>6. NobodyBegins
  BY <1>2 DEF NobodyBegins
<1> QED BY <1>5, <1>6, WithoutTheLock DEF Close, shared

LEMMA QuietKeepsSignIn ==
    ASSUME Shape, KeptInv, Revoke \/ UNCHANGED vars
    PROVE  KeptInv'
<1>1. UNCHANGED <<tab, lock, control>>
  BY DEF Revoke, vars
<1>2. NobodyBegins /\ SameHolder
  BY <1>1 DEF NobodyBegins, SameHolder, KeptInv
<1>3. CASE Revoke
  BY <1>1, <1>2, <1>3, WithoutTheLock DEF Revoke
<1>4. CASE UNCHANGED vars
  BY <1>1, <1>2, <1>4, WithoutTheLock DEF vars
<1> QED BY <1>3, <1>4

LEMMA NextKeepsSignIn ==
    ASSUME Shape, KeptInv, [Next]_vars
    PROVE  KeptInv'
<1>1. ASSUME NEW t \in Tabs, Task(t)
      PROVE  KeptInv'
  <2>1. ASSUME NEW k \in {"check", "user"},
               WhoAmI(t, k) \/ Feed(t, k) \/ Save(t, k) \/ Grant(t, k) \/ Done(t, k)
        PROVE  KeptInv'
    BY <2>1, CheckKeepsSignIn, FeedKeepsSignIn
  <2>2. CASE CheckEnter(t) \/ SessionAnswer(t)
    BY <2>2, CheckKeepsSignIn
  <2>3. CASE SignInEnter(t) \/ SignInRevoke(t) \/ SignInClear(t) \/ SignInPost(t)
    BY <2>3, SignInEnterKeepsSignIn, SignInRevokeKeepsSignIn, SignInClearKeepsSignIn,
       SignInPostKeepsSignIn
  <2>4. CASE SignOutHeld(t) \/ SignOutMark(t)
    BY <2>4, PageStepKeepsSignIn, SignOutMarkKeepsSignIn
  <2>5. CASE ServerSignOut(t, "user", "out") \/ ServerSignOut(t, "retry", "late")
    BY <2>5, ServerSignOutKeepsSignIn DEF Kinds
  <2> QED BY <1>1, <2>1, <2>2, <2>3, <2>4, <2>5 DEF Task
<1>2. ASSUME NEW t \in Tabs,
             HearSignIn(t) \/ Hint(t) \/ ClearLands(t) \/ Open(t) \/ Close(t)
      PROVE  KeptInv'
  BY <1>2, HearSignInKeepsSignIn, HintKeepsSignIn, ClearLandsKeepsSignIn, OpenKeepsSignIn,
     CloseKeepsSignIn
<1>3. ASSUME NEW t \in Tabs, TimerFires(t) \/ Recheck(t) \/ SessionCheck(t) \/ SignIn(t)
      PROVE  KeptInv'
  BY <1>3, PageStepKeepsSignIn DEF TimerFires
<1>4. ASSUME NEW t \in Tabs, NEW opsWait \in BOOLEAN, SignOut(t, opsWait)
      PROVE  KeptInv'
  BY <1>4, PageStepKeepsSignIn
<1>5. CASE Revoke \/ UNCHANGED vars
  BY <1>5, QuietKeepsSignIn
<1> QED BY <1>1, <1>2, <1>3, <1>4, <1>5 DEF Next

\* A sign-in that went through stays: whatever other tabs sign out, retry or
\* check meanwhile, and whichever answers are lost, no request ends its session
\* or takes its cookie.
THEOREM SignInStaysKept == Spec => []SignInIsKept
<1>1. Init => KeptInv
  <2> SUFFICES ASSUME Init
               PROVE  KeptInv
    OBVIOUS
  <2>1. lock \in Seq(Tabs \X Kinds) /\ MarkedIsNotKept
    BY DEF Init, MarkedIsNotKept
  <2>2. \A t \in Tabs : tab[t].pc["user"] = "idle"
    BY DEF Init, Closed, Kinds
  <2>3. SignInIsKept
    BY DEF Init, SignInIsKept, NoToken
  <2> QED BY <2>1, <2>2, <2>3 DEF KeptInv, RevokesUnderLock
<1>2. SessionInv /\ KeptInv /\ [Next]_vars => KeptInv'
  BY NextKeepsSignIn DEF SessionInv
<1>3. KeptInv => SignInIsKept
  BY DEF KeptInv
<1> QED BY <1>1, <1>2, <1>3, SessionInvariant, PTL DEF Spec

-----------------------------------------------------------------------------
(* No page is stranded.  A page is settled when it is closed, signed out,  *)
(* allowed to write or has a check scheduled.  One that is neither settled *)
(* nor in the last steps of a sign-in has a check under way that is        *)
(* neither overtaken nor about to end.  The lock plays no part in this.    *)

Settled(r) == ~r.open \/ r.blocked \/ r.view = "locked" \/ r.auth \/ r.timer \/ r.write = "out"
Signing(r) == r.pc["user"] \in {"who", "feed", "save", "grant"}
CheckRuns(r) == "check" \in r.stale => r.pc["check"] # "idle"
Tended(r) ==
    /\ CheckRuns(r)
    /\ \/ Settled(r) \/ Signing(r)
       \/ r.pc["check"] \notin {"idle", "session", "open"} /\ "check" \notin r.stale
TendedInv == \A t \in Tabs : Tended(tab[t])

LEMMA SettledIsTended ==
    ASSUME NEW r, CheckRuns(r), Settled(r) \/ Signing(r)
    PROVE  Tended(r)
BY DEF Tended

LEMMA BlockedIsTended ==
    ASSUME NEW r \in TabRecord, NEW persist \in BOOLEAN
    PROVE  Settled(Blocked(r, persist)) /\ Tended(Blocked(r, persist))
<1> DEFINE s == {k \in {"check", "user"} : r.pc[k] # "idle"}
<1>1. Blocked(r, persist).stale = s /\ Blocked(r, persist).pc = r.pc
      /\ Blocked(r, persist).view = "locked"
  BY DEF Blocked, TabRecord
<1> QED BY <1>1 DEF Settled, CheckRuns, Tended

\* The handles a step under the lock may leave a page with.
LEMMA IdentifiedIsTended ==
    ASSUME Shape, NEW t \in Tabs
    PROVE  /\ Tended(tab[t]) => Tended(Identified(tab[t]))
           /\ Settled(tab[t]) \/ ~Current(tab[t]) => Settled(Identified(tab[t]))
           /\ Signing(tab[t]) => Signing(Identified(tab[t]))
<1>0. tab[t] \in TabRecord /\ control.gen \in Int
  BY DEF Shape
<1> DEFINE i == Identified(tab[t])
<1>1. CASE Current(tab[t])
  <2>1. i = [tab[t] EXCEPT !.gen = control.gen]
    BY <1>1 DEF Identified, Current
  <2>2. /\ i.blocked = tab[t].blocked /\ i.view = tab[t].view /\ i.auth = tab[t].auth
        /\ i.timer = tab[t].timer /\ i.write = tab[t].write /\ i.pc = tab[t].pc
        /\ i.stale = tab[t].stale /\ i.open = tab[t].open
    BY <1>0, <2>1 DEF TabRecord
  <2> HIDE DEF i
  <2> QED BY <1>1, <2>2 DEF Settled, Signing, Tended, CheckRuns, i
<1>2. CASE tab[t].blocked
  <2>1. i = tab[t] /\ Settled(tab[t])
    BY <1>2 DEF Identified, Current, Settled
  <2> QED BY <2>1
<1>3. CASE ~Current(tab[t]) /\ ~tab[t].blocked
  <2>1. i = Blocked(tab[t], FALSE)
    BY <1>3 DEF Identified
  <2>2. i.pc = tab[t].pc
    BY <1>0, <2>1, BlockedIs
  <2> QED BY <1>0, <2>1, <2>2, BlockedIsTended DEF Signing
<1> QED BY <1>1, <1>2, <1>3

LEMMA LoadFailedIsTended ==
    ASSUME NEW r \in TabRecord, Tended(r)
    PROVE  Settled(LoadFailed(r)) /\ Tended(LoadFailed(r))
<1>1. /\ LoadFailed(r).timer = ~r.blocked /\ LoadFailed(r).blocked = r.blocked
      /\ LoadFailed(r).pc = r.pc /\ LoadFailed(r).stale = r.stale
  BY DEF LoadFailed, TabRecord
<1> QED BY <1>1 DEF Settled, Tended, CheckRuns

\* A page with a check that begins: none runs yet.
LEMMA CheckingIsTended ==
    ASSUME NEW r \in TabRecord, NEW again \in BOOLEAN, CheckRuns(r), r.pc["check"] = "idle"
    PROVE  Tended(Checking(r, again))
<1> DEFINE c == Checking(r, again)
<1>1. c.pc["check"] = "lock" /\ c.stale = r.stale
  BY DEF Checking, TabRecord, Kinds
<1> HIDE DEF c
<1>2. Tended(c)
  BY <1>1 DEF Tended, CheckRuns
<1> QED BY <1>2 DEF c

\* The end of a task leaves a page tended: a check that ends has settled the
\* page or left it to a sign-in, and a sign-in in its last steps has settled
\* the page or was overtaken.
EndsWell(r, k, ok) ==
    /\ k = "check" => Settled(r) \/ Signing(r)
    /\ k = "user" => Settled(r) \/ ~Signing(r) \/ (~ok /\ Overtaken(r, "user"))

LEMMA EndedIsTended ==
    ASSUME NEW r \in TabRecord, NEW k \in Kinds, NEW ok \in BOOLEAN, Tended(r), EndsWell(r, k, ok)
    PROVE  Tended(Ended(r, k, ok))
<1> DEFINE pc     == [r.pc EXCEPT ![k] = "idle"]
           stale  == r.stale \ {k}
           write  == IF r.write = "out" THEN "out" ELSE "none"
           before == IF k = "user" THEN NoGeneration ELSE r.before
           token  == IF k = "user" THEN NoToken ELSE r.token
           done   == [r EXCEPT !.pc = pc, !.stale = stale, !.again = FALSE, !.write = write,
                               !.before = before, !.token = token]
<1>1. done \in TabRecord
  <2>1. pc \in [Kinds -> Steps] /\ stale \in SUBSET Kinds /\ write \in {"none", "may", "out"}
        /\ before \in Int /\ token \in Nat
    BY DEF TabRecord, NoGeneration, NoToken, Steps
  <2> HIDE DEF pc, stale, write, before, token
  <2> QED BY <2>1 DEF TabRecord
<1>2. /\ done.pc = pc /\ done.stale = stale /\ done.blocked = r.blocked /\ done.view = r.view
      /\ done.auth = r.auth /\ done.open = r.open /\ done.timer = r.timer /\ done.write = write
  <2> HIDE DEF pc, stale, write, before, token
  <2> QED BY DEF TabRecord
<1>3. \/ Ended(r, k, ok) = [done EXCEPT !.timer = TRUE]
      \/ Ended(r, k, ok) = Blocked(done, FALSE)
      \/ Ended(r, k, ok) = done /\ ~(k = "user" /\ ~ok /\ Overtaken(r, "user"))
  BY DEF Ended
<1>4. pc["check"] = (IF k = "check" THEN "idle" ELSE r.pc["check"])
      /\ pc["user"] = (IF k = "user" THEN "idle" ELSE r.pc["user"])
  BY DEF TabRecord, Kinds
<1>5. (Settled(r) => Settled(done)) /\ CheckRuns(done)
  BY <1>2, <1>4 DEF Settled, CheckRuns, Tended
<1>6. CASE Ended(r, k, ok) = [done EXCEPT !.timer = TRUE]
  <2> HIDE DEF done
  <2> DEFINE e == [done EXCEPT !.timer = TRUE]
  <2>1. e.timer /\ e.stale = done.stale /\ e.pc = done.pc
    BY <1>1 DEF TabRecord
  <2> HIDE DEF e
  <2>2. Tended(e)
    BY <1>5, <2>1 DEF Tended, CheckRuns, Settled
  <2> QED BY <1>6, <2>2 DEF e
<1>7. CASE Ended(r, k, ok) = Blocked(done, FALSE)
  <2> HIDE DEF done
  <2> QED BY <1>1, <1>7, BlockedIsTended
<1>8. CASE Ended(r, k, ok) = done /\ ~(k = "user" /\ ~ok /\ Overtaken(r, "user"))
  <2>1. CASE Settled(r)
    BY <1>5, <1>8, <2>1, SettledIsTended
  <2>2. CASE k = "check" /\ Signing(r)
    <3>1. Signing(done)
      BY <1>2, <1>4, <2>2 DEF Signing
    <3> QED BY <1>5, <1>8, <3>1, SettledIsTended
  <2>3. CASE k = "user" /\ ~Signing(r) /\ ~Settled(r)
    BY <1>2, <1>4, <1>5, <1>8, <2>3 DEF Tended
  <2>4. CASE k = "retry"
    <3>1. Signing(done) <=> Signing(r)
      BY <1>2, <1>4, <2>4 DEF Signing
    <3> QED BY <1>2, <1>4, <1>5, <1>8, <2>4, <3>1 DEF Tended
  <2> QED BY <1>8, <2>1, <2>2, <2>3, <2>4 DEF EndsWell, Kinds
<1> HIDE DEF pc, stale, write, before, token, done
<1> QED BY <1>3, <1>6, <1>7, <1>8

-----------------------------------------------------------------------------
(* The steps.                                                              *)

LEMMA TendedStep ==
    ASSUME Shape, TendedInv, NEW t \in Tabs, NEW r, tab' = [tab EXCEPT ![t] = r], Tended(r)
    PROVE  TendedInv'
BY DEF TendedInv, Shape

LEMMA LeaveIsTended ==
    ASSUME Shape, TendedInv, NEW t \in Tabs, NEW k \in Kinds, NEW ok \in BOOLEAN,
           NEW r \in TabRecord, Tended(r), EndsWell(r, k, ok), Leave(t, k, r, ok)
    PROVE  TendedInv'
<1>1. Tended(Ended(r, k, ok))
  BY EndedIsTended
<1> QED BY <1>1, TendedStep DEF Leave

\* A task goes on: a check not to its end, a sign-in out of its last steps only
\* when the page is settled.
LEMMA GoIsTended ==
    ASSUME Shape, TendedInv, NEW t \in Tabs, NEW k \in {"check", "user"}, NEW p \in Steps,
           NEW r \in TabRecord, Go(t, k, r, p), CheckRuns(r), p # "idle",
           \/ Settled(r)
           \/ /\ k = "check" /\ p \notin {"session", "open"}
              /\ \/ Tended(r) /\ "check" \notin r.stale
                 \/ Signing(r)
           \/ k = "user" /\ p \in {"who", "feed", "save", "grant"}
           \/ k = "user" /\ Tended(r) /\ ~Signing(r)
    PROVE  TendedInv'
<1> DEFINE pc == [r.pc EXCEPT ![k] = p]
           s == [r EXCEPT !.pc = pc]
<1>1. pc["check"] = (IF k = "check" THEN p ELSE r.pc["check"])
      /\ pc["user"] = (IF k = "user" THEN p ELSE r.pc["user"])
  BY DEF TabRecord, Kinds
<1>2. tab' = [tab EXCEPT ![t] = s]
  BY DEF Go
<1> HIDE DEF pc
<1>3. /\ s.pc = pc /\ s.stale = r.stale /\ s.open = r.open /\ s.blocked = r.blocked
      /\ s.view = r.view /\ s.auth = r.auth /\ s.timer = r.timer /\ s.write = r.write
  BY DEF TabRecord
<1> HIDE DEF s
<1>4. (Settled(r) <=> Settled(s)) /\ CheckRuns(s)
  BY <1>1, <1>3 DEF Settled, CheckRuns
<1>5. Tended(s)
  <2>1. CASE Settled(r)
    BY <1>4, <2>1, SettledIsTended
  <2>2. CASE /\ k = "check" /\ p \notin {"session", "open"}
             /\ \/ Tended(r) /\ "check" \notin r.stale
                \/ Signing(r)
    BY <1>1, <1>3, <1>4, <2>2 DEF Tended, Signing
  <2>3. CASE k = "user" /\ p \in {"who", "feed", "save", "grant"}
    <3>1. Signing(s)
      BY <1>1, <1>3, <2>3 DEF Signing
    <3> QED BY <1>4, <3>1, SettledIsTended
  <2>4. CASE k = "user" /\ Tended(r) /\ ~Signing(r)
    BY <1>1, <1>3, <1>4, <2>4 DEF Tended
  <2> QED BY <2>1, <2>2, <2>3, <2>4
<1> QED BY <1>2, <1>5, TendedStep

\* What the steps use of a page.
LEMMA PageIs ==
    ASSUME Shape, TendedInv, NEW t \in Tabs
    PROVE  /\ tab[t] \in TabRecord /\ Tended(tab[t]) /\ CheckRuns(tab[t])
           /\ Identified(tab[t]) \in TabRecord /\ Tended(Identified(tab[t]))
           /\ CheckRuns(Identified(tab[t]))
           /\ Identified(tab[t]).pc = tab[t].pc
<1>1. tab[t] \in TabRecord /\ Tended(tab[t])
  BY DEF Shape, TendedInv
<1>2. Tended(Identified(tab[t]))
  BY <1>1, IdentifiedIsTended
<1>3. Identified(tab[t]) \in TabRecord /\ Identified(tab[t]).pc = tab[t].pc
  BY <1>1, HandlesKeepTasks
<1> QED BY <1>1, <1>2, <1>3 DEF Tended

LEMMA LeavesBlocked ==
    ASSUME Shape, TendedInv, NEW t \in Tabs, NEW k \in Kinds, NEW ok \in BOOLEAN,
           NEW r \in TabRecord, NEW persist \in BOOLEAN, Leave(t, k, Blocked(r, persist), ok)
    PROVE  TendedInv'
<1> DEFINE b == Blocked(r, persist)
<1>1. b \in TabRecord
  BY BlockedIs
<1>2. Settled(b) /\ Tended(b)
  BY BlockedIsTended
<1>4. Leave(t, k, b, ok)
  OBVIOUS
<1> HIDE DEF b
<1>3. EndsWell(b, k, ok)
  BY <1>2 DEF EndsWell
<1> QED BY <1>1, <1>2, <1>3, <1>4, LeaveIsTended

\* A task that fails ends well: its page is blocked, tried again, or overtaken.
LEMMA FailsWell ==
    ASSUME Shape, TendedInv, NEW t \in Tabs, NEW k \in {"check", "user"},
           \/ Leave(t, k, tab[t], FALSE) /\ Overtaken(tab[t], k)
           \/ Leave(t, k, Identified(tab[t]), FALSE)
                /\ (~Current(tab[t]) \/ k \in tab[t].stale)
           \/ Leave(t, k, Blocked(tab[t], TRUE), FALSE)
           \/ Leave(t, k, LoadFailed(tab[t]), FALSE)
    PROVE  TendedInv'
<1>0. tab[t] \in TabRecord /\ Tended(tab[t]) /\ Identified(tab[t]) \in TabRecord
      /\ Tended(Identified(tab[t])) /\ k \in Kinds
  BY PageIs DEF Kinds
<1>1. CASE Leave(t, k, tab[t], FALSE) /\ Overtaken(tab[t], k)
  <2>1. EndsWell(tab[t], k, FALSE)
    BY <1>0, <1>1 DEF EndsWell, Overtaken, Settled, Tended
  <2> QED BY <1>0, <1>1, <2>1, LeaveIsTended
<1>2. CASE Leave(t, k, Identified(tab[t]), FALSE) /\ (~Current(tab[t]) \/ k \in tab[t].stale)
  <2> DEFINE i == Identified(tab[t])
  <2>1. CASE ~Current(tab[t])
    <3>1. Settled(i)
      BY <2>1, IdentifiedIsTended
    <3> HIDE DEF i
    <3>2. EndsWell(i, k, FALSE)
      BY <3>1 DEF EndsWell
    <3> QED BY <1>0, <1>2, <3>2, LeaveIsTended DEF i
  <2>2. CASE Current(tab[t]) /\ k \in tab[t].stale
    <3>0. control.gen \in Int
      BY DEF Shape
    <3>1. i = [tab[t] EXCEPT !.gen = control.gen]
      BY <2>2 DEF Identified, Current
    <3>2. i.stale = tab[t].stale
      BY <1>0, <3>0, <3>1 DEF TabRecord
    <3>3. i \in TabRecord /\ Tended(i)
      BY <1>0
    <3>4. Leave(t, k, i, FALSE)
      BY <1>2
    <3> HIDE DEF i
    <3>5. EndsWell(i, k, FALSE)
      <4>1. k \in i.stale
        BY <2>2, <3>2
      <4>2. "check" \in i.stale => Settled(i) \/ Signing(i)
        BY <3>3 DEF Tended
      <4>3. "user" \in i.stale => Overtaken(i, "user")
        BY DEF Overtaken
      <4> QED BY <4>1, <4>2, <4>3 DEF EndsWell
    <3> QED BY <1>0, <3>3, <3>4, <3>5, LeaveIsTended
  <2> QED BY <1>2, <2>1, <2>2
<1>3. CASE Leave(t, k, Blocked(tab[t], TRUE), FALSE)
  BY <1>0, <1>3, LeavesBlocked
<1>4. CASE Leave(t, k, LoadFailed(tab[t]), FALSE)
  <2> DEFINE l == LoadFailed(tab[t])
  <2>1. l \in TabRecord
    BY <1>0, LoadFailedIs DEF ShowsNoMore
  <2>2. Settled(l) /\ Tended(l)
    BY <1>0, LoadFailedIsTended
  <2> HIDE DEF l
  <2>3. EndsWell(l, k, FALSE)
    BY <2>2 DEF EndsWell
  <2> QED BY <1>0, <1>4, <2>1, <2>2, <2>3, LeaveIsTended DEF l
<1> QED BY <1>1, <1>2, <1>3, <1>4

LEMMA CheckTends ==
    ASSUME Shape, TendedInv, NEW t \in Tabs, CheckEnter(t) \/ SessionAnswer(t)
    PROVE  TendedInv'
<1>0. /\ tab[t] \in TabRecord /\ Tended(tab[t]) /\ Identified(tab[t]) \in TabRecord
      /\ Tended(Identified(tab[t])) /\ CheckRuns(Identified(tab[t]))
  BY PageIs
<1>1. CASE CheckEnter(t)
  <2>1. CASE Overtaken(tab[t], "check")
    BY <1>1, <2>1, FailsWell DEF CheckEnter
  <2>2. CASE ~Current(tab[t]) /\ ~Overtaken(tab[t], "check")
    BY <1>1, <2>2, FailsWell DEF CheckEnter
  <2>3. CASE Current(tab[t]) /\ ~Overtaken(tab[t], "check")
    <3> DEFINE i == Identified(tab[t])
    <3>1. Go(t, "check", i, "who")
      BY <1>1, <2>3 DEF CheckEnter
    <3>2. "check" \notin i.stale
      <4>1. i = [tab[t] EXCEPT !.gen = control.gen]
        BY <2>3 DEF Identified, Current
      <4> QED BY <1>0, <2>3, <4>1 DEF Overtaken, TabRecord
    <3>3. i \in TabRecord /\ Tended(i) /\ CheckRuns(i)
      BY <1>0
    <3> HIDE DEF i
    <3> QED BY <3>1, <3>2, <3>3, GoIsTended DEF Steps
  <2> QED BY <2>1, <2>2, <2>3
<1>2. CASE SessionAnswer(t)
  <2>1. Settled(tab[t]) \/ Signing(tab[t])
    BY <1>0, <1>2 DEF SessionAnswer, Holds, Tended
  <2>2. CASE Leave(t, "check", Identified(tab[t]), FALSE)
    <3> DEFINE i == Identified(tab[t])
    <3>1. Settled(i) \/ Signing(i)
      BY <2>1, IdentifiedIsTended
    <3>2. i \in TabRecord /\ Tended(i) /\ Leave(t, "check", i, FALSE)
      BY <1>0, <2>2
    <3> HIDE DEF i
    <3>3. EndsWell(i, "check", FALSE)
      BY <3>1 DEF EndsWell
    <3> QED BY <3>2, <3>3, LeaveIsTended DEF Kinds
  <2>3. CASE Leave(t, "check", Blocked(Identified(tab[t]), TRUE), FALSE)
    BY <1>0, <2>3, LeavesBlocked DEF Kinds
  <2> QED BY <1>2, <2>2, <2>3 DEF SessionAnswer
<1> QED BY <1>1, <1>2

\* The answers under the lock, the feed and the copy.
LEMMA AnswerTends ==
    ASSUME Shape, TendedInv, NEW t \in Tabs, NEW k \in {"check", "user"},
           WhoAmI(t, k) \/ Feed(t, k) \/ Save(t, k)
    PROVE  TendedInv'
<1> DEFINE i == Identified(tab[t])
<1>0. /\ tab[t] \in TabRecord /\ Tended(tab[t]) /\ CheckRuns(tab[t])
      /\ i \in TabRecord /\ Tended(i) /\ CheckRuns(i) /\ k \in Kinds
  BY PageIs DEF Kinds
<1>1. ASSUME NEW p \in {"feed", "save", "grant"}, NEW r \in TabRecord, Tended(r), Go(t, k, r, p),
             "check" \notin r.stale \/ k = "user" \/ Settled(r)
      PROVE  TendedInv'
  <2>1. CheckRuns(r)
    BY <1>1 DEF Tended
  <2> QED BY <1>1, <2>1, GoIsTended DEF Steps
<1>2. CASE WhoAmI(t, k)
  <2>1. CASE Leave(t, k, tab[t], FALSE) /\ Overtaken(tab[t], k)
    BY <2>1, FailsWell
  <2>2. CASE Go(t, k, tab[t], "feed") /\ ~Overtaken(tab[t], k)
    BY <1>0, <1>1, <2>2 DEF Overtaken
  <2>3. CASE Leave(t, k, Blocked(tab[t], TRUE), FALSE) \/ Leave(t, k, LoadFailed(tab[t]), FALSE)
    BY <2>3, FailsWell
  <2> QED BY <1>2, <2>1, <2>2, <2>3 DEF WhoAmI
<1>3. ASSUME Current(tab[t]), k \notin tab[t].stale
      PROVE  "check" \notin i.stale \/ k = "user"
  <2>1. i = [tab[t] EXCEPT !.gen = control.gen]
    BY <1>3 DEF Identified, Current
  <2> QED BY <1>0, <1>3, <2>1 DEF TabRecord
<1>4. CASE Feed(t, k)
  <2>1. CASE Leave(t, k, tab[t], FALSE) /\ k \in tab[t].stale
    BY <2>1, FailsWell DEF Overtaken
  <2>2. CASE Leave(t, k, Blocked(tab[t], TRUE), FALSE) \/ Leave(t, k, LoadFailed(tab[t]), FALSE)
    BY <2>2, FailsWell
  <2>3. CASE Leave(t, k, [tab[t] EXCEPT !.write = "out"], FALSE)
    <3> DEFINE w == [tab[t] EXCEPT !.write = "out"]
    <3>1. w \in TabRecord /\ w.write = "out" /\ w.pc = tab[t].pc /\ w.stale = tab[t].stale
      BY <1>0 DEF TabRecord
    <3>2. Leave(t, k, w, FALSE)
      BY <2>3
    <3> HIDE DEF w
    <3>3. Settled(w) /\ CheckRuns(w)
      BY <1>0, <3>1 DEF Settled, CheckRuns
    <3>4. Tended(w) /\ EndsWell(w, k, FALSE)
      BY <3>3 DEF Tended, EndsWell
    <3> QED BY <1>0, <3>1, <3>2, <3>4, LeaveIsTended
  <2>4. CASE Leave(t, k, [tab[t] EXCEPT !.view = "locked", !.auth = FALSE], FALSE)
    <3> DEFINE w == [tab[t] EXCEPT !.view = "locked", !.auth = FALSE]
    <3>1. w \in TabRecord /\ w.view = "locked" /\ w.pc = tab[t].pc /\ w.stale = tab[t].stale
      BY <1>0 DEF TabRecord
    <3>2. Leave(t, k, w, FALSE)
      BY <2>4
    <3> HIDE DEF w
    <3>3. Settled(w) /\ CheckRuns(w)
      BY <1>0, <3>1 DEF Settled, CheckRuns
    <3>4. Tended(w) /\ EndsWell(w, k, FALSE)
      BY <3>3 DEF Tended, EndsWell
    <3> QED BY <1>0, <3>1, <3>2, <3>4, LeaveIsTended
  <2>5. CASE Leave(t, k, i, FALSE) /\ ~Current(tab[t])
    BY <2>5, FailsWell
  <2>6. CASE /\ Current(tab[t]) /\ k \notin tab[t].stale
             /\ Go(t, k, [i EXCEPT !.view = "shown"], "save")
    <3> DEFINE s == [i EXCEPT !.view = "shown"]
    <3>0. "check" \notin i.stale \/ k = "user"
      BY <1>3, <2>6
    <3>1. Go(t, k, s, "save")
      BY <2>6
    <3> HIDE DEF i
    <3>2. s \in TabRecord /\ s.pc = i.pc /\ s.stale = i.stale
      BY <1>0 DEF TabRecord
    <3> HIDE DEF s
    <3>3. CheckRuns(s)
      BY <1>0, <3>2 DEF CheckRuns
    <3>4. tab' = [tab EXCEPT ![t] = [s EXCEPT !.pc[k] = "save"]]
      BY <3>1 DEF Go
    <3> DEFINE pc == [s.pc EXCEPT ![k] = "save"]
               g == [s EXCEPT !.pc = pc]
    <3>5. pc[k] = "save" /\ (k # "check" => pc["check"] = s.pc["check"])
      BY <3>2 DEF TabRecord, Kinds
    <3>6. tab' = [tab EXCEPT ![t] = g]
      BY <3>4
    <3> HIDE DEF pc
    <3>7. g.pc = pc /\ g.stale = s.stale
      BY <3>2 DEF TabRecord
    <3> HIDE DEF g
    <3>8. Tended(g)
      <4>1. CheckRuns(g)
        BY <3>3, <3>5, <3>7 DEF CheckRuns
      <4>2. CASE k = "user"
        BY <3>5, <3>7, <4>1, <4>2 DEF Tended, Signing
      <4>3. CASE k = "check"
        BY <3>0, <3>2, <3>5, <3>7, <4>1, <4>3 DEF Tended
      <4> QED BY <4>2, <4>3
    <3> QED BY <3>6, <3>8, TendedStep
  <2> QED BY <1>4, <2>1, <2>2, <2>3, <2>4, <2>5, <2>6 DEF Feed, Current
<1>5. CASE Save(t, k)
  <2>1. CASE Go(t, k, i, "grant") /\ Current(tab[t]) /\ k \notin tab[t].stale
    <3>1. "check" \notin i.stale \/ k = "user"
      BY <1>3, <2>1
    <3> HIDE DEF i
    <3> QED BY <1>0, <1>1, <2>1, <3>1
  <2>2. CASE Leave(t, k, i, FALSE) /\ (~Current(tab[t]) \/ k \in tab[t].stale)
    BY <2>2, FailsWell
  <2> QED BY <1>5, <2>1, <2>2 DEF Save
<1> QED BY <1>2, <1>4, <1>5

LEMMA GrantTends ==
    ASSUME Shape, TendedInv, NEW t \in Tabs, NEW k \in {"check", "user"}, Grant(t, k) \/ Done(t, k)
    PROVE  TendedInv'
<1>0. tab[t] \in TabRecord /\ Tended(tab[t]) /\ CheckRuns(tab[t]) /\ k \in Kinds
  BY PageIs DEF Kinds
<1>1. CASE Grant(t, k)
  <2> DEFINE r == [tab[t] EXCEPT !.auth = TRUE]
  <2>1. r \in TabRecord /\ r.auth /\ r.pc = tab[t].pc /\ r.stale = tab[t].stale
    BY <1>0 DEF TabRecord
  <2>2. Go(t, k, r, "open")
    BY <1>1 DEF Grant
  <2> HIDE DEF r
  <2>3. Settled(r) /\ CheckRuns(r)
    BY <1>0, <2>1 DEF Settled, CheckRuns
  <2> QED BY <2>1, <2>2, <2>3, GoIsTended DEF Steps
<1>2. CASE Done(t, k)
  <2>1. tab[t].pc[k] = "open" /\ Leave(t, k, tab[t], TRUE)
    BY <1>2 DEF Done, Holds
  <2>2. EndsWell(tab[t], k, TRUE)
    BY <1>0, <2>1 DEF EndsWell, Tended, Signing
  <2> QED BY <1>0, <2>1, <2>2, LeaveIsTended
<1> QED BY <1>1, <1>2

LEMMA SignInTends ==
    ASSUME Shape, TendedInv, NEW t \in Tabs,
           SignInEnter(t) \/ SignInRevoke(t) \/ SignInClear(t) \/ SignInPost(t)
    PROVE  TendedInv'
<1>0. tab[t] \in TabRecord /\ Tended(tab[t]) /\ CheckRuns(tab[t]) /\ "user" \in Kinds
  BY PageIs DEF Kinds
<1>1. ~Signing(tab[t])
  BY DEF SignInEnter, SignInRevoke, SignInClear, SignInPost, Holds, Signing
<1>2. CASE Leave(t, "user", tab[t], TRUE) \/ Leave(t, "user", tab[t], FALSE)
  BY <1>0, <1>1, <1>2, LeaveIsTended DEF EndsWell
<1>3. CASE Go(t, "user", tab[t], "revoke") \/ Go(t, "user", tab[t], "clear")
  BY <1>0, <1>1, <1>3, GoIsTended DEF Steps
<1>4. CASE Go(t, "user", [tab[t] EXCEPT !.before = control.gen + 1], "post")
  <2> DEFINE r == [tab[t] EXCEPT !.before = control.gen + 1]
  <2>0. control.gen + 1 \in Int
    BY DEF Shape
  <2>1. /\ r \in TabRecord /\ r.pc = tab[t].pc /\ r.stale = tab[t].stale /\ r.open = tab[t].open
        /\ r.blocked = tab[t].blocked /\ r.view = tab[t].view /\ r.auth = tab[t].auth
        /\ r.timer = tab[t].timer /\ r.write = tab[t].write
    BY <1>0, <2>0 DEF TabRecord
  <2>2. Go(t, "user", r, "post")
    BY <1>4
  <2> HIDE DEF r
  <2>3. (Settled(r) <=> Settled(tab[t])) /\ (Signing(r) <=> Signing(tab[t])) /\ CheckRuns(r)
    BY <1>0, <2>1 DEF Settled, Signing, CheckRuns
  <2>4. Tended(r)
    BY <1>0, <2>1, <2>3 DEF Tended
  <2> QED BY <1>0, <1>1, <2>1, <2>2, <2>3, <2>4, GoIsTended DEF Steps
<1>5. CASE Go(t, "user", [tab[t] EXCEPT !.gen = control.gen, !.blocked = FALSE], "who")
  <2> DEFINE r == [tab[t] EXCEPT !.gen = control.gen, !.blocked = FALSE]
  <2>0. control.gen \in Int
    BY DEF Shape
  <2>1. r \in TabRecord /\ r.pc = tab[t].pc /\ r.stale = tab[t].stale
    BY <1>0, <2>0 DEF TabRecord
  <2>2. Go(t, "user", r, "who")
    BY <1>5
  <2> HIDE DEF r
  <2>3. CheckRuns(r)
    BY <1>0, <2>1 DEF CheckRuns
  <2> QED BY <2>1, <2>2, <2>3, GoIsTended DEF Steps
<1>6. CASE Leave(t, "user", Blocked(tab[t], TRUE), FALSE) \/ Leave(t, "user", Blocked(tab[t], FALSE), FALSE)
  BY <1>0, <1>6, LeavesBlocked
<1> QED BY <1>2, <1>3, <1>4, <1>5, <1>6 DEF SignInEnter, SignInRevoke, SignInClear, SignInPost

LEMMA SignOutTends ==
    ASSUME Shape, TendedInv, NEW t \in Tabs, NEW k \in {"user", "retry"}, NEW p \in {"out", "late"},
           \/ \E opsWait \in BOOLEAN : SignOut(t, opsWait)
           \/ SignOutHeld(t) \/ SignOutMark(t)
           \/ ServerSignOut(t, k, p)
    PROVE  TendedInv'
<1>0. tab[t] \in TabRecord /\ Tended(tab[t]) /\ CheckRuns(tab[t]) /\ k \in Kinds
  BY PageIs DEF Kinds
<1>1. CASE \E opsWait \in BOOLEAN : SignOut(t, opsWait)
  <2> PICK opsWait \in BOOLEAN : SignOut(t, opsWait)
    BY <1>1
  <2> DEFINE pc == [tab[t].pc EXCEPT !["user"] = IF opsWait THEN "hold" ELSE "mark"]
             r == [tab[t] EXCEPT !.timer = FALSE, !.blocked = TRUE, !.auth = FALSE, !.pc = pc]
  <2>1. tab' = [tab EXCEPT ![t] = r]
    BY DEF SignOut
  <2>2. pc["check"] = tab[t].pc["check"]
    BY <1>0 DEF TabRecord, Kinds
  <2> HIDE DEF pc
  <2>3. r.blocked /\ r.pc = pc /\ r.stale = tab[t].stale
    BY <1>0 DEF TabRecord
  <2> HIDE DEF r
  <2>4. Tended(r)
    BY <1>0, <2>2, <2>3 DEF Tended, CheckRuns, Settled
  <2> QED BY <2>1, <2>4, TendedStep
<1>2. CASE SignOutHeld(t)
  <2> DEFINE pc == [tab[t].pc EXCEPT !["user"] = "mark"]
             r == [tab[t] EXCEPT !.pc = pc]
  <2>1. tab' = [tab EXCEPT ![t] = r]
    BY <1>2 DEF SignOutHeld
  <2>2. pc["check"] = tab[t].pc["check"]
    BY <1>0 DEF TabRecord, Kinds
  <2> HIDE DEF pc
  <2>3. /\ r.pc = pc /\ r.stale = tab[t].stale /\ r.open = tab[t].open
        /\ r.blocked = tab[t].blocked /\ r.view = tab[t].view /\ r.auth = tab[t].auth
        /\ r.timer = tab[t].timer /\ r.write = tab[t].write
    BY <1>0 DEF TabRecord
  <2> HIDE DEF r
  <2>4. ~Signing(tab[t])
    BY <1>2 DEF SignOutHeld, Signing
  <2>5. Settled(r) <=> Settled(tab[t])
    BY <2>3 DEF Settled
  <2>6. Tended(r)
    BY <1>0, <2>2, <2>3, <2>4, <2>5 DEF Tended, CheckRuns
  <2> QED BY <2>1, <2>6, TendedStep
<1>3. CASE SignOutMark(t)
  <2> DEFINE b == Blocked(tab[t], FALSE)
             pc == [b.pc EXCEPT !["user"] = "out"]
             r == [b EXCEPT !.gen = NoGeneration, !.pc = pc]
  <2>1. tab' = [tab EXCEPT ![t] = r]
    BY <1>3 DEF SignOutMark
  <2>2. b \in TabRecord /\ b.view = "locked" /\ Tended(b)
    BY <1>0, BlockedIs, BlockedIsTended
  <2> HIDE DEF b
  <2>3. pc["check"] = b.pc["check"]
    BY <2>2 DEF TabRecord, Kinds
  <2> HIDE DEF pc
  <2>4. r.pc = pc /\ r.stale = b.stale /\ r.view = "locked"
    BY <2>2 DEF TabRecord
  <2> HIDE DEF r
  <2>5. Tended(r)
    BY <2>2, <2>3, <2>4 DEF Tended, CheckRuns, Settled
  <2> QED BY <2>1, <2>5, TendedStep
<1>4. CASE ServerSignOut(t, k, p)
  <2>1. tab[t].pc[k] = p /\ Leave(t, k, tab[t], TRUE)
    BY <1>4 DEF ServerSignOut, Holds
  <2>2. EndsWell(tab[t], k, TRUE)
    BY <2>1 DEF EndsWell, Signing
  <2> QED BY <1>0, <2>1, <2>2, LeaveIsTended
<1> QED BY <1>1, <1>2, <1>3, <1>4

\* A page that asks for a check, a sign-in, or hears of one.
LEMMA AskTends ==
    ASSUME Shape, TendedInv, NEW t \in Tabs,
           SessionCheck(t) \/ SignIn(t) \/ HearSignIn(t) \/ Recheck(t)
    PROVE  TendedInv'
<1>0. tab[t] \in TabRecord /\ Tended(tab[t]) /\ CheckRuns(tab[t])
  BY PageIs
<1>1. CASE SessionCheck(t)
  <2>1. CASE tab' = [tab EXCEPT ![t] = Blocked(@, TRUE)]
    BY <1>0, <2>1, BlockedIsTended, TendedStep
  <2>2. CASE tab' = [tab EXCEPT ![t].pc.check = "session"]
    <3> DEFINE pc == [tab[t].pc EXCEPT !["check"] = "session"]
               r == [tab[t] EXCEPT !.pc = pc]
    <3>1. tab' = [tab EXCEPT ![t] = r]
      BY <2>2
    <3>2. pc["check"] = "session" /\ pc["user"] = tab[t].pc["user"]
      BY <1>0 DEF TabRecord, Kinds
    <3> HIDE DEF pc
    <3>3. /\ r.pc = pc /\ r.stale = tab[t].stale /\ r.open = tab[t].open
          /\ r.blocked = tab[t].blocked /\ r.view = tab[t].view /\ r.auth = tab[t].auth
          /\ r.timer = tab[t].timer /\ r.write = tab[t].write
      BY <1>0 DEF TabRecord
    <3> HIDE DEF r
    <3>4. Settled(tab[t]) \/ Signing(tab[t])
      BY <1>0, <1>1 DEF SessionCheck, Tended
    <3>5. Settled(r) \/ Signing(r)
      BY <3>2, <3>3, <3>4 DEF Settled, Signing
    <3>6. Tended(r)
      BY <3>2, <3>3, <3>5 DEF Tended, CheckRuns
    <3> QED BY <3>1, <3>6, TendedStep
  <2> QED BY <1>1, <2>1, <2>2 DEF SessionCheck
<1>2. CASE SignIn(t)
  <2> DEFINE pc == [tab[t].pc EXCEPT !["user"] = "in"]
             r == [tab[t] EXCEPT !.timer = FALSE, !.auth = FALSE, !.pc = pc,
                                 !.token = MaxSignIns - left.signIns + 2]
  <2>1. tab' = [tab EXCEPT ![t] = r] /\ tab[t].view = "locked"
    BY <1>2 DEF SignIn
  <2>2. pc["check"] = tab[t].pc["check"]
    BY <1>0 DEF TabRecord, Kinds
  <2> HIDE DEF pc
  <2>3. r.pc = pc /\ r.stale = tab[t].stale /\ r.view = tab[t].view
    BY <1>0 DEF TabRecord
  <2> HIDE DEF r
  <2>4. Tended(r)
    BY <1>0, <2>1, <2>2, <2>3 DEF Tended, CheckRuns, Settled
  <2> QED BY <2>1, <2>4, TendedStep
<1>3. CASE HearSignIn(t)
  <2>1. CASE UNCHANGED tab
    BY <2>1 DEF TendedInv, Tended, CheckRuns, Settled, Signing
  <2>2. CASE tab' = [tab EXCEPT ![t] =
                       Checking([tab[t] EXCEPT !.blocked = FALSE, !.gen = control.gen], FALSE)]
    <3> DEFINE r == [tab[t] EXCEPT !.blocked = FALSE, !.gen = control.gen]
    <3>1. control.gen \in Int /\ tab[t].pc["check"] = "idle"
      BY <1>3 DEF HearSignIn, Shape
    <3>2. r \in TabRecord /\ r.pc = tab[t].pc /\ r.stale = tab[t].stale
      BY <1>0, <3>1 DEF TabRecord
    <3>3. tab' = [tab EXCEPT ![t] = Checking(r, FALSE)]
      BY <2>2
    <3> HIDE DEF r
    <3>4. CheckRuns(r)
      BY <1>0, <3>2 DEF CheckRuns
    <3>5. Tended(Checking(r, FALSE))
      BY <3>1, <3>2, <3>4, CheckingIsTended
    <3> QED BY <3>3, <3>5, TendedStep
  <2> QED BY <1>3, <2>1, <2>2 DEF HearSignIn
<1>4. CASE Recheck(t)
  <2>1. tab[t].timer \in BOOLEAN /\ tab[t].pc["check"] = "idle"
        /\ tab' = [tab EXCEPT ![t] = Checking(tab[t], tab[t].timer)]
    BY <1>0, <1>4 DEF Recheck, TabRecord
  <2>2. Tended(Checking(tab[t], tab[t].timer))
    BY <1>0, <2>1, CheckingIsTended
  <2> QED BY <2>1, <2>2, TendedStep
<1> QED BY <1>1, <1>2, <1>3, <1>4

LEMMA RetryingIsTended ==
    ASSUME NEW r \in TabRecord, Settled(r), CheckRuns(r)
    PROVE  Tended(Retrying(r))
<1>1. CASE Retrying(r) = r
  BY <1>1, SettledIsTended
<1>2. CASE Retrying(r) = [r EXCEPT !.pc.retry = "late"]
  <2> DEFINE pc == [r.pc EXCEPT !["retry"] = "late"]
             s == [r EXCEPT !.pc = pc]
  <2>1. Retrying(r) = s
    BY <1>2
  <2>2. pc["check"] = r.pc["check"]
    BY DEF TabRecord, Kinds
  <2> HIDE DEF pc
  <2>3. /\ s.pc = pc /\ s.stale = r.stale /\ s.open = r.open /\ s.blocked = r.blocked
        /\ s.view = r.view /\ s.auth = r.auth /\ s.timer = r.timer /\ s.write = r.write
    BY DEF TabRecord
  <2> HIDE DEF s
  <2>4. Settled(s) /\ CheckRuns(s)
    BY <2>2, <2>3 DEF Settled, CheckRuns
  <2> QED BY <2>1, <2>4, SettledIsTended
<1> QED BY <1>1, <1>2 DEF Retrying

LEMMA PageTends ==
    ASSUME Shape, TendedInv, NEW t \in Tabs, Hint(t) \/ ClearLands(t) \/ Open(t) \/ Close(t)
    PROVE  TendedInv'
<1>0. tab[t] \in TabRecord /\ Tended(tab[t]) /\ CheckRuns(tab[t]) /\ control.gen \in Int
  BY PageIs DEF Shape
<1>1. CASE Hint(t)
  <2> DEFINE b == Blocked(tab[t], FALSE)
  <2>1. \/ UNCHANGED tab \/ tab' = [tab EXCEPT ![t] = b] \/ tab' = [tab EXCEPT ![t] = Retrying(b)]
    BY <1>1 DEF Hint
  <2>2. b \in TabRecord /\ Settled(b) /\ Tended(b)
    BY <1>0, BlockedIs, BlockedIsTended
  <2> HIDE DEF b
  <2>3. Tended(Retrying(b))
    BY <2>2, RetryingIsTended DEF Tended
  <2>4. CASE UNCHANGED tab
    BY <2>4 DEF TendedInv, Tended, CheckRuns, Settled, Signing
  <2> QED BY <2>1, <2>2, <2>3, <2>4, TendedStep
<1>2. CASE ClearLands(t)
  <2> DEFINE r == [tab[t] EXCEPT !.clearing = FALSE]
  <2>1. tab' = [tab EXCEPT ![t] = r]
    BY <1>2 DEF ClearLands
  <2>2. /\ r.pc = tab[t].pc /\ r.stale = tab[t].stale /\ r.open = tab[t].open
        /\ r.blocked = tab[t].blocked /\ r.view = tab[t].view /\ r.auth = tab[t].auth
        /\ r.timer = tab[t].timer /\ r.write = tab[t].write
    BY <1>0 DEF TabRecord
  <2> HIDE DEF r
  <2>3. Tended(r)
    BY <1>0, <2>2 DEF Tended, CheckRuns, Settled, Signing
  <2> QED BY <2>1, <2>3, TendedStep
<1>3. CASE Open(t)
  <2> DEFINE c == Closed
             r == [c EXCEPT !.open = TRUE]
             out == [r EXCEPT !.blocked = TRUE, !.view = "locked"]
             in == [r EXCEPT !.gen = control.gen, !.view = IF saved THEN "saved" ELSE "none"]
  <2>1. \/ tab' = [tab EXCEPT ![t] = Checking(in, FALSE)] \/ tab' = [tab EXCEPT ![t] = Retrying(out)]
    BY <1>3 DEF Open
  <2>2. c \in TabRecord /\ c.stale = {} /\ c.pc["check"] = "idle"
    BY ClosedIs DEF Closed, Kinds
  <2> HIDE DEF c
  <2>3. r \in TabRecord /\ r.stale = {} /\ r.pc["check"] = "idle"
    BY <2>2 DEF TabRecord
  <2> HIDE DEF r
  <2>4. /\ out \in TabRecord /\ out.stale = {} /\ out.blocked
        /\ in \in TabRecord /\ in.stale = {} /\ in.pc["check"] = "idle"
    BY <1>0, <2>3 DEF TabRecord
  <2> HIDE DEF out, in
  <2>5. Tended(Checking(in, FALSE))
    BY <2>4, CheckingIsTended DEF CheckRuns
  <2>6. Tended(Retrying(out))
    BY <2>4, RetryingIsTended DEF CheckRuns, Settled
  <2> QED BY <2>1, <2>5, <2>6, TendedStep
<1>4. CASE Close(t)
  <2>1. tab' = [tab EXCEPT ![t] = Closed]
    BY <1>4 DEF Close
  <2>2. ~Closed.open /\ Closed.stale = {}
    BY DEF Closed
  <2>3. Tended(Closed)
    BY <2>2 DEF Tended, CheckRuns, Settled
  <2> QED BY <2>1, <2>3, TendedStep
<1> QED BY <1>1, <1>2, <1>3, <1>4

LEMMA NextTends ==
    ASSUME Shape, TendedInv, [Next]_vars
    PROVE  TendedInv'
<1>1. ASSUME NEW t \in Tabs, Task(t)
      PROVE  TendedInv'
  <2>1. ASSUME NEW k \in {"check", "user"},
               WhoAmI(t, k) \/ Feed(t, k) \/ Save(t, k) \/ Grant(t, k) \/ Done(t, k)
        PROVE  TendedInv'
    BY <2>1, AnswerTends, GrantTends
  <2>2. CASE \/ CheckEnter(t) \/ SessionAnswer(t) \/ SignInEnter(t) \/ SignInRevoke(t)
             \/ SignInClear(t) \/ SignInPost(t)
    BY <2>2, CheckTends, SignInTends
  <2>3. CASE \/ SignOutHeld(t) \/ SignOutMark(t)
             \/ ServerSignOut(t, "user", "out") \/ ServerSignOut(t, "retry", "late")
    BY <2>3, SignOutTends
  <2> QED BY <1>1, <2>1, <2>2, <2>3 DEF Task
<1>2. ASSUME NEW t \in Tabs,
             \/ HearSignIn(t) \/ Hint(t) \/ ClearLands(t) \/ TimerFires(t)
             \/ Open(t) \/ Close(t) \/ Recheck(t) \/ SessionCheck(t) \/ SignIn(t)
      PROVE  TendedInv'
  BY <1>2, AskTends, PageTends DEF TimerFires
<1>3. ASSUME NEW t \in Tabs, NEW opsWait \in BOOLEAN, SignOut(t, opsWait)
      PROVE  TendedInv'
  BY <1>3, SignOutTends
<1>4. CASE UNCHANGED tab
  BY <1>4 DEF TendedInv, Tended, CheckRuns, Settled, Signing
<1> QED BY <1>1, <1>2, <1>3, <1>4 DEF Next, Revoke, vars

\* However checks, sign-ins and sign-outs overtake each other in a tab, and
\* whichever answers are lost, its page is not left waiting for a check that
\* nobody will make.
THEOREM NobodyIsStranded == Spec => []NeverStranded
<1>1. Init => TendedInv
  BY DEF Init, TendedInv, Closed, Tended, CheckRuns, Settled
<1>2. SessionInv /\ TendedInv /\ [Next]_vars => TendedInv'
  BY NextTends DEF SessionInv
<1>3. TendedInv => NeverStranded
  BY DEF TendedInv, Tended, Settled, Signing, NeverStranded, OpenTabs
<1> QED BY <1>1, <1>2, <1>3, SessionInvariant, PTL DEF Spec

-----------------------------------------------------------------------------
(* The records keep their shape, and the tasks that wait in the line of    *)
(* the session lock are those that asked for it, each once.                *)

Waits(r, k) == r.pc[k] \in Locked[k]
LineInv ==
    /\ lock \in Seq(Tabs \X Kinds)
    /\ NoRepeat(lock)
    /\ \A t \in Tabs, k \in Kinds :
          /\ tab[t].pc[k] \in {"idle", "hold", "mark"} \cup Locked[k]
          /\ Contains(lock, <<t, k>>) <=> Waits(tab[t], k)

LEMMA TailKeepsLine ==
    ASSUME NEW A, NEW q \in Seq(A), NoRepeat(q), q # <<>>
    PROVE  /\ Tail(q) \in Seq(A) /\ NoRepeat(Tail(q))
           /\ \A e : Contains(Tail(q), e) <=> Contains(q, e) /\ e # Head(q)
<1> DEFINE s == Tail(q)
<1>1. /\ Len(q) \in Nat /\ Len(q) >= 1 /\ s \in Seq(A) /\ Len(s) = Len(q) - 1 /\ Head(q) = q[1]
      /\ \A i \in 1..Len(s) : s[i] = q[i + 1]
  OBVIOUS
<1> HIDE DEF s
<1>2. NoRepeat(s)
  BY <1>1 DEF NoRepeat
<1>3. ASSUME NEW e
      PROVE  Contains(s, e) <=> Contains(q, e) /\ e # Head(q)
  <2>1. ASSUME Contains(s, e)
        PROVE  Contains(q, e) /\ e # Head(q)
    <3>1. PICK i \in 1..Len(s) : s[i] = e
      BY <2>1 DEF Contains
    <3>2. i + 1 \in 1..Len(q) /\ q[i + 1] = e /\ 1 \in 1..Len(q) /\ i + 1 # 1
      BY <1>1, <3>1
    <3> QED BY <1>1, <3>2 DEF Contains, NoRepeat
  <2>2. ASSUME Contains(q, e), e # Head(q)
        PROVE  Contains(s, e)
    <3>1. PICK i \in 1..Len(q) : q[i] = e
      BY <2>2 DEF Contains
    <3>2. i - 1 \in 1..Len(s) /\ s[i - 1] = q[(i - 1) + 1] /\ (i - 1) + 1 = i
      BY <1>1, <2>2, <3>1
    <3> QED BY <3>1, <3>2 DEF Contains
  <2> QED BY <2>1, <2>2
<1> QED BY <1>1, <1>2, <1>3 DEF s

LEMMA AppendKeepsLine ==
    ASSUME NEW A, NEW q \in Seq(A), NoRepeat(q), NEW a \in A, ~Contains(q, a)
    PROVE  /\ Append(q, a) \in Seq(A) /\ NoRepeat(Append(q, a))
           /\ \A e : Contains(Append(q, a), e) <=> Contains(q, e) \/ e = a
<1> DEFINE s == Append(q, a)
<1>1. /\ Len(q) \in Nat /\ s \in Seq(A) /\ Len(s) = Len(q) + 1 /\ s[Len(q) + 1] = a
      /\ \A i \in 1..Len(q) : s[i] = q[i]
  OBVIOUS
<1> HIDE DEF s
<1>2. NoRepeat(s)
  <2>1. \A i \in 1..Len(q) : q[i] # a
    BY DEF Contains
  <2>2. \A i \in 1..Len(s) : i \in 1..Len(q) \/ i = Len(q) + 1
    BY <1>1
  <2> QED BY <1>1, <2>1, <2>2 DEF NoRepeat
<1>3. ASSUME NEW e
      PROVE  Contains(s, e) <=> Contains(q, e) \/ e = a
  <2>1. \A i \in 1..Len(s) : i \in 1..Len(q) \/ i = Len(q) + 1
    BY <1>1
  <2>2. Len(q) + 1 \in 1..Len(s) /\ \A i \in 1..Len(q) : i \in 1..Len(s)
    BY <1>1
  <2> QED BY <1>1, <2>1, <2>2 DEF Contains
<1> QED BY <1>1, <1>2, <1>3 DEF s

LEMMA PickedKeepsLine ==
    ASSUME NEW A, NEW q \in Seq(A), NoRepeat(q), NEW places \in SUBSET DOMAIN q
    PROVE  /\ Picked(q, places) \in Seq(A) /\ NoRepeat(Picked(q, places))
           /\ \A e : Contains(Picked(q, places), e) <=> \E i \in places : q[i] = e
<1> DEFINE p == Picked(q, places)
<1>1. /\ p \in Seq(A)
      /\ \A k \in 1..Len(p) : Nth(places, k) \in places /\ p[k] = q[Nth(places, k)]
      /\ \A i \in places : Rank(places, i) \in 1..Len(p) /\ p[Rank(places, i)] = q[i]
  BY PickedElements
<1>2. NoRepeat(p)
  BY PickedNoRepeat
<1> HIDE DEF p
<1>3. \A e : Contains(p, e) <=> \E i \in places : q[i] = e
  BY <1>1 DEF Contains
<1> QED BY <1>1, <1>2, <1>3 DEF p

\* One task of one tab goes from one step to another, perhaps to the same.
Moves(t, k, p) ==
    \A u \in Tabs : tab'[u].pc = IF u = t THEN [tab[u].pc EXCEPT ![k] = p] ELSE tab[u].pc

LEMMA LineMoves ==
    ASSUME Shape, LineInv, NEW t \in Tabs, NEW k \in Kinds,
           NEW p \in {"idle", "hold", "mark"} \cup Locked[k], Moves(t, k, p),
           \/ lock' = lock /\ (p \in Locked[k] <=> Waits(tab[t], k))
           \/ lock' = Append(lock, <<t, k>>) /\ p \in Locked[k] /\ ~Waits(tab[t], k)
           \/ lock # <<>> /\ Head(lock) = <<t, k>> /\ lock' = Tail(lock) /\ p \notin Locked[k]
    PROVE  LineInv'
<1> DEFINE e == <<t, k>>
<1>0. e \in Tabs \X Kinds
  OBVIOUS
<1>1. \A u \in Tabs, j \in Kinds : <<u, j>> = e <=> u = t /\ j = k
  OBVIOUS
<1>2. \A u \in Tabs, j \in Kinds :
         tab'[u].pc[j] = IF u = t /\ j = k THEN p ELSE tab[u].pc[j]
  <2> SUFFICES ASSUME NEW u \in Tabs, NEW j \in Kinds
               PROVE  tab'[u].pc[j] = IF u = t /\ j = k THEN p ELSE tab[u].pc[j]
    OBVIOUS
  <2>1. DOMAIN tab[u].pc = Kinds
    BY DEF Shape, TabRecord
  <2>2. tab'[u].pc = IF u = t THEN [tab[u].pc EXCEPT ![k] = p] ELSE tab[u].pc
    BY DEF Moves
  <2> QED BY <2>1, <2>2
<1>3. \A u \in Tabs, j \in Kinds : tab'[u].pc[j] \in {"idle", "hold", "mark"} \cup Locked[j]
  BY <1>2 DEF LineInv
<1>4. Contains(lock, e) <=> Waits(tab[t], k)
  BY DEF LineInv
<1>5. \/ lock' = lock /\ (p \in Locked[k] <=> Waits(tab[t], k))
      \/ lock' = Append(lock, e) /\ p \in Locked[k] /\ ~Waits(tab[t], k)
      \/ lock # <<>> /\ Head(lock) = e /\ lock' = Tail(lock) /\ p \notin Locked[k]
  OBVIOUS
<1> HIDE DEF e
<1>6. /\ lock' \in Seq(Tabs \X Kinds) /\ NoRepeat(lock')
      /\ \A d : d # e => (Contains(lock', d) <=> Contains(lock, d))
      /\ Contains(lock', e) <=> p \in Locked[k]
  <2>0. lock \in Seq(Tabs \X Kinds) /\ NoRepeat(lock)
    BY DEF LineInv
  <2>1. CASE lock' = lock /\ (p \in Locked[k] <=> Waits(tab[t], k))
    BY <1>4, <2>0, <2>1
  <2>2. CASE lock' = Append(lock, e) /\ p \in Locked[k] /\ ~Waits(tab[t], k)
    BY <1>0, <1>4, <2>0, <2>2, AppendKeepsLine
  <2>3. CASE lock # <<>> /\ Head(lock) = e /\ lock' = Tail(lock) /\ p \notin Locked[k]
    BY <2>0, <2>3, TailKeepsLine
  <2> QED BY <1>5, <2>1, <2>2, <2>3
<1>7. ASSUME NEW u \in Tabs, NEW j \in Kinds
      PROVE  Contains(lock', <<u, j>>) <=> tab'[u].pc[j] \in Locked[j]
  <2>1. CASE u = t /\ j = k
    BY <1>1, <1>2, <1>6, <2>1
  <2>2. CASE ~(u = t /\ j = k)
    <3> DEFINE d == <<u, j>>
    <3>1. d # e /\ (Contains(lock, d) <=> tab[u].pc[j] \in Locked[j])
      BY <1>1, <2>2 DEF LineInv, Waits
    <3> HIDE DEF d
    <3>2. Contains(lock', d) <=> tab[u].pc[j] \in Locked[j]
      BY <1>6, <3>1
    <3> QED BY <1>2, <2>2, <3>2 DEF d
  <2> QED BY <2>1, <2>2
<1>8. NoRepeat(lock)'
  BY <1>6 DEF NoRepeat
<1>9. ASSUME NEW u \in Tabs, NEW j \in Kinds
      PROVE  Contains(lock, <<u, j>>)' <=> Waits(tab[u], j)'
  BY <1>7 DEF Contains, Waits
<1> QED BY <1>3, <1>6, <1>8, <1>9 DEF LineInv

\* What the bounded fields of a page's record may be.  Nothing is left of a page
\* that was closed.
Fits(r) ==
    /\ r.gen <= control.gen
    /\ r.token <= MaxSignIns + 1
    /\ r.open \/ r = Closed
Counts ==
    /\ saved \in BOOLEAN
    /\ {cookie, kept} \cup valid \subseteq 0..(MaxSignIns + 1)
    /\ \A t \in Tabs : hints[t] \subseteq 1..control.gen /\ (hints[t] # {} => tab[t].open)
TypeInv == LineInv /\ Counts /\ \A t \in Tabs : Fits(tab[t])

\* What a step must give, that may have raised the generation by one.
TabsFit ==
    \A t \in Tabs : /\ tab'[t].gen <= control.gen
                    /\ tab'[t].token <= MaxSignIns + 1
                    /\ tab'[t].open \/ (tab'[t] = Closed /\ ~tab[t].open)

LEMMA TypesStay ==
    ASSUME SessionInv, SessionInv', TypeInv, LineInv', TabsFit, saved' \in {saved, TRUE, FALSE},
           NEW n \in 0..(MaxSignIns + 1), cookie' \in {cookie, NoToken, n},
           kept' \in {kept, NoToken, n}, valid' \subseteq (valid \cup {n}),
           \/ /\ control'.gen = control.gen
              /\ \A t \in Tabs : hints'[t] \subseteq hints[t]
           \/ /\ control'.gen = control.gen + 1
              /\ \A t \in Tabs : /\ hints'[t] \subseteq (hints[t] \cup {control.gen + 1})
                                 /\ tab[t].open \/ hints'[t] \subseteq hints[t]
    PROVE  TypeInv'
<1>1. control.gen \in Nat /\ MaxSignIns \in Nat
  BY SessionBounds DEF SessionInv, Shape
<1>2. \A t \in Tabs : hints[t] \subseteq 1..control.gen
  BY DEF TypeInv, Counts
<1>6. \A t \in Tabs : hints'[t] # {} => tab'[t].open
  <2>1. \A t \in Tabs : tab[t].open \/ hints'[t] \subseteq hints[t]
    OBVIOUS
  <2> QED BY <2>1 DEF TypeInv, Counts, TabsFit
<1>3. \A t \in Tabs : hints'[t] \subseteq 1..control'.gen
  <2>1. CASE control'.gen = control.gen /\ \A t \in Tabs : hints'[t] \subseteq hints[t]
    BY <1>2, <2>1
  <2>2. CASE /\ control'.gen = control.gen + 1
             /\ \A t \in Tabs : hints'[t] \subseteq (hints[t] \cup {control.gen + 1})
    <3>1. \A t \in Tabs : \A g \in hints'[t] : g \in 1..control.gen \/ g = control.gen + 1
      BY <1>2, <2>2
    <3>2. \A g \in 1..control.gen : g \in 1..(control.gen + 1)
      BY <1>1
    <3>3. control.gen + 1 \in 1..(control.gen + 1)
      BY <1>1
    <3> QED BY <2>2, <3>1, <3>2, <3>3
  <2> QED BY <2>1, <2>2
<1>4. saved' \in BOOLEAN /\ {cookie', kept'} \cup valid' \subseteq 0..(MaxSignIns + 1)
  <2>1. NoToken \in 0..(MaxSignIns + 1)
    BY <1>1 DEF NoToken
  <2> QED BY <2>1 DEF TypeInv, Counts
<1>5. ASSUME NEW t \in Tabs
      PROVE  Fits(tab[t])'
  <2>1. /\ tab'[t].gen <= control.gen /\ tab'[t].token <= MaxSignIns + 1
        /\ tab'[t].open \/ tab'[t] = Closed
    BY DEF TabsFit
  <2>2. CASE control'.gen = control.gen
    BY <2>1, <2>2 DEF Fits
  <2>3. tab'[t].gen \in Int
    BY DEF SessionInv, Shape, TabRecord
  <2>4. CASE control'.gen = control.gen + 1
    BY <1>1, <2>1, <2>3, <2>4 DEF Fits
  <2> QED BY <2>2, <2>4
<1> QED BY <1>3, <1>4, <1>5, <1>6 DEF TypeInv, Counts

\* The handles keep to the bounds.
LEMMA HandlesFit ==
    ASSUME Shape, NEW r \in TabRecord, Fits(r), r.open, NEW persist \in BOOLEAN
    PROVE  /\ Fits(Blocked(r, persist)) /\ Fits(Identified(r)) /\ Fits(LoadFailed(r))
           /\ Fits(Checking(r, persist)) /\ Fits(Retrying(r))
<1>0. control.gen \in Int /\ control.gen <= control.gen
  BY DEF Shape
<1>1. /\ Blocked(r, persist).gen = r.gen /\ Blocked(r, persist).token = r.token
      /\ Blocked(r, FALSE).gen = r.gen /\ Blocked(r, FALSE).token = r.token
      /\ LoadFailed(r).gen = r.gen /\ LoadFailed(r).token = r.token
      /\ Checking(r, persist).gen = r.gen /\ Checking(r, persist).token = r.token
      /\ Retrying(r).gen = r.gen /\ Retrying(r).token = r.token
      /\ Blocked(r, persist).open /\ Blocked(r, FALSE).open /\ LoadFailed(r).open
      /\ Checking(r, persist).open /\ Retrying(r).open
  BY DEF Blocked, LoadFailed, Checking, Retrying, TabRecord
<1>2. /\ [r EXCEPT !.gen = control.gen].gen = control.gen
      /\ [r EXCEPT !.gen = control.gen].token = r.token
      /\ [r EXCEPT !.gen = control.gen].open
  BY DEF TabRecord
<1>3. \/ Identified(r) = [r EXCEPT !.gen = control.gen] \/ Identified(r) = r
      \/ Identified(r) = Blocked(r, FALSE)
  BY DEF Identified, Current
<1> QED BY <1>0, <1>1, <1>2, <1>3 DEF Fits

LEMMA EndedFits ==
    ASSUME NEW r \in TabRecord, Fits(r), r.open, NEW k \in Kinds, NEW ok \in BOOLEAN
    PROVE  Fits(Ended(r, k, ok)) /\ Ended(r, k, ok).open
<1> DEFINE pc     == [r.pc EXCEPT ![k] = "idle"]
           stale  == r.stale \ {k}
           write  == IF r.write = "out" THEN "out" ELSE "none"
           before == IF k = "user" THEN NoGeneration ELSE r.before
           token  == IF k = "user" THEN NoToken ELSE r.token
           done   == [r EXCEPT !.pc = pc, !.stale = stale, !.again = FALSE, !.write = write,
                               !.before = before, !.token = token]
<1>1. \/ Ended(r, k, ok) = [done EXCEPT !.timer = TRUE]
      \/ Ended(r, k, ok) = Blocked(done, FALSE)
      \/ Ended(r, k, ok) = done
  BY DEF Ended
<1>2. token <= MaxSignIns + 1
  BY SessionBounds DEF Fits, NoToken
<1>3. pc \in [Kinds -> Steps] /\ stale \in SUBSET Kinds /\ write \in {"none", "may", "out"}
      /\ before \in Int /\ token \in Nat
  BY DEF TabRecord, NoGeneration, NoToken, Steps
<1> HIDE DEF pc, stale, write, before, token
<1>4. done \in TabRecord /\ done.gen = r.gen /\ done.token = token /\ done.open
  BY <1>3 DEF TabRecord
<1> HIDE DEF done
<1>5. /\ [done EXCEPT !.timer = TRUE].gen = done.gen /\ [done EXCEPT !.timer = TRUE].token = done.token
      /\ Blocked(done, FALSE).gen = done.gen /\ Blocked(done, FALSE).token = done.token
      /\ [done EXCEPT !.timer = TRUE].open /\ Blocked(done, FALSE).open
  BY <1>4 DEF Blocked, TabRecord
<1> QED BY <1>1, <1>2, <1>4, <1>5 DEF Fits

LEMMA TabFits ==
    ASSUME Shape, TypeInv, NEW t \in Tabs, NEW r, tab' = [tab EXCEPT ![t] = r], Fits(r), r.open
    PROVE  TabsFit
BY DEF TabsFit, TypeInv, Fits, Shape

LEMMA TabMoves ==
    ASSUME Shape, NEW t \in Tabs, NEW k \in Kinds, NEW p, NEW r, tab' = [tab EXCEPT ![t] = r],
           r.pc = [tab[t].pc EXCEPT ![k] = p]
    PROVE  Moves(t, k, p)
BY DEF Moves, Shape

\* A page with a task under way is open.
LEMMA BusyIsOpen ==
    ASSUME NEW r, r.open \/ r = Closed, NEW k \in Kinds, r.pc[k] # "idle"
    PROVE  r.open
BY DEF Closed

\* The task that holds the lock keeps its place while it goes on and gives it
\* up when it ends.
LEMMA HolderLine ==
    ASSUME Shape, TypeInv, NEW t \in Tabs, NEW k \in Kinds, NEW q \in Locked[k], Holds(t, k, q),
           NEW r \in TabRecord, Fits(r), r.pc = tab[t].pc,
           \/ \E ok \in BOOLEAN : Leave(t, k, r, ok)
           \/ \E p \in Locked[k] : Go(t, k, r, p)
    PROVE  LineInv' /\ TabsFit
<1>0. LineInv /\ lock # <<>> /\ Head(lock) = <<t, k>> /\ Waits(tab[t], k)
  BY DEF TypeInv, Holds, Waits
<1>3. r.pc[k] # "idle"
  BY DEF Holds, Locked, Kinds
<1>4. r.open
  BY <1>3, BusyIsOpen DEF Fits
<1>1. CASE \E ok \in BOOLEAN : Leave(t, k, r, ok)
  <2> PICK ok \in BOOLEAN : Leave(t, k, r, ok)
    BY <1>1
  <2> DEFINE e == Ended(r, k, ok)
  <2>1. tab' = [tab EXCEPT ![t] = e] /\ lock' = Tail(lock)
    BY DEF Leave
  <2>2. Fits(e) /\ e.open /\ e.pc = [tab[t].pc EXCEPT ![k] = "idle"]
    BY <1>4, EndedFits, EndedEndsItsTask
  <2> HIDE DEF e
  <2>3. Moves(t, k, "idle")
    BY <2>1, <2>2, TabMoves
  <2>4. "idle" \notin Locked[k]
    BY DEF Locked, Kinds
  <2>5. LineInv'
    BY <1>0, <2>1, <2>3, <2>4, LineMoves
  <2>6. TabsFit
    BY <2>1, <2>2, TabFits
  <2> QED BY <2>5, <2>6
<1>2. CASE \E p \in Locked[k] : Go(t, k, r, p)
  <2> PICK p \in Locked[k] : Go(t, k, r, p)
    BY <1>2
  <2> DEFINE pc == [r.pc EXCEPT ![k] = p]
             s == [r EXCEPT !.pc = pc]
  <2>1. tab' = [tab EXCEPT ![t] = s] /\ lock' = lock
    BY DEF Go
  <2> HIDE DEF pc
  <2>2. s.pc = pc /\ s.gen = r.gen /\ s.token = r.token /\ s.open
    BY <1>4 DEF TabRecord
  <2> HIDE DEF s
  <2>3. Fits(s)
    BY <2>2 DEF Fits
  <2>4. Moves(t, k, p)
    BY <2>1, <2>2, TabMoves DEF pc
  <2>5. LineInv'
    BY <1>0, <2>1, <2>4, LineMoves
  <2>6. TabsFit
    BY <2>1, <2>2, <2>3, TabFits
  <2> QED BY <2>5, <2>6
<1> QED BY <1>1, <1>2

\* The handles of the steps under the lock, with what HolderLine asks of them.
LEMMA PagesFit ==
    ASSUME Shape, TypeInv, NEW t \in Tabs, tab[t].open, NEW persist \in BOOLEAN
    PROVE  /\ tab[t] \in TabRecord /\ Fits(tab[t])
           /\ Identified(tab[t]) \in TabRecord /\ Fits(Identified(tab[t]))
           /\ Identified(tab[t]).pc = tab[t].pc
           /\ Blocked(tab[t], persist) \in TabRecord /\ Fits(Blocked(tab[t], persist))
           /\ Blocked(tab[t], persist).pc = tab[t].pc
           /\ LoadFailed(tab[t]) \in TabRecord /\ Fits(LoadFailed(tab[t]))
           /\ LoadFailed(tab[t]).pc = tab[t].pc
           /\ Blocked(Identified(tab[t]), persist) \in TabRecord
           /\ Fits(Blocked(Identified(tab[t]), persist))
           /\ Blocked(Identified(tab[t]), persist).pc = tab[t].pc
<1>1. tab[t] \in TabRecord /\ Fits(tab[t])
  BY DEF Shape, TypeInv
<1>2. /\ Identified(tab[t]) \in TabRecord /\ Fits(Identified(tab[t]))
      /\ Identified(tab[t]).open
  BY <1>1, IdentifiedIs, HandlesFit DEF ShowsNoMore
<1>3. Fits(Blocked(Identified(tab[t]), persist))
  BY <1>2, HandlesFit
<1>4. Fits(Blocked(tab[t], persist)) /\ Fits(LoadFailed(tab[t]))
  BY <1>1, HandlesFit
<1> QED BY <1>1, <1>2, <1>3, <1>4, HandlesKeepTasks

LEMMA HolderIsOpen ==
    ASSUME TypeInv, NEW t \in Tabs, NEW k \in Kinds, NEW q \in Locked[k], Holds(t, k, q)
    PROVE  tab[t].open
<1>1. tab[t].pc[k] # "idle"
  BY DEF Holds, Locked, Kinds
<1> QED BY <1>1, BusyIsOpen DEF TypeInv, Fits

LEMMA HolderKeepsLine ==
    ASSUME Shape, TypeInv, NEW t \in Tabs, NEW k \in Kinds, NEW q \in Locked[k], Holds(t, k, q),
           NEW r \in {tab[t], Identified(tab[t]), Blocked(tab[t], TRUE), Blocked(tab[t], FALSE),
                      LoadFailed(tab[t]), Blocked(Identified(tab[t]), TRUE)},
           \/ \E ok \in BOOLEAN : Leave(t, k, r, ok)
           \/ \E p \in Locked[k] : Go(t, k, r, p)
    PROVE  LineInv' /\ TabsFit
<1>2. tab[t].open
  BY HolderIsOpen
<1>1. r \in TabRecord /\ Fits(r) /\ r.pc = tab[t].pc
  BY <1>2, PagesFit
<1> QED BY <1>1, HolderLine

LEMMA QuietTypes ==
    ASSUME SessionInv, SessionInv', TypeInv, LineInv', TabsFit, saved' \in {saved, TRUE, FALSE},
           cookie' \in {cookie, NoToken}, kept' \in {kept, NoToken}, valid' \subseteq valid,
           control'.gen = control.gen, hints' = hints
    PROVE  TypeInv'
<1>1. 0 \in 0..(MaxSignIns + 1)
  BY SessionBounds
<1> QED BY <1>1, TypesStay

\* A clear hint is sent with the new generation.
LEMMA PublishTypes ==
    ASSUME SessionInv, SessionInv', TypeInv, LineInv', TabsFit, saved' \in {saved, TRUE, FALSE},
           NEW n \in 0..(MaxSignIns + 1), cookie' \in {cookie, NoToken, n},
           kept' \in {kept, NoToken, n}, valid' \subseteq (valid \cup {n}),
           control'.gen = control.gen + 1, Publish(control.gen + 1)
    PROVE  TypeInv'
<1>1. \A t \in Tabs : /\ hints'[t] \subseteq (hints[t] \cup {control.gen + 1})
                      /\ tab[t].open \/ hints'[t] \subseteq hints[t]
  BY DEF Publish
<1> QED BY <1>1, TypesStay

\* The steps of a check, alone or at the end of a sign-in.
LEMMA CheckSteps ==
    ASSUME NEW k \in {"check", "user"}
    PROVE  {"who", "feed", "save", "grant", "open"} \subseteq Locked[k]
<1>1. CASE k = "check"
  BY <1>1 DEF Locked
<1>2. CASE k = "user"
  BY <1>2 DEF Locked
<1> QED BY <1>1, <1>2

LEMMA CheckTypes ==
    ASSUME SessionInv, SessionInv', TypeInv, NEW t \in Tabs, NEW k \in {"check", "user"},
           \/ CheckEnter(t) \/ SessionAnswer(t) \/ WhoAmI(t, k) \/ Save(t, k) \/ Done(t, k)
    PROVE  TypeInv'
<1>0. Shape /\ k \in Kinds /\ "check" \in Kinds
  BY DEF SessionInv, Kinds
<1>1. CASE CheckEnter(t)
  <2>1. \/ Leave(t, "check", tab[t], FALSE) \/ Leave(t, "check", Identified(tab[t]), FALSE)
        \/ Go(t, "check", Identified(tab[t]), "who")
    BY <1>1 DEF CheckEnter
  <2>2. "lock" \in Locked["check"] /\ "who" \in Locked["check"] /\ Holds(t, "check", "lock")
    BY <1>1 DEF CheckEnter, Locked
  <2>3. LineInv' /\ TabsFit
    BY <1>0, <2>1, <2>2, HolderKeepsLine
  <2> QED BY <1>1, <2>3, QuietTypes DEF CheckEnter, shared
<1>2. CASE SessionAnswer(t)
  <2>1. \/ Leave(t, "check", Identified(tab[t]), FALSE)
        \/ Leave(t, "check", Blocked(Identified(tab[t]), TRUE), FALSE)
    BY <1>2 DEF SessionAnswer
  <2>2. "session" \in Locked["check"] /\ Holds(t, "check", "session")
    BY <1>2 DEF SessionAnswer, Locked
  <2>3. LineInv' /\ TabsFit
    BY <1>0, <2>1, <2>2, HolderKeepsLine
  <2> QED BY <1>2, <2>3, QuietTypes DEF SessionAnswer
<1>3. CASE WhoAmI(t, k)
  <2>1. \/ Leave(t, k, tab[t], FALSE) \/ Leave(t, k, Blocked(tab[t], TRUE), FALSE)
        \/ Leave(t, k, LoadFailed(tab[t]), FALSE) \/ Go(t, k, tab[t], "feed")
    BY <1>3 DEF WhoAmI
  <2>2. "who" \in Locked[k] /\ "feed" \in Locked[k] /\ Holds(t, k, "who")
    BY <1>3, CheckSteps DEF WhoAmI
  <2>3. LineInv' /\ TabsFit
    BY <1>0, <2>1, <2>2, HolderKeepsLine
  <2> QED BY <1>3, <2>3, QuietTypes DEF WhoAmI
<1>4. CASE Save(t, k)
  <2>1. Go(t, k, Identified(tab[t]), "grant") \/ Leave(t, k, Identified(tab[t]), FALSE)
    BY <1>4 DEF Save
  <2>2. "save" \in Locked[k] /\ "grant" \in Locked[k] /\ Holds(t, k, "save")
    BY <1>4, CheckSteps DEF Save
  <2>3. LineInv' /\ TabsFit
    <3>1. CASE Go(t, k, Identified(tab[t]), "grant")
      BY <1>0, <2>2, <3>1, HolderKeepsLine
    <3>2. CASE Leave(t, k, Identified(tab[t]), FALSE)
      BY <1>0, <2>2, <3>2, HolderKeepsLine
    <3> QED BY <2>1, <3>1, <3>2
  <2> QED BY <1>4, <2>3, QuietTypes DEF Save
<1>5. CASE Done(t, k)
  <2>1. "open" \in Locked[k] /\ Holds(t, k, "open") /\ Leave(t, k, tab[t], TRUE)
    BY <1>5, CheckSteps DEF Done
  <2>2. LineInv' /\ TabsFit
    BY <1>0, <2>1, HolderKeepsLine
  <2> QED BY <1>5, <2>2, QuietTypes DEF Done, shared
<1> QED BY <1>1, <1>2, <1>3, <1>4, <1>5

LEMMA FeedTypes ==
    ASSUME SessionInv, SessionInv', TypeInv, NEW t \in Tabs, NEW k \in {"check", "user"},
           Feed(t, k) \/ Grant(t, k)
    PROVE  TypeInv'
<1> DEFINE i == Identified(tab[t])
<1>1. {"feed", "save", "grant", "open"} \subseteq Locked[k] /\ k \in Kinds /\ Shape
  BY CheckSteps DEF Kinds, SessionInv
<1>4. tab[t].open
  BY <1>1, HolderIsOpen DEF Feed, Grant
<1>0. /\ Shape /\ k \in Kinds /\ tab[t] \in TabRecord /\ Fits(tab[t])
      /\ i \in TabRecord /\ Fits(i) /\ i.pc = tab[t].pc /\ i.open
  <2>1. i.open
    BY <1>1, <1>4, IdentifiedIs DEF ShowsNoMore, Shape
  <2> QED BY <1>1, <1>4, <2>1, PagesFit
<1>2. CASE Feed(t, k)
  <2>1. \/ Leave(t, k, tab[t], FALSE) \/ Leave(t, k, i, FALSE)
        \/ Leave(t, k, Blocked(tab[t], TRUE), FALSE) \/ Leave(t, k, LoadFailed(tab[t]), FALSE)
        \/ Leave(t, k, [tab[t] EXCEPT !.write = "out"], FALSE)
        \/ Leave(t, k, [tab[t] EXCEPT !.view = "locked", !.auth = FALSE], FALSE)
        \/ Go(t, k, [i EXCEPT !.view = "shown"], "save")
    BY <1>2 DEF Feed
  <2>2. Holds(t, k, "feed")
    BY <1>2 DEF Feed
  <2>3. ASSUME \/ Leave(t, k, tab[t], FALSE) \/ Leave(t, k, i, FALSE)
               \/ Leave(t, k, Blocked(tab[t], TRUE), FALSE) \/ Leave(t, k, LoadFailed(tab[t]), FALSE)
        PROVE  LineInv' /\ TabsFit
    BY <1>0, <1>1, <2>2, <2>3, HolderKeepsLine
  <2>4. ASSUME \/ Leave(t, k, [tab[t] EXCEPT !.write = "out"], FALSE)
               \/ Leave(t, k, [tab[t] EXCEPT !.view = "locked", !.auth = FALSE], FALSE)
        PROVE  LineInv' /\ TabsFit
    <3>1. PICK r \in {[tab[t] EXCEPT !.write = "out"],
                      [tab[t] EXCEPT !.view = "locked", !.auth = FALSE]} : Leave(t, k, r, FALSE)
      BY <2>4
    <3>2. /\ r \in TabRecord /\ r.pc = tab[t].pc /\ r.gen = tab[t].gen
          /\ r.token = tab[t].token /\ r.open
      <4>1. CASE r = [tab[t] EXCEPT !.write = "out"]
        BY <1>0, <1>4, <4>1 DEF TabRecord
      <4>2. CASE r = [tab[t] EXCEPT !.view = "locked", !.auth = FALSE]
        BY <1>0, <1>4, <4>2 DEF TabRecord
      <4> QED BY <3>1, <4>1, <4>2
    <3>3. Fits(r)
      BY <1>0, <3>2 DEF Fits
    <3> QED BY <1>0, <1>1, <2>2, <3>1, <3>2, <3>3, HolderLine
  <2>5. ASSUME Go(t, k, [i EXCEPT !.view = "shown"], "save")
        PROVE  LineInv' /\ TabsFit
    <3> DEFINE s == [i EXCEPT !.view = "shown"]
    <3>1. Go(t, k, s, "save")
      BY <2>5
    <3> HIDE DEF i
    <3>2. s \in TabRecord /\ s.pc = i.pc /\ s.gen = i.gen /\ s.token = i.token /\ s.open
      BY <1>0 DEF TabRecord
    <3> HIDE DEF s
    <3>3. Fits(s)
      BY <1>0, <3>2 DEF Fits
    <3> QED BY <1>0, <1>1, <2>2, <3>1, <3>2, <3>3, HolderLine
  <2>6. UNCHANGED <<shared, hints>>
    BY <1>2 DEF Feed
  <2>7. LineInv' /\ TabsFit
    BY <2>1, <2>3, <2>4, <2>5
  <2> QED BY <2>6, <2>7, QuietTypes DEF shared
<1>3. CASE Grant(t, k)
  <2> DEFINE r == [tab[t] EXCEPT !.auth = TRUE]
  <2>1. /\ r \in TabRecord /\ r.pc = tab[t].pc /\ r.gen = tab[t].gen
        /\ r.token = tab[t].token /\ r.open
    BY <1>0, <1>4 DEF TabRecord
  <2>2. Go(t, k, r, "open") /\ Holds(t, k, "grant")
    BY <1>3 DEF Grant
  <2> HIDE DEF r
  <2>3. Fits(r)
    BY <1>0, <2>1 DEF Fits
  <2>4. LineInv' /\ TabsFit
    BY <1>0, <1>1, <2>1, <2>2, <2>3, HolderLine
  <2> QED BY <1>3, <2>4, QuietTypes DEF Grant, shared
<1> QED BY <1>2, <1>3

\* The steps of a sign-in before its check.
LEMMA UserSteps == {"in", "revoke", "clear", "post", "who", "out"} \subseteq Locked["user"]
BY DEF Locked

LEMMA SignInTypes ==
    ASSUME SessionInv, SessionInv', TypeInv, NEW t \in Tabs,
           SignInEnter(t) \/ SignInRevoke(t) \/ SignInClear(t) \/ SignInPost(t)
    PROVE  TypeInv'
<1>4. "user" \in Kinds
  BY DEF Kinds
<1>5. tab[t].open
  BY <1>4, UserSteps, HolderIsOpen DEF SignInEnter, SignInRevoke, SignInClear, SignInPost
<1>0. /\ Shape /\ "user" \in Kinds /\ tab[t] \in TabRecord /\ Fits(tab[t])
      /\ control.gen \in Nat /\ MaxSignIns \in Nat
  BY <1>4, <1>5, PagesFit, SessionBounds DEF SessionInv, Shape
<1>1. CASE SignInEnter(t) \/ SignInRevoke(t)
  <2>1. \/ Go(t, "user", tab[t], "revoke") \/ Go(t, "user", tab[t], "clear")
        \/ Leave(t, "user", tab[t], TRUE)
    BY <1>1 DEF SignInEnter, SignInRevoke
  <2>2. PICK q \in Locked["user"] : Holds(t, "user", q)
    BY <1>1, UserSteps DEF SignInEnter, SignInRevoke
  <2>3. LineInv' /\ TabsFit
    BY <1>0, <2>1, <2>2, UserSteps, HolderKeepsLine
  <2>4. /\ UNCHANGED <<saved, kept, hints>> /\ cookie' \in {cookie, NoToken}
        /\ valid' \subseteq valid
    BY <1>1 DEF SignInEnter, SignInRevoke, EndSession, EndSessionLost, shared
  <2>5. control'.gen = control.gen
    <3>1. control' = control \/ control' = Acknowledged
      BY <1>1 DEF SignInEnter, SignInRevoke, EndSessionLost, shared
    <3> QED BY <1>0, <3>1 DEF Acknowledged, Shape
  <2> QED BY <2>3, <2>4, <2>5, QuietTypes
<1>2. CASE SignInClear(t)
  <2>1. UNCHANGED <<saved, cookie, valid, kept, hints>> /\ Holds(t, "user", "clear")
    BY <1>2 DEF SignInClear
  <2>2. CASE Leave(t, "user", tab[t], FALSE) /\ UNCHANGED control
    <3>1. LineInv' /\ TabsFit
      BY <1>0, <2>1, <2>2, UserSteps, HolderKeepsLine
    <3> QED BY <2>1, <2>2, <3>1, QuietTypes
  <2>3. CASE /\ control' = [gen |-> control.gen + 1, mark |-> "none"]
             /\ Go(t, "user", [tab[t] EXCEPT !.before = control.gen + 1], "post")
    <3> DEFINE r == [tab[t] EXCEPT !.before = control.gen + 1]
    <3>1. /\ r \in TabRecord /\ r.pc = tab[t].pc /\ r.gen = tab[t].gen
          /\ r.token = tab[t].token /\ r.open
      <4>1. control.gen + 1 \in Int
        BY <1>0
      <4> QED BY <1>0, <1>5, <4>1 DEF TabRecord
    <3>2. Go(t, "user", r, "post")
      BY <2>3
    <3> HIDE DEF r
    <3>3. Fits(r)
      BY <1>0, <3>1 DEF Fits
    <3>4. LineInv' /\ TabsFit
      BY <1>0, <2>1, <3>1, <3>2, <3>3, UserSteps, HolderLine
    <3>5. control'.gen = control.gen + 1 /\ 0 \in 0..(MaxSignIns + 1)
      BY <1>0, <2>3
    <3>6. \A u \in Tabs : /\ hints'[u] \subseteq (hints[u] \cup {control.gen + 1})
                          /\ tab[u].open \/ hints'[u] \subseteq hints[u]
      BY <2>1
    <3> QED BY <2>1, <3>4, <3>5, <3>6, TypesStay
  <2> QED BY <1>2, <2>2, <2>3 DEF SignInClear
<1>3. CASE SignInPost(t)
  <2>0. Holds(t, "user", "post") /\ tab[t].token \in 0..(MaxSignIns + 1)
    BY <1>0, <1>3 DEF SignInPost, Fits, TabRecord
  <2>1. CASE /\ cookie' = tab[t].token /\ valid' = valid \cup {tab[t].token}
             /\ kept' = tab[t].token /\ UNCHANGED <<control, saved, hints>>
             /\ Go(t, "user", [tab[t] EXCEPT !.gen = control.gen, !.blocked = FALSE], "who")
    <3> DEFINE r == [tab[t] EXCEPT !.gen = control.gen, !.blocked = FALSE]
    <3>1. /\ r \in TabRecord /\ r.pc = tab[t].pc /\ r.gen = control.gen
          /\ r.token = tab[t].token /\ r.open
      <4>1. control.gen \in Int
        BY <1>0
      <4> QED BY <1>0, <1>5, <4>1 DEF TabRecord
    <3>2. Go(t, "user", r, "who")
      BY <2>1
    <3> HIDE DEF r
    <3>3. Fits(r)
      BY <1>0, <3>1 DEF Fits
    <3>4. LineInv' /\ TabsFit
      BY <1>0, <2>0, <3>1, <3>2, <3>3, UserSteps, HolderLine
    <3>5. control'.gen = control.gen /\ \A u \in Tabs : hints'[u] \subseteq hints[u]
      BY <2>1
    <3> QED BY <2>0, <2>1, <3>4, <3>5, TypesStay
  <2>2. CASE /\ cookie' = tab[t].token /\ valid' = valid \cup {tab[t].token}
             /\ MarkSignedOut /\ Leave(t, "user", Blocked(tab[t], FALSE), FALSE)
    <3>1. LineInv' /\ TabsFit
      BY <1>0, <2>0, <2>2, UserSteps, HolderKeepsLine
    <3>2. /\ control'.gen = control.gen + 1 /\ Publish(control.gen + 1)
          /\ saved' \in {saved, TRUE, FALSE} /\ kept' = NoToken
      BY <2>2 DEF MarkSignedOut
    <3> QED BY <2>0, <2>2, <3>1, <3>2, PublishTypes
  <2>3. CASE /\ Leave(t, "user", Blocked(tab[t], TRUE), FALSE) \/ Leave(t, "user", tab[t], TRUE)
             /\ UNCHANGED <<shared, hints>>
    <3>1. LineInv' /\ TabsFit
      BY <1>0, <2>0, <2>3, UserSteps, HolderKeepsLine
    <3> QED BY <2>3, <3>1, QuietTypes DEF shared
  <2> QED BY <1>3, <2>1, <2>2, <2>3 DEF SignInPost
<1> QED BY <1>1, <1>2, <1>3

LEMMA ServerSignOutTypes ==
    ASSUME SessionInv, SessionInv', TypeInv, NEW t \in Tabs,
           ServerSignOut(t, "user", "out") \/ ServerSignOut(t, "retry", "late")
    PROVE  TypeInv'
<1>0. Shape /\ "user" \in Kinds /\ "retry" \in Kinds /\ "late" \in Locked["retry"]
  BY DEF SessionInv, Kinds, Locked
<1>01. \E k \in Kinds : \E p \in Locked[k] : ServerSignOut(t, k, p)
  BY <1>0, UserSteps
<1>02. PICK k \in Kinds : \E p \in Locked[k] : ServerSignOut(t, k, p)
  BY <1>01
<1>1. PICK p \in Locked[k] : ServerSignOut(t, k, p)
  BY <1>02
<1>2. Leave(t, k, tab[t], TRUE) /\ Holds(t, k, p)
  BY <1>1 DEF ServerSignOut
<1>3. LineInv' /\ TabsFit
  BY <1>0, <1>2, HolderKeepsLine
<1>4. /\ UNCHANGED <<saved, kept, hints>> /\ cookie' \in {cookie, NoToken} /\ valid' \subseteq valid
      /\ control' = control \/ control' = Acknowledged
  BY <1>1 DEF ServerSignOut, EndSession, EndSessionLost
<1>5. control'.gen = control.gen
  BY <1>0, <1>4 DEF Acknowledged, Shape
<1> QED BY <1>3, <1>4, <1>5, QuietTypes

\* A tab whose one task goes to a step.
LEMMA PageStep ==
    ASSUME Shape, TypeInv, NEW t \in Tabs, NEW k \in Kinds,
           NEW p \in {"idle", "hold", "mark"} \cup Locked[k],
           NEW r, Fits(r), r.open, r.pc = [tab[t].pc EXCEPT ![k] = p], tab' = [tab EXCEPT ![t] = r],
           \/ lock' = lock /\ (p \in Locked[k] <=> Waits(tab[t], k))
           \/ lock' = Append(lock, <<t, k>>) /\ p \in Locked[k] /\ ~Waits(tab[t], k)
    PROVE  LineInv' /\ TabsFit
<1>1. Moves(t, k, p)
  BY TabMoves
<1>2. LineInv
  BY DEF TypeInv
<1>3. LineInv'
  BY <1>1, <1>2, LineMoves
<1> QED BY <1>3, TabFits

\* A step that leaves the tasks of a tab where they are.
LEMMA PageStays ==
    ASSUME Shape, TypeInv, NEW t \in Tabs, NEW r, Fits(r), r.open, r.pc = tab[t].pc,
           tab' = [tab EXCEPT ![t] = r], lock' = lock
    PROVE  LineInv' /\ TabsFit
<1> DEFINE p == tab[t].pc["user"]
<1>1. p \in {"idle", "hold", "mark"} \cup Locked["user"] /\ "user" \in Kinds
  BY DEF TypeInv, LineInv, Kinds
<1>2. r.pc = [tab[t].pc EXCEPT !["user"] = p]
  BY DEF Shape, TabRecord
<1>3. p \in Locked["user"] <=> Waits(tab[t], "user")
  BY DEF Waits
<1> HIDE DEF p
<1> QED BY <1>1, <1>2, <1>3, PageStep

LEMMA TabsStay ==
    ASSUME SessionInv, TypeInv, UNCHANGED <<tab, lock>>
    PROVE  LineInv' /\ TabsFit
<1>1. LineInv'
  BY DEF TypeInv, LineInv, Waits, NoRepeat, Contains
<1>2. TabsFit
  BY DEF TypeInv, Fits, TabsFit
<1> QED BY <1>1, <1>2

LEMMA CheckingMoves ==
    ASSUME NEW r \in TabRecord, NEW again \in BOOLEAN
    PROVE  Checking(r, again).pc = [r.pc EXCEPT !["check"] = "lock"]
BY DEF Checking, TabRecord

LEMMA AskTypes ==
    ASSUME SessionInv, SessionInv', TypeInv, NEW t \in Tabs,
           SessionCheck(t) \/ SignIn(t) \/ HearSignIn(t) \/ Recheck(t)
    PROVE  TypeInv'
<1>0. /\ Shape /\ tab[t] \in TabRecord /\ Fits(tab[t]) /\ control.gen \in Nat /\ MaxSignIns \in Nat
      /\ "check" \in Kinds /\ "user" \in Kinds
  BY SessionBounds DEF SessionInv, TypeInv, Kinds, Shape
<1>9. tab[t].blocked \/ SessionCheck(t) \/ SignIn(t) \/ Recheck(t) => tab[t].open
  <2>1. tab[t].blocked => tab[t].open
    BY <1>0 DEF Fits, Closed
  <2>2. SessionCheck(t) \/ SignIn(t) \/ Recheck(t) => tab[t].open
    BY DEF SessionCheck, SignIn, Recheck
  <2> QED BY <2>1, <2>2
<1>1. {"lock", "session"} \subseteq Locked["check"] /\ "idle" \notin Locked["check"]
      /\ "in" \in Locked["user"] /\ "idle" \notin Locked["user"]
  BY DEF Locked
<1>2. UNCHANGED <<shared, hints>>
  BY DEF SessionCheck, SignIn, HearSignIn, Recheck
<1>3. ASSUME LineInv', TabsFit
      PROVE  TypeInv'
  BY <1>2, <1>3, QuietTypes DEF shared
<1>4. CASE SessionCheck(t)
  <2>1. CASE tab' = [tab EXCEPT ![t] = Blocked(@, TRUE)] /\ lock' = lock
    <3>1. Fits(Blocked(tab[t], TRUE)) /\ Blocked(tab[t], TRUE).pc = tab[t].pc
      BY <1>0, <1>4, <1>9, PagesFit
    <3>2. Blocked(tab[t], TRUE).open
      BY <1>0, <1>4, <1>9, BlockedIs
    <3>4. LineInv' /\ TabsFit
      BY <1>0, <2>1, <3>1, <3>2, PageStays
    <3> QED BY <1>3, <3>4
  <2>2. CASE /\ tab' = [tab EXCEPT ![t].pc.check = "session"]
             /\ lock' = Append(lock, <<t, "check">>)
    <3> DEFINE pc == [tab[t].pc EXCEPT !["check"] = "session"]
               r == [tab[t] EXCEPT !.pc = pc]
    <3>1. tab' = [tab EXCEPT ![t] = r]
      BY <2>2
    <3> HIDE DEF pc
    <3>2. r.pc = pc /\ r.gen = tab[t].gen /\ r.token = tab[t].token /\ r.open
      BY <1>0, <1>4, <1>9 DEF TabRecord
    <3> HIDE DEF r
    <3>3. Fits(r)
      BY <1>0, <3>2 DEF Fits
    <3>4. ~Waits(tab[t], "check")
      BY <1>1, <1>4 DEF SessionCheck, Waits
    <3>5. "session" \in Locked["check"] /\ r.pc = [tab[t].pc EXCEPT !["check"] = "session"]
      BY <1>1, <3>2 DEF pc
    <3>6. lock' = Append(lock, <<t, "check">>)
      BY <2>2
    <3>7. LineInv' /\ TabsFit
      BY <1>0, <3>1, <3>2, <3>3, <3>4, <3>5, <3>6, PageStep
    <3> QED BY <1>3, <3>7
  <2> QED BY <1>4, <2>1, <2>2 DEF SessionCheck
<1>5. CASE SignIn(t)
  <2> DEFINE pc == [tab[t].pc EXCEPT !["user"] = "in"]
             n == MaxSignIns - left.signIns + 2
             r == [tab[t] EXCEPT !.timer = FALSE, !.auth = FALSE, !.pc = pc, !.token = n]
  <2>1. tab' = [tab EXCEPT ![t] = r] /\ lock' = Append(lock, <<t, "user">>)
    BY <1>5 DEF SignIn
  <2>2. n <= MaxSignIns + 1
    BY <1>0, <1>5 DEF SignIn, Shape
  <2> HIDE DEF pc, n
  <2>3. r.pc = pc /\ r.gen = tab[t].gen /\ r.token = n /\ r.open
    BY <1>0, <1>5, <1>9 DEF TabRecord
  <2> HIDE DEF r
  <2>4. Fits(r)
    BY <1>0, <2>2, <2>3 DEF Fits
  <2>5. ~Waits(tab[t], "user")
    BY <1>1, <1>5 DEF SignIn, Waits
  <2>6. "in" \in Locked["user"] /\ r.pc = [tab[t].pc EXCEPT !["user"] = "in"]
    BY <1>1, <2>3 DEF pc
  <2>7. LineInv' /\ TabsFit
    BY <1>0, <2>1, <2>3, <2>4, <2>5, <2>6, PageStep
  <2> QED BY <1>3, <2>7
<1>6. ASSUME NEW r \in TabRecord, Fits(r), r.open, r.pc = tab[t].pc, NEW again \in BOOLEAN,
             tab[t].pc["check"] = "idle", tab' = [tab EXCEPT ![t] = Checking(r, again)],
             lock' = Append(lock, <<t, "check">>)
      PROVE  TypeInv'
  <2>1. /\ Fits(Checking(r, again)) /\ Checking(r, again).open
        /\ Checking(r, again).pc = [tab[t].pc EXCEPT !["check"] = "lock"]
    BY <1>0, <1>6, HandlesFit, CheckingIs, CheckingMoves DEF ShowsNoMore
  <2>2. ~Waits(tab[t], "check")
    BY <1>1, <1>6 DEF Waits
  <2> DEFINE c == Checking(r, again)
  <2>4. /\ Fits(c) /\ c.open /\ c.pc = [tab[t].pc EXCEPT !["check"] = "lock"]
        /\ tab' = [tab EXCEPT ![t] = c]
    BY <1>6, <2>1
  <2> HIDE DEF c
  <2>5. "lock" \in Locked["check"] /\ "check" \in Kinds
        /\ "lock" \in {"idle", "hold", "mark"} \cup Locked["check"]
    BY <1>0, <1>1
  <2>6. Moves(t, "check", "lock")
    BY <1>0, <2>4, <2>5, TabMoves
  <2>7. LineInv'
    BY <1>0, <1>6, <2>2, <2>5, <2>6, LineMoves DEF TypeInv
  <2>8. TabsFit
    BY <1>0, <2>4, TabFits
  <2>3. LineInv' /\ TabsFit
    BY <2>7, <2>8
  <2> QED BY <1>3, <2>3
<1>7. CASE HearSignIn(t)
  <2>1. CASE UNCHANGED <<tab, lock>>
    BY <1>3, <2>1, TabsStay
  <2>2. CASE /\ tab[t].blocked
             /\ tab' = [tab EXCEPT ![t] =
                          Checking([@ EXCEPT !.blocked = FALSE, !.gen = control.gen], FALSE)]
             /\ lock' = Append(lock, <<t, "check">>)
    <3> DEFINE r == [tab[t] EXCEPT !.blocked = FALSE, !.gen = control.gen]
    <3>0. control.gen \in Int
      BY <1>0
    <3>1. /\ r \in TabRecord /\ r.pc = tab[t].pc /\ r.gen = control.gen
          /\ r.token = tab[t].token /\ r.open
      BY <1>0, <1>9, <2>2, <3>0 DEF TabRecord
    <3>2. tab' = [tab EXCEPT ![t] = Checking(r, FALSE)] /\ tab[t].pc["check"] = "idle"
      BY <1>7, <2>2 DEF HearSignIn
    <3> HIDE DEF r
    <3>3. Fits(r)
      BY <1>0, <3>1 DEF Fits
    <3> QED BY <1>6, <2>2, <3>1, <3>2, <3>3
  <2> QED BY <1>7, <2>1, <2>2 DEF HearSignIn
<1>8. CASE Recheck(t)
  <2>1. tab[t].timer \in BOOLEAN
    BY <1>0 DEF TabRecord
  <2>2. /\ tab' = [tab EXCEPT ![t] = Checking(tab[t], tab[t].timer)]
        /\ tab[t].pc["check"] = "idle" /\ lock' = Append(lock, <<t, "check">>)
    BY <1>8 DEF Recheck
  <2> QED BY <1>0, <1>6, <1>8, <1>9, <2>1, <2>2
<1> QED BY <1>4, <1>5, <1>7, <1>8

LEMMA SignOutTypes ==
    ASSUME SessionInv, SessionInv', TypeInv, NEW t \in Tabs,
           \/ \E opsWait \in BOOLEAN : SignOut(t, opsWait)
           \/ SignOutHeld(t) \/ SignOutMark(t)
    PROVE  TypeInv'
<1>0. /\ Shape /\ tab[t] \in TabRecord /\ Fits(tab[t]) /\ control.gen \in Nat /\ "user" \in Kinds
      /\ 0 \in 0..(MaxSignIns + 1)
  <2>1. 0 \in 0..(MaxSignIns + 1)
    BY SessionBounds
  <2> QED BY <2>1 DEF SessionInv, TypeInv, Kinds, Shape
<1>5. tab[t].open
  <2>1. CASE \E opsWait \in BOOLEAN : SignOut(t, opsWait)
    BY <2>1 DEF SignOut
  <2>2. CASE SignOutHeld(t) \/ SignOutMark(t)
    <3>1. tab[t].pc["user"] # "idle"
      BY <2>2 DEF SignOutHeld, SignOutMark
    <3> QED BY <1>0, <3>1, BusyIsOpen DEF Fits
  <2> QED BY <2>1, <2>2
<1>1. {"idle", "hold", "mark"} \cap Locked["user"] = {} /\ "out" \in Locked["user"]
  BY DEF Locked
<1>2. CASE \E opsWait \in BOOLEAN : SignOut(t, opsWait)
  <2>0. PICK opsWait \in BOOLEAN : SignOut(t, opsWait)
    BY <1>2
  <2> DEFINE p == IF opsWait THEN "hold" ELSE "mark"
             pc == [tab[t].pc EXCEPT !["user"] = p]
             r == [tab[t] EXCEPT !.timer = FALSE, !.blocked = TRUE, !.auth = FALSE, !.pc = pc]
  <2>1. tab' = [tab EXCEPT ![t] = r] /\ UNCHANGED <<shared, lock, hints>>
    BY <2>0 DEF SignOut
  <2>2. p \in {"hold", "mark"} /\ ~Waits(tab[t], "user")
    BY <1>1, <2>0 DEF SignOut, Waits
  <2> HIDE DEF p, pc
  <2>3. r.pc = pc /\ r.gen = tab[t].gen /\ r.token = tab[t].token /\ r.open
    BY <1>0, <1>5 DEF TabRecord
  <2> HIDE DEF r
  <2>4. Fits(r)
    BY <1>0, <2>3 DEF Fits
  <2>5. LineInv' /\ TabsFit
    BY <1>0, <1>1, <2>1, <2>2, <2>3, <2>4, PageStep DEF pc
  <2> QED BY <2>1, <2>5, QuietTypes DEF shared
<1>3. CASE SignOutHeld(t)
  <2> DEFINE pc == [tab[t].pc EXCEPT !["user"] = "mark"]
             r == [tab[t] EXCEPT !.pc = pc]
  <2>1. /\ tab' = [tab EXCEPT ![t] = r] /\ UNCHANGED <<shared, lock, hints>>
        /\ ~Waits(tab[t], "user")
    BY <1>1, <1>3 DEF SignOutHeld, Waits
  <2> HIDE DEF pc
  <2>2. r.pc = pc /\ r.gen = tab[t].gen /\ r.token = tab[t].token /\ r.open
    BY <1>0, <1>5 DEF TabRecord
  <2> HIDE DEF r
  <2>3. Fits(r)
    BY <1>0, <2>2 DEF Fits
  <2>4. LineInv' /\ TabsFit
    BY <1>0, <1>1, <2>1, <2>2, <2>3, PageStep DEF pc
  <2> QED BY <2>1, <2>4, QuietTypes DEF shared
<1>4. CASE SignOutMark(t)
  <2> DEFINE b == Blocked(tab[t], FALSE)
             pc == [tab[t].pc EXCEPT !["user"] = "out"]
             r == [b EXCEPT !.gen = NoGeneration, !.pc = pc]
  <2>1. b \in TabRecord /\ b.pc = tab[t].pc /\ Fits(b) /\ b.open
    BY <1>0, <1>5, PagesFit, BlockedIs
  <2>2. tab' = [tab EXCEPT ![t] = [b EXCEPT !.gen = NoGeneration, !.pc.user = "out"]]
    BY <1>4 DEF SignOutMark
  <2> HIDE DEF b
  <2>3. tab' = [tab EXCEPT ![t] = r]
    BY <2>1, <2>2
  <2> HIDE DEF pc
  <2>4. r.pc = pc /\ r.gen = NoGeneration /\ r.token = b.token /\ r.open
    BY <2>1 DEF TabRecord
  <2> HIDE DEF r
  <2>5. Fits(r)
    BY <1>0, <2>1, <2>4 DEF Fits, NoGeneration
  <2>6. ~Waits(tab[t], "user") /\ lock' = Append(lock, <<t, "user">>)
    BY <1>1, <1>4 DEF SignOutMark, Waits
  <2>10. "out" \in Locked["user"] /\ r.pc = [tab[t].pc EXCEPT !["user"] = "out"]
    BY <1>1, <2>4 DEF pc
  <2>7. LineInv' /\ TabsFit
    BY <1>0, <2>3, <2>4, <2>5, <2>6, <2>10, PageStep
  <2>8. /\ control'.gen = control.gen + 1 /\ Publish(control.gen + 1)
        /\ saved' \in {saved, TRUE, FALSE} /\ kept' = NoToken /\ UNCHANGED <<cookie, valid>>
    BY <1>4 DEF SignOutMark, MarkSignedOut
  <2> QED BY <1>0, <2>7, <2>8, PublishTypes
<1> QED BY <1>2, <1>3, <1>4

\* A page that asks for a late sign-out joins the line, unless it waits already.
LEMMA RetryStep ==
    ASSUME Shape, TypeInv, NEW t \in Tabs, NEW r \in TabRecord, Fits(r), r.open,
           r.pc = tab[t].pc, tab' = [tab EXCEPT ![t] = Retrying(r)],
           RetryLock(t, r)
    PROVE  LineInv' /\ TabsFit
<1>0. /\ "retry" \in Kinds /\ "late" \in Locked["retry"] /\ "idle" \notin Locked["retry"]
      /\ tab[t].pc \in [Kinds -> Steps]
  BY DEF Kinds, Locked, Shape, TabRecord
<1>2. Fits(Retrying(r)) /\ Retrying(r).open
  <2>1. TRUE \in BOOLEAN
    OBVIOUS
  <2>2. Fits(Retrying(r))
    BY <2>1, HandlesFit
  <2>3. Retrying(r).open
    BY DEF Retrying, TabRecord
  <2> QED BY <2>2, <2>3
<1>3. CASE control.mark = "pending" /\ r.pc["retry"] = "idle"
  <2> DEFINE pc == [r.pc EXCEPT !["retry"] = "late"]
             s == [r EXCEPT !.pc = pc]
  <2>1. Retrying(r) = s
    BY <1>3 DEF Retrying
  <2>2. pc["retry"] = "late"
    BY DEF TabRecord, Kinds
  <2> HIDE DEF pc
  <2>3. s.pc = pc
    BY DEF TabRecord
  <2> HIDE DEF s
  <2>4. s # r
    BY <1>3, <2>2, <2>3
  <2>5. lock' = Append(lock, <<t, "retry">>)
    BY <2>1, <2>4 DEF RetryLock
  <2>6. s.pc = [tab[t].pc EXCEPT !["retry"] = "late"]
    BY <2>3 DEF pc
  <2>7. ~Waits(tab[t], "retry")
    BY <1>0, <1>3 DEF Waits
  <2>8. Fits(s) /\ s.open /\ tab' = [tab EXCEPT ![t] = s]
    BY <1>2, <2>1
  <2>9. "late" \in {"idle", "hold", "mark"} \cup Locked["retry"]
    BY <1>0
  <2>10. "retry" \in Kinds /\ "late" \in Locked["retry"]
    BY <1>0
  <2> HIDE DEF s
  <2>11. Moves(t, "retry", "late")
    BY <1>0, <2>5, <2>6, <2>7, <2>8, <2>9, TabMoves
  <2>12. LineInv'
    BY <2>5, <2>7, <2>9, <2>10, <2>11, LineMoves DEF TypeInv
  <2>13. TabsFit
    BY <2>8, TabFits
  <2> QED BY <2>12, <2>13
<1>4. CASE ~(control.mark = "pending" /\ r.pc["retry"] = "idle")
  <2>1. Retrying(r) = r
    BY <1>4 DEF Retrying
  <2>2. lock' = lock
    BY <2>1 DEF RetryLock
  <2>3. Fits(r) /\ r.open /\ tab' = [tab EXCEPT ![t] = r]
    BY <2>1
  <2> QED BY <2>2, <2>3, PageStays
<1> QED BY <1>3, <1>4

LEMMA HintTypes ==
    ASSUME SessionInv, SessionInv', TypeInv, NEW t \in Tabs, Hint(t) \/ ClearLands(t)
    PROVE  TypeInv'
<1>0. /\ Shape /\ tab[t] \in TabRecord /\ Fits(tab[t]) /\ control.gen \in Nat
      /\ control \in [gen : Nat, mark : {"none", "pending", "done"}]
  BY DEF SessionInv, TypeInv, Shape
<1>4. tab[t].open
  <2>1. CASE Hint(t)
    BY <2>1 DEF Hint, TypeInv, Counts
  <2>2. CASE ClearLands(t)
    BY <1>0, <2>2 DEF ClearLands, Fits, Closed
  <2> QED BY <2>1, <2>2
<1>1. 0 \in 0..(MaxSignIns + 1)
  BY SessionBounds
<1>2. CASE Hint(t)
  <2> DEFINE b == Blocked(tab[t], FALSE)
  <2>1. b \in TabRecord /\ b.pc = tab[t].pc /\ Fits(b) /\ b.open
    BY <1>0, <1>4, PagesFit, BlockedIs
  <2>2. \/ UNCHANGED <<tab, lock>>
        \/ tab' = [tab EXCEPT ![t] = b] /\ UNCHANGED lock
        \/ tab' = [tab EXCEPT ![t] = Retrying(b)] /\ RetryLock(t, b)
    BY <1>2 DEF Hint
  <2>3. \A u \in Tabs : hints'[u] \subseteq hints[u]
    <3> PICK gen \in hints[t] : hints' = [hints EXCEPT ![t] = @ \ {gen}]
      BY <1>2 DEF Hint
    <3> QED BY <1>0 DEF Shape
  <2> HIDE DEF b
  <2>4. LineInv' /\ TabsFit
    <3>1. CASE UNCHANGED <<tab, lock>>
      BY <3>1, TabsStay
    <3>2. CASE tab' = [tab EXCEPT ![t] = b] /\ UNCHANGED lock
      BY <1>0, <2>1, <3>2, PageStays
    <3>3. CASE tab' = [tab EXCEPT ![t] = Retrying(b)] /\ RetryLock(t, b)
      BY <1>0, <2>1, <3>3, RetryStep
    <3> QED BY <2>2, <3>1, <3>2, <3>3
  <2>5. UNCHANGED shared
    BY <1>2 DEF Hint
  <2> QED BY <1>1, <2>3, <2>4, <2>5, TypesStay DEF shared
<1>3. CASE ClearLands(t)
  <2> DEFINE r == [tab[t] EXCEPT !.clearing = FALSE]
  <2>1. tab' = [tab EXCEPT ![t] = r] /\ UNCHANGED <<cookie, valid, kept, lock>>
        /\ saved' = FALSE /\ Publish(control.gen + 1)
    BY <1>3 DEF ClearLands
  <2>2. r.pc = tab[t].pc /\ r.gen = tab[t].gen /\ r.token = tab[t].token /\ r.open
    BY <1>0, <1>4 DEF TabRecord
  <2> HIDE DEF r
  <2>3. Fits(r)
    BY <1>0, <2>2 DEF Fits
  <2>4. LineInv' /\ TabsFit
    BY <1>0, <2>1, <2>2, <2>3, PageStays
  <2>5. control'.gen = control.gen + 1
    BY <1>0, <1>3 DEF ClearLands
  <2> QED BY <1>1, <2>1, <2>4, <2>5, PublishTypes
<1> QED BY <1>2, <1>3

LEMMA OpenTypes ==
    ASSUME SessionInv, SessionInv', TypeInv, NEW t \in Tabs, Open(t)
    PROVE  TypeInv'
<1>0. /\ Shape /\ control.gen \in Nat /\ "check" \in Kinds /\ MaxSignIns \in Nat
      /\ "lock" \in Locked["check"] /\ "idle" \notin Locked["check"]
  BY SessionBounds DEF SessionInv, Kinds, Shape, Locked
<1> DEFINE c == Closed
           r == [c EXCEPT !.open = TRUE]
           out == [r EXCEPT !.blocked = TRUE, !.view = "locked"]
           in == [r EXCEPT !.gen = control.gen, !.view = IF saved THEN "saved" ELSE "none"]
<1>1. \/ /\ tab' = [tab EXCEPT ![t] = Checking(in, FALSE)]
         /\ lock' = Append(lock, <<t, "check">>)
      \/ tab' = [tab EXCEPT ![t] = Retrying(out)] /\ RetryLock(t, out)
  BY DEF Open
<1>2. /\ c \in TabRecord /\ c.pc = [k \in Kinds |-> "idle"] /\ c.gen = NoGeneration
      /\ c.token = NoToken
  BY ClosedIs DEF Closed
<1>3. tab[t] = c
  BY DEF Open, TypeInv, Fits
<1> HIDE DEF c
<1>4. r \in TabRecord /\ r.pc = c.pc /\ r.gen = NoGeneration /\ r.token = NoToken /\ r.open
  BY <1>2 DEF TabRecord
<1> HIDE DEF r
<1>5. /\ out \in TabRecord /\ out.pc = tab[t].pc /\ out.gen = NoGeneration /\ out.token = NoToken
      /\ in \in TabRecord /\ in.pc = tab[t].pc /\ in.gen = control.gen /\ in.token = NoToken
      /\ out.open /\ in.open
  <2>1. control.gen \in Int
    BY <1>0
  <2> QED BY <1>3, <1>4, <2>1 DEF TabRecord
<1> HIDE DEF out, in
<1>6. Fits(out) /\ Fits(in)
  BY <1>0, <1>5 DEF Fits, NoGeneration, NoToken
<1>7. LineInv' /\ TabsFit
  <2>1. CASE /\ tab' = [tab EXCEPT ![t] = Checking(in, FALSE)]
             /\ lock' = Append(lock, <<t, "check">>)
    <3>1. /\ Fits(Checking(in, FALSE)) /\ Checking(in, FALSE).open
          /\ Checking(in, FALSE).pc = [tab[t].pc EXCEPT !["check"] = "lock"]
      BY <1>0, <1>5, <1>6, HandlesFit, CheckingIs, CheckingMoves DEF ShowsNoMore
    <3>2. ~Waits(tab[t], "check")
      BY <1>0, <1>2, <1>3 DEF Waits
    <3> QED BY <1>0, <2>1, <3>1, <3>2, PageStep
  <2>2. CASE tab' = [tab EXCEPT ![t] = Retrying(out)] /\ RetryLock(t, out)
    BY <1>0, <1>5, <1>6, <2>2, RetryStep
  <2> QED BY <1>1, <2>1, <2>2
<1>8. UNCHANGED <<shared, hints>>
  BY DEF Open
<1> QED BY <1>7, <1>8, QuietTypes DEF shared

\* A page that closes takes its tasks, its place in the line and its hints with
\* it.
LEMMA CloseTypes ==
    ASSUME SessionInv, SessionInv', TypeInv, NEW t \in Tabs, Close(t)
    PROVE  TypeInv'
<1> DEFINE places == {i \in DOMAIN lock : lock[i][1] # t}
<1>0. /\ Shape /\ lock \in Seq(Tabs \X Kinds) /\ NoRepeat(lock)
      /\ places \in SUBSET DOMAIN lock /\ lock' = Picked(lock, places)
  BY DEF SessionInv, TypeInv, LineInv, Close
<1>1. /\ lock' \in Seq(Tabs \X Kinds) /\ NoRepeat(lock')
      /\ \A e : Contains(lock', e) <=> \E i \in places : lock[i] = e
  <2> HIDE DEF places
  <2> QED BY <1>0, PickedKeepsLine
<1>2. \A u \in Tabs : tab'[u] = IF u = t THEN Closed ELSE tab[u]
  BY <1>0 DEF Close, Shape
<1>3. \A k \in Kinds : Closed.pc[k] = "idle" /\ "idle" \notin Locked[k]
  BY DEF Closed, Kinds, Locked
<1>4. ASSUME NEW u \in Tabs, NEW k \in Kinds
      PROVE  /\ tab'[u].pc[k] \in {"idle", "hold", "mark"} \cup Locked[k]
             /\ Contains(lock', <<u, k>>) <=> tab'[u].pc[k] \in Locked[k]
  <2> DEFINE e == <<u, k>>
  <2>1. \A i \in DOMAIN lock : lock[i] = e => lock[i][1] = u
    OBVIOUS
  <2>2. Contains(lock', e) <=> Contains(lock, e) /\ u # t
    <3>1. \A i \in DOMAIN lock : lock[i] = e => (i \in places <=> u # t)
      BY <2>1
    <3>2. DOMAIN lock = 1..Len(lock)
      BY <1>0
    <3> HIDE DEF e, places
    <3> QED BY <1>0, <1>1, <3>1, <3>2 DEF Contains
  <2>3. Contains(lock, e) <=> tab[u].pc[k] \in Locked[k]
    BY DEF TypeInv, LineInv, Waits
  <2>4. tab[u].pc[k] \in {"idle", "hold", "mark"} \cup Locked[k]
    BY DEF TypeInv, LineInv
  <2> HIDE DEF e
  <2>5. CASE u = t
    BY <1>2, <1>3, <2>2, <2>5 DEF e
  <2>6. CASE u # t
    BY <1>2, <2>2, <2>3, <2>4, <2>6 DEF e
  <2> QED BY <2>5, <2>6
<1>5. LineInv'
  <2>1. NoRepeat(lock)'
    BY <1>1 DEF NoRepeat
  <2>2. ASSUME NEW u \in Tabs, NEW k \in Kinds
        PROVE  Contains(lock, <<u, k>>)' <=> Waits(tab[u], k)'
    BY <1>4 DEF Contains, Waits
  <2> QED BY <1>1, <1>4, <2>1, <2>2 DEF LineInv
<1>6. UNCHANGED <<shared, left>> /\ \A u \in Tabs : hints'[u] = IF u = t THEN {} ELSE hints[u]
  BY <1>0 DEF Close, Shape
<1>7. Counts'
  BY <1>2, <1>6 DEF TypeInv, Counts, shared
<1>8. ASSUME NEW u \in Tabs
      PROVE  Fits(tab[u])'
  <2>1. CASE u = t
    <3>1. control.gen \in Nat /\ MaxSignIns \in Nat
      BY <1>0, SessionBounds DEF Shape
    <3>2. /\ Closed.gen = -1 /\ Closed.token = 0
          /\ control' = control /\ tab'[u] = Closed
      BY <1>2, <1>6, <2>1 DEF Closed, NoGeneration, NoToken, shared
    <3>3. -1 <= control.gen /\ 0 <= MaxSignIns + 1
      BY <3>1
    <3> QED BY <3>2, <3>3 DEF Fits
  <2>2. CASE u # t
    BY <1>2, <1>6, <2>2 DEF TypeInv, Fits, shared
  <2> QED BY <2>1, <2>2
<1> QED BY <1>5, <1>7, <1>8 DEF TypeInv

LEMMA NextTypes ==
    ASSUME SessionInv, SessionInv', TypeInv, [Next]_vars
    PROVE  TypeInv'
<1>1. ASSUME NEW t \in Tabs, Task(t)
      PROVE  TypeInv'
  <2>1. ASSUME NEW k \in {"check", "user"},
               WhoAmI(t, k) \/ Feed(t, k) \/ Save(t, k) \/ Grant(t, k) \/ Done(t, k)
        PROVE  TypeInv'
    BY <2>1, CheckTypes, FeedTypes
  <2>2. CASE CheckEnter(t) \/ SessionAnswer(t)
    BY <2>2, CheckTypes
  <2>3. CASE SignInEnter(t) \/ SignInRevoke(t) \/ SignInClear(t) \/ SignInPost(t)
    BY <2>3, SignInTypes
  <2>4. CASE SignOutHeld(t) \/ SignOutMark(t)
    BY <2>4, SignOutTypes
  <2>5. CASE ServerSignOut(t, "user", "out") \/ ServerSignOut(t, "retry", "late")
    BY <2>5, ServerSignOutTypes
  <2> QED BY <1>1, <2>1, <2>2, <2>3, <2>4, <2>5 DEF Task
<1>2. ASSUME NEW t \in Tabs,
             \/ HearSignIn(t) \/ Hint(t) \/ ClearLands(t) \/ TimerFires(t)
             \/ Open(t) \/ Close(t) \/ Recheck(t) \/ SessionCheck(t) \/ SignIn(t)
      PROVE  TypeInv'
  BY <1>2, AskTypes, HintTypes, OpenTypes, CloseTypes DEF TimerFires
<1>3. ASSUME NEW t \in Tabs, NEW opsWait \in BOOLEAN, SignOut(t, opsWait)
      PROVE  TypeInv'
  BY <1>3, SignOutTypes
<1>4. CASE Revoke \/ UNCHANGED vars
  <2>1. UNCHANGED <<tab, lock, control, saved, cookie, hints>>
    BY <1>4 DEF Revoke, vars
  <2>2. LineInv' /\ TabsFit
    BY <2>1, TabsStay
  <2>3. valid' \subseteq valid /\ kept' \in {kept, NoToken}
    BY <1>4 DEF Revoke, vars
  <2> QED BY <2>1, <2>2, <2>3, QuietTypes
<1> QED BY <1>1, <1>2, <1>3, <1>4 DEF Next

LEMMA InitTypes ==
    ASSUME Init
    PROVE  TypeInv
<1>1. \A t \in Tabs : tab[t] = Closed
  BY DEF Init
<1>2. LineInv
  <2>1. lock \in Seq(Tabs \X Kinds) /\ Len(lock) = 0
    BY DEF Init
  <2>2. NoRepeat(lock) /\ \A e : ~Contains(lock, e)
    BY <2>1 DEF NoRepeat, Contains
  <2>3. \A k \in Kinds : Closed.pc[k] = "idle" /\ "idle" \notin Locked[k]
    BY DEF Closed, Kinds, Locked
  <2> QED BY <1>1, <2>1, <2>2, <2>3 DEF LineInv, Waits
<1>3. Counts
  <2>1. MaxSignIns \in Nat
    BY SessionBounds
  <2>2. saved \in BOOLEAN /\ \A t \in Tabs : hints[t] = {}
    BY DEF Init
  <2>3. {cookie, kept} \cup valid \subseteq {0, 1}
    BY DEF Init, NoToken
  <2>4. {0, 1} \subseteq 0..(MaxSignIns + 1)
    BY <2>1
  <2> QED BY <2>2, <2>3, <2>4 DEF Counts
<1>4. \A t \in Tabs : Fits(tab[t])
  <2>1. control.gen = 0 /\ MaxSignIns \in Nat
    BY SessionBounds DEF Init
  <2>2. Closed.gen = -1 /\ Closed.token = 0
    BY DEF Closed, NoGeneration, NoToken
  <2>3. -1 <= control.gen /\ 0 <= MaxSignIns + 1
    BY <2>1
  <2> QED BY <1>1, <2>2, <2>3 DEF Fits
<1> QED BY <1>2, <1>3, <1>4 DEF TypeInv

\* No task asks for the lock twice.
LEMMA OnceInLine ==
    ASSUME LineInv, NEW e
    PROVE  /\ Contains(lock, e) <=> \E i \in DOMAIN lock : lock[i] = e
           /\ Cardinality({i \in DOMAIN lock : lock[i] = e}) <= 1
<1> DEFINE places == {i \in DOMAIN lock : lock[i] = e}
<1>1. DOMAIN lock = 1..Len(lock)
  BY DEF LineInv
<1>2. Contains(lock, e) <=> \E i \in DOMAIN lock : lock[i] = e
  BY <1>1 DEF Contains
<1>3. places = {} \/ \E n \in DOMAIN lock : places = {n}
  BY <1>1 DEF LineInv, NoRepeat
<1> HIDE DEF places
<1>4. Cardinality(places) <= 1
  <2>1. CASE places = {}
    BY <2>1, FS_EmptySet
  <2>2. CASE \E n \in DOMAIN lock : places = {n}
    <3>1. PICK n \in DOMAIN lock : places = {n}
      BY <2>2
    <3>2. Cardinality({n}) = 1
      BY FS_Singleton
    <3> QED BY <3>1, <3>2
  <2> QED BY <1>3, <2>1, <2>2
<1> QED BY <1>2, <1>4 DEF places

\* The records of the tabs keep their shape: no page has read a generation or a
\* hint that was not stored, and the tasks in the line of the session lock are
\* those that asked for it, each once.
THEOREM TypeCorrect == Spec => []TypeOK
<1>1. Init => TypeInv
  BY InitTypes
<1>2. SessionInv /\ SessionInv' /\ TypeInv /\ [Next]_vars => TypeInv'
  BY NextTypes
<1>3. SessionInv /\ TypeInv => TypeOK
  <2> SUFFICES ASSUME SessionInv, TypeInv
               PROVE  TypeOK
    OBVIOUS
  <2>1. /\ control \in [gen : Nat, mark : {"none", "pending", "done"}] /\ saved \in BOOLEAN
        /\ {cookie, kept} \cup valid \subseteq 0..(MaxSignIns + 1)
    BY DEF SessionInv, Shape, TypeInv, Counts
  <2>2. ASSUME NEW t \in Tabs
        PROVE  /\ tab[t].gen <= control.gen
               /\ tab[t].view \in {"none", "saved", "shown", "locked"}
               /\ hints[t] \subseteq 1..control.gen
    BY DEF SessionInv, Shape, TabRecord, TypeInv, Counts, Fits
  <2>3. ASSUME NEW t \in Tabs, NEW k \in Kinds
        PROVE  /\ tab[t].pc[k] \in {"idle", "hold", "mark"} \cup Locked[k]
               /\ tab[t].pc[k] \in Locked[k] <=> \E i \in DOMAIN lock : lock[i] = <<t, k>>
               /\ Cardinality({i \in DOMAIN lock : lock[i] = <<t, k>>}) <= 1
    <3> DEFINE e == <<t, k>>
    <3>1. /\ tab[t].pc[k] \in {"idle", "hold", "mark"} \cup Locked[k]
          /\ Contains(lock, e) <=> tab[t].pc[k] \in Locked[k]
      BY DEF TypeInv, LineInv, Waits
    <3>2. LineInv
      BY DEF TypeInv
    <3> HIDE DEF e
    <3>3. /\ Contains(lock, e) <=> \E i \in DOMAIN lock : lock[i] = e
          /\ Cardinality({i \in DOMAIN lock : lock[i] = e}) <= 1
      BY <3>2, OnceInLine
    <3> QED BY <3>1, <3>3 DEF e
  <2> QED BY <2>1, <2>2, <2>3 DEF TypeOK
<1> QED BY <1>1, <1>2, <1>3, SessionInvariant, PTL DEF Spec
=============================================================================
