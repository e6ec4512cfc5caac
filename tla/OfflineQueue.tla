---------------------------- MODULE OfflineQueue ----------------------------
(***************************************************************************)
(* The write queue of one room on one device (frontend/src/lib/data/write- *)
(* queue.ts, queue-storage.ts, rebase.ts) with the part of RoomStore that  *)
(* hears of it (room-store.svelte.ts, overlay.ts), against the server of   *)
(* OpHandlers.  Several tabs share the stored queue; with Web Locks one of *)
(* them sends at a time.  Other devices write the same row.                *)
(*                                                                         *)
(* A step of a tab is one run of JavaScript up to the next await: storage  *)
(* calls wait in the tab's chain and are done one at a time, requests and  *)
(* answers travel on their own, and a page may be closed at any point.     *)
(* All ops are about one item: quantity deltas, edits and ticks.           *)
(***************************************************************************)
EXTENDS OpHandlers, SequenceFilter

CONSTANTS Tabs,         \* tabs of the device
          OpIds,        \* op_ids, one per user action
          OpTypes,      \* the op types the user makes
          TheList, TheItem,
          MaxForeign,   \* bound: writes of other devices
          Faults,       \* what goes wrong in this instance, of AllFaults
          MaxFaults     \* bound: how many faults happen, of all kinds together

\* Pages closed, changes discarded, connections lost, sign-outs, requests
\* refused, without an answer or answered with 401.
AllFaults == {"close", "discard", "pause", "signOut", "refuse", "noAnswer", "401"}

ASSUME OneRow == TheList \in Lists /\ TheItem \in Items
ASSUME BoundsAreNats ==
    {MaxForeign, MaxFaults} \subseteq Nat
ASSUME FaultsAreKnown == Faults \subseteq AllFaults
ASSUME OpTypesAreKnown ==
    OpTypes \subseteq {"item.quantity_delta", "item.edit", "item.set_done"}

VARIABLES room,       \* the server's tables
          processed,  \* processed_ops
          net,        \* requests on their way
          disk,       \* the stored entries of the room (IndexedDB)
          saved,      \* the device's saved copy of the room
          tabs,       \* the pages
          used,       \* how much of each bound is used
          log,        \* op_ids in the order the server ran them
          seen,       \* per op_id: other devices' writes its author had seen
          dropped     \* op_ids discarded or refused

vars == <<room, processed, net, disk, saved, tabs, used, log, seen, dropped>>
serverVars == <<room, processed, log>>
deviceVars == <<disk, saved>>

-----------------------------------------------------------------------------
(* The shapes of what is stored, sent and shown.                           *)

\* The ops of the page, all about the one item.
UserOps ==
    {op \in [type : OpTypes, scope : {None}, list : {TheList}, item : {TheItem},
             name : Names \cup {None}, done : BOOLEAN \cup {None}, qty : {1, None},
             base : Nat \cup {None}, tag : {None}, newTag : {None}, tags : {<<>>}, sent : {None}] :
        /\ op.type = "item.edit" => op.name \in Names
        /\ op.type = "item.set_done" => op.done \in BOOLEAN
        /\ op.type = "item.quantity_delta" => op.qty = 1}

Stored  == [id : OpIds, op : UserOps, sent : BOOLEAN]
Codes   == {"", "changed_meanwhile", "duplicate_name", "list_unavailable", "item_not_found",
            "invalid_request", "op_id_reused", "refused"}
Answer  == [status : {"applied", "rejected", "error"}, code : Codes,
            uid : Lists \cup Items \cup {None}, cseq : Nat, seq : Nat]
RunOnce == [op : UserOps, answer : Answer, wrote : BOOLEAN]

\* A storage call; the reads name no entry, and only new bodies come with an op.
StorageCall ==
    {c \in [kind : {"init", "load", "pump", "add", "remove", "setOp", "setSent"},
            id : OpIds \cup {None}, op : UserOps \cup {None}, clean : BOOLEAN] :
        /\ c.kind \in {"add", "remove", "setOp", "setSent"} => c.id \in OpIds
        /\ c.kind \in {"add", "setOp"} => c.op \in UserOps}

\* Asked, below, is a copy of no data yet.
Copy == [seq : Nat \cup {-1}, row : ItemRow \cup {None}, foreign : Nat, has : SUBSET OpIds]

\* A projection of #pending.
Projection == [id : OpIds, twice : BOOLEAN, done : BOOLEAN \cup {None},
               appliedSeq : Nat \cup {None}, uncertain : BOOLEAN]

TabRecord ==
    [up : BOOLEAN, mem : Seq(Stored), sent : SUBSET OpIds, chain : Seq(StorageCall),
     pc : {"idle", "lock", "read", "mark", "call", "sleep"},
     cur : Stored \cup {None}, reply : Answer \cup {None}, paused : BOOLEAN, copy : Copy,
     pending : Seq(Projection), answered : [cseq : Nat, seq : Nat] \cup {None},
     sending : OpIds \cup {None}, current : BOOLEAN, feed : Copy \cup {None},
     settled : SUBSET OpIds]

ASSUME NoneIsNoRecord ==
    /\ None \notin Tabs \cup OpIds
    /\ None \notin Stored /\ None \notin RunOnce /\ None \notin Copy

\* What a page or the device holds of the row; has and foreign are the ops and
\* the other devices' writes that the data contains.
NoCopy == [seq |-> 0, row |-> None, has |-> {}, foreign |-> 0]
CopyNow ==
    [seq |-> room.seq, row |-> room.items[TheItem], foreign |-> used.foreign,
     has |-> {id \in OpIds : processed[id] # None /\ processed[id].answer.status = "applied"}]

\* A changes request that the server has not read yet.
Asked == [NoCopy EXCEPT !.seq = -1]

\* A tab whose page is not open.
ClosedTab ==
    [up |-> FALSE,
     mem |-> <<>>,       \* #entries
     sent |-> {},        \* #sent
     chain |-> <<>>,     \* storage calls that wait (#chain)
     pc |-> "idle",      \* where #pump is
     cur |-> None,       \* the entry #sendOne is at
     reply |-> None,     \* the answer that has arrived for it
     paused |-> TRUE,    \* #paused: until access is validated
     copy |-> NoCopy,    \* RoomStore #server and seq
     pending |-> <<>>,   \* RoomStore #pending
     answered |-> None,  \* RoomStore #answeredRows, of the one row
     sending |-> None,   \* RoomStore #sending
     current |-> TRUE,   \* the op at cur belongs to the view shown (#currentOp)
     feed |-> None,      \* None, Asked or the feed on its way
     settled |-> {}]     \* ops this view showed and heard were applied

\* One more fault of this kind.
MayFail(fault) == fault \in Faults /\ used.faults < MaxFaults

-----------------------------------------------------------------------------
(* Entries and the storage calls on them.                                  *)

Entry(id, op) == [id |-> id, op |-> op, sent |-> FALSE]
Ids(q) == {e.id : e \in ToSet(q)}
Without(q, id) == Picked(q, {k \in DOMAIN q : q[k].id # id})
WithOp(q, id, op) == [k \in DOMAIN q |-> IF q[k].id = id THEN [q[k] EXCEPT !.op = op] ELSE q[k]]
WithSent(q, id) == [k \in DOMAIN q |-> IF q[k].id = id THEN [q[k] EXCEPT !.sent = TRUE] ELSE q[k]]

Call(kind, id, op) == [kind |-> kind, id |-> id, op |-> op, clean |-> TRUE]
ReadFor(why) == Call(why, None, None)
Reads == {"init", "load", "pump"}
Enqueue(s, call) == [s EXCEPT !.chain = Append(@, call)]

\* #mutated: a read that a local change overlaps is repeated.
Mutated(s) == [s EXCEPT !.chain = [k \in DOMAIN @ |-> [@[k] EXCEPT !.clean = FALSE]]]

\* #removeEntry
RemoveEntry(s, id) ==
    Enqueue(Mutated([s EXCEPT !.sent = @ \ {id}, !.mem = Without(@, id)]),
            Call("remove", id, None))

\* #pump: one loop runs at a time in a tab.
Pump(s) == IF s.pc = "idle" THEN [s EXCEPT !.pc = "lock"] ELSE s

\* Variant: the answer of the last op is kept.
NextRoundKeepsReply(s) ==
    IF s.paused THEN [s EXCEPT !.pc = "idle"]
    ELSE Enqueue([s EXCEPT !.pc = "read"], ReadFor("pump"))

\* #sendAll, top of the loop: read the stored entries, or stop.
NextRound(s) ==
    LET t == [s EXCEPT !.cur = None, !.reply = None, !.current = TRUE]
    IN IF s.paused THEN [t EXCEPT !.pc = "idle"]
       ELSE Enqueue([t EXCEPT !.pc = "read"], ReadFor("pump"))

-----------------------------------------------------------------------------
(* RoomStore: what the page shows.                                         *)

Shown(id, op, uncertain) ==
    [id |-> id, twice |-> op.type = "item.quantity_delta", done |-> op.done,
     appliedSeq |-> None, uncertain |-> uncertain]

\* opQueued, opLoaded: an op already shown is not added again.
Show(s, e) ==
    IF e.id \in Ids(s.pending) THEN s
    ELSE [s EXCEPT !.pending = Append(@, Shown(e.id, e.op, e.sent))]

NotShown(s, q) == Picked(q, {k \in DOMAIN q : q[k].id \notin Ids(s.pending)})

\* Variant: a stored op is shown as if it had never been sent.
ShowAllAsNew(s, q) ==
    LET new == NotShown(s, q)
    IN [s EXCEPT !.pending = @ \o [k \in DOMAIN new |-> Shown(new[k].id, new[k].op, FALSE)]]

\* opLoaded for each of the stored entries, whose op_ids differ.
ShowAll(s, q) ==
    LET new == NotShown(s, q)
    IN [s EXCEPT !.pending = @ \o [k \in DOMAIN new |-> Shown(new[k].id, new[k].op, new[k].sent)]]

\* Of the ops in what is shown, the one a projection leaves out: sent without an
\* answer, and counted twice if the data has it already (overlay.ts, project).
Projected(p) == ~(p.uncertain /\ p.twice)

\* The tick the page shows: the last one waiting, or the data's.
ShownDone(s) ==
    LET ticks == {k \in DOMAIN s.pending : s.pending[k].done # None}
    IN IF ticks = {} THEN s.copy.row.done ELSE s.pending[Max(ticks)].done

\* knownSeq: the row's changed_seq as the page shows it.
KnownSeq(s) == IF s.copy.row = None THEN 0
               ELSE IF s.answered # None THEN s.answered.cseq ELSE s.copy.row.seq

Uncertain(s, id) ==
    [s EXCEPT !.pending = [k \in DOMAIN @ |->
        IF @[k].id = id THEN [@[k] EXCEPT !.uncertain = TRUE] ELSE @[k]]]

\* Variant: what is shown of an op stays.
DropNothing(s, id) == s

\* #waiting goes with the op: discarded, refused, failed, or in the data.
Drop(s, id) == [s EXCEPT !.pending = Without(@, id)]

\* Variant: the projection goes with the answer, before the data has the op.
OpSettledDrops(s, id, answer) ==
    Drop([s EXCEPT !.sending = None,
                   !.settled = IF answer.status = "applied" THEN @ \cup {id} ELSE @], id)

\* opSettled, for the view the op was sent from.
OpSettled(s, id, answer) ==
    LET t == [s EXCEPT !.sending = None,
                       !.settled = IF answer.status = "applied"
                                   THEN @ \cup ({id} \cap Ids(s.pending)) ELSE @,
                       !.answered = IF answer.status = "applied" /\ answer.cseq # 0
                                    THEN [cseq |-> answer.cseq, seq |-> answer.seq] ELSE @]
    IN IF answer.status # "applied" THEN Drop(t, id)
       ELSE IF answer.seq <= s.copy.seq
            THEN Drop(t, id)
       ELSE [t EXCEPT !.pending = [k \in DOMAIN @ |->
                          IF @[k].id = id
                          THEN [@[k] EXCEPT !.appliedSeq = answer.seq, !.uncertain = FALSE]
                          ELSE @[k]]]

\* clear(): the view forgets the room's data, not the queue.
Clear(s) ==
    [s EXCEPT !.copy = NoCopy, !.pending = <<>>, !.answered = None, !.sending = None,
              !.settled = {}, !.feed = None, !.current = FALSE]

-----------------------------------------------------------------------------
(* rebase.ts                                                               *)

\* R3: ops never sent whose base is the row's seq before the settled op take
\* the row's new seq.  Before: the op's own base, or the seq the page knows.
Rebased(s, op, answer) ==
    LET before == IF op.base # None THEN op.base ELSE KnownSeq(s)
    IN IF answer.status # "applied" \/ answer.cseq = 0 THEN {}
       ELSE {e.id : e \in {f \in ToSet(s.mem) : f.id \notin s.sent /\ f.op.base = before}}

ApplyRewrites(s, ids, cseq) ==
    LET move(e)    == IF e.id \in ids THEN [e EXCEPT !.op.base = cseq] ELSE e
        mem        == [k \in DOMAIN s.mem |-> move(s.mem[k])]
        changed    == Picked(mem, {k \in DOMAIN mem : mem[k].id \in ids})
        calls      == [k \in DOMAIN changed |-> Call("setOp", changed[k].id, changed[k].op)]
        t          == Mutated([s EXCEPT !.mem = mem])
    IN IF ids = {} THEN s ELSE [t EXCEPT !.chain = @ \o calls]

-----------------------------------------------------------------------------
(* The page.                                                               *)

\* #initialize: the stored ops, the saved copy, then validation; paused so far.
Open(t) ==
    /\ ~tabs[t].up
    /\ tabs' = [tabs EXCEPT ![t] = Enqueue([ClosedTab EXCEPT !.up = TRUE], ReadFor("init"))]
    /\ UNCHANGED <<serverVars, net, deviceVars, used, seen, dropped>>

\* Closed or reloaded: only what is stored is left, and requests already sent.
Close(t) ==
    /\ tabs[t].up
    /\ MayFail("close")
    /\ used' = [used EXCEPT !.faults = @ + 1]
    /\ tabs' = [tabs EXCEPT ![t] = ClosedTab]
    /\ net' = {[r EXCEPT !.tab = IF @ = t THEN None ELSE @] : r \in net}
    /\ UNCHANGED <<serverVars, deviceVars, seen, dropped>>

UserOp(type, name, done, qty, base) == Op(type, None, TheList, TheItem, name, done, qty, base)

OpsOnShown(s) ==
    {op \in {UserOp("item.quantity_delta", None, None, 1, None)}
              \cup {UserOp("item.edit", n, None, None, KnownSeq(s)) : n \in Names}
              \cup {UserOp("item.set_done", None, ~ShownDone(s), None, KnownSeq(s))} :
        op.type \in OpTypes}

\* send(), online or not: in memory, shown, stored when its turn comes.
Send(t) ==
    LET s == tabs[t]
    IN /\ s.up
       /\ s.copy.row # None
       /\ \E id \in {i \in OpIds : seen[i] = None}, op \in OpsOnShown(s) :
             LET e == Entry(id, op)
             IN /\ tabs' = [tabs EXCEPT ![t] =
                     Pump(Show(Enqueue(Mutated([s EXCEPT !.mem = Append(@, e)]),
                                       Call("add", id, op)), e))]
                /\ seen' = [seen EXCEPT ![id] = s.copy.foreign]
       /\ UNCHANGED <<serverVars, net, deviceVars, used, dropped>>

\* discard(): not for the op whose request is open here.
Discard(t) ==
    LET s == tabs[t]
    IN /\ s.up
       /\ MayFail("discard")
       /\ used' = [used EXCEPT !.faults = @ + 1]
       /\ \E id \in Ids(s.mem) :
             /\ ~(s.pc \in {"mark", "call"} /\ s.cur.id = id)
             /\ tabs' = [tabs EXCEPT ![t] = Pump(Drop(RemoveEntry(s, id), id))]
             /\ dropped' = dropped \cup {id}
       /\ UNCHANGED <<serverVars, net, deviceVars, seen>>

\* The connection is lost, or access is checked again: nothing new is sent.
Pause(t) ==
    /\ tabs[t].up
    /\ ~tabs[t].paused
    /\ MayFail("pause")
    /\ used' = [used EXCEPT !.faults = @ + 1]
    /\ tabs' = [tabs EXCEPT ![t].paused = TRUE]
    /\ UNCHANGED <<serverVars, net, deviceVars, seen, dropped>>

\* #blockAndClear: another tab signed out, or a read was answered with 401.
SignedOut(t) ==
    /\ tabs[t].up
    /\ MayFail("signOut")
    /\ used' = [used EXCEPT !.faults = @ + 1, !.signOuts = @ + 1]
    /\ tabs' = [tabs EXCEPT ![t] = Clear([tabs[t] EXCEPT !.paused = TRUE])]
    /\ saved' = NoCopy
    /\ UNCHANGED <<serverVars, net, disk, seen, dropped>>

\* refresh(): LiveUpdates named a newer seq, or access is being validated; never
\* while an answer is open.
AskFeed(t) ==
    LET s == tabs[t]
    IN /\ s.up
       /\ s.feed = None
       /\ s.sending = None
       /\ s.paused \/ s.copy.seq < room.seq
       /\ \A c \in ToSet(s.chain) : c.kind \notin {"init", "load"}
       /\ tabs' = [tabs EXCEPT ![t].feed = Asked]
       /\ UNCHANGED <<serverVars, net, deviceVars, used, seen, dropped>>

AnswerFeed(t) ==
    /\ tabs[t].feed = Asked
    /\ tabs' = [tabs EXCEPT ![t].feed = CopyNow]
    /\ UNCHANGED <<serverVars, net, deviceVars, used, seen, dropped>>

\* #load: a write went out meanwhile, or an older answer.
IgnoresFeed(s) == s.sending # None \/ s.feed.seq < s.copy.seq

\* applyFeed, and after a validation queue.load() and resume().  The copy is
\* saved on the device unless storage fails.
TakeFeed(t) ==
    LET s     == tabs[t]
        later == [s EXCEPT !.feed = None]
        fresh == [later EXCEPT
                    !.copy = s.feed,
                    !.pending = Picked(@, {k \in DOMAIN @ :
                                    @[k].appliedSeq = None \/ @[k].appliedSeq > s.feed.seq}),
                    !.answered = IF @ # None /\ @.seq > s.feed.seq THEN @ ELSE None]
    IN /\ s.up
       /\ s.feed \notin {None, Asked}
       /\ IF IgnoresFeed(s)
          THEN tabs' = [tabs EXCEPT ![t] = later] /\ UNCHANGED saved
          ELSE /\ tabs' = [tabs EXCEPT ![t] = IF s.paused THEN Enqueue(fresh, ReadFor("load"))
                                              ELSE fresh]
               /\ saved' \in {saved, s.feed}
       /\ UNCHANGED <<serverVars, net, disk, used, seen, dropped>>

-----------------------------------------------------------------------------
(* The send loop.                                                          *)

Sends(s) == s.pc \notin {"idle", "lock"}

\* Variant: a tab does not wait for the lock.
TakeLockAtOnce(t) ==
    /\ tabs[t].pc = "lock"
    /\ tabs' = [tabs EXCEPT ![t] = NextRound(@)]
    /\ UNCHANGED <<serverVars, net, deviceVars, used, seen, dropped>>

\* withQueueLock: the tab that holds the lock sends.
TakeLock(t) ==
    /\ tabs[t].pc = "lock"
    /\ \A u \in Tabs : ~Sends(tabs[u])
    /\ tabs' = [tabs EXCEPT ![t] = NextRound(@)]
    /\ UNCHANGED <<serverVars, net, deviceVars, used, seen, dropped>>

Request(s, t) == [id |-> s.cur.id, op |-> s.cur.op, tab |-> t]

\* #nextReady has read the entries; #sendOne and #call up to their first await.
SendFirst(s, t) ==
    IF s.mem = <<>> THEN [tab |-> [s EXCEPT !.pc = "idle"], out |-> {}]
    ELSE LET e   == Head(s.mem)
             out == [s EXCEPT !.cur = e, !.sending = e.id, !.current = TRUE]
         IN IF e.id \in s.sent
            THEN [tab |-> [out EXCEPT !.pc = "call"], out |-> {Request(out, t)}]
            ELSE [tab |-> Enqueue([out EXCEPT !.pc = "mark", !.sent = @ \cup {e.id}],
                                  Call("setSent", e.id, None)),
                  out |-> {}]

\* Variant: a tab trusts its own entries while it has some.
LoadedOnce(s) == IF s.mem # <<>> THEN s ELSE [s EXCEPT !.mem = disk]

\* #readStored
Loaded(s) == [s EXCEPT !.mem = disk, !.sent = @ \cup {e.id : e \in {f \in ToSet(disk) : f.sent}}]

\* A read of the stored entries is done: what its caller does with them.
AfterRead(s, why, t) ==
    CASE why = "init" -> [tab |-> [ShowAll(Loaded(s), disk) EXCEPT !.copy = saved], out |-> {}]
      [] why = "load" -> [tab |-> Pump([ShowAll(Loaded(s), disk) EXCEPT !.paused = FALSE]),
                          out |-> {}]
      [] why = "pump" -> SendFirst(Loaded(s), t)

ReadEntries(t) ==
    LET s == tabs[t]
        c == Head(s.chain)
        r == [s EXCEPT !.chain = Tail(@)]
    IN /\ s.chain # <<>>
       /\ c.kind \in Reads
       /\ IF c.clean
          THEN LET next == AfterRead(r, c.kind, t)
               IN tabs' = [tabs EXCEPT ![t] = next.tab] /\ net' = net \cup next.out
          ELSE tabs' = [tabs EXCEPT ![t] = Enqueue(r, ReadFor(c.kind))] /\ UNCHANGED net
       /\ UNCHANGED <<serverVars, deviceVars, used, seen, dropped>>

\* The stored mark the request of #call waits for.
Marked(s, c) == c.kind = "setSent" /\ s.pc = "mark" /\ s.cur.id = c.id

WriteEntries(t) ==
    LET s == tabs[t]
        c == Head(s.chain)
        r == [s EXCEPT !.chain = Tail(@)]
    IN /\ s.chain # <<>>
       /\ c.kind \notin Reads
       /\ disk' = CASE c.kind = "add"     -> Append(disk, Entry(c.id, c.op))
                    [] c.kind = "remove"  -> Without(disk, c.id)
                    [] c.kind = "setOp"   -> WithOp(disk, c.id, c.op)
                    [] c.kind = "setSent" -> WithSent(disk, c.id)
       /\ IF Marked(s, c)
          THEN tabs' = [tabs EXCEPT ![t] = [r EXCEPT !.pc = "call"]] /\ net' = net \cup {Request(s, t)}
          ELSE tabs' = [tabs EXCEPT ![t] = r] /\ UNCHANGED net
       /\ UNCHANGED <<serverVars, saved, used, seen, dropped>>

\* A definite answer: the entry goes, then R3.
Settle(t) ==
    LET s      == tabs[t]
        id     == s.cur.id
        answer == s.reply
        gone   == RemoveEntry(s, id)
        told   == IF ~s.current THEN gone ELSE OpSettled(gone, id, answer)
    IN /\ s.pc = "call"
       /\ answer # None
       /\ answer.status # "error"
       /\ tabs' = [tabs EXCEPT ![t] =
                      NextRound(ApplyRewrites(told, Rebased(gone, s.cur.op, answer), answer.cseq))]
       /\ UNCHANGED <<serverVars, net, deviceVars, used, seen, dropped>>

\* Any other HTTP error: the change goes to the Not saved list.
Fail(t) ==
    LET s    == tabs[t]
        id   == s.cur.id
        gone == RemoveEntry(s, id)
    IN /\ s.pc = "call"
       /\ s.reply # None
       /\ s.reply.status = "error"
       /\ tabs' = [tabs EXCEPT ![t] =
                      NextRound(IF s.current THEN [Drop(gone, id) EXCEPT !.sending = None] ELSE gone)]
       /\ dropped' = dropped \cup {id}
       /\ UNCHANGED <<serverVars, net, deviceVars, used, seen>>

\* No answer, or 502 to 504: the request may still arrive, or it ran and its
\* answer is lost.  The loop sleeps with the lock.
NoAnswer(t) ==
    LET s == tabs[t]
    IN /\ s.pc = "call"
       /\ MayFail("noAnswer")
       /\ used' = [used EXCEPT !.faults = @ + 1]
       /\ tabs' = [tabs EXCEPT ![t] =
              [(IF s.current THEN [Uncertain(s, s.cur.id) EXCEPT !.sending = None] ELSE s)
                  EXCEPT !.pc = "sleep", !.reply = None]]
       /\ \/ net' = {r \in net : r.tab # t}
          \/ net' = {[r EXCEPT !.tab = IF @ = t THEN None ELSE @] : r \in net}
       /\ UNCHANGED <<serverVars, deviceVars, seen, dropped>>

Wake(t) ==
    /\ tabs[t].pc = "sleep"
    /\ tabs' = [tabs EXCEPT ![t] = NextRound(@)]
    /\ UNCHANGED <<serverVars, net, deviceVars, used, seen, dropped>>

\* 401: the view is cleared, the entry stays.
Unauthorized(t) ==
    LET s == tabs[t]
    IN /\ s.pc = "call"
       /\ s.current
       /\ MayFail("401")
       /\ \E r \in net : r.tab = t
       /\ net' = {r \in net : r.tab # t}
       /\ used' = [used EXCEPT !.faults = @ + 1]
       /\ tabs' = [tabs EXCEPT ![t] = NextRound(Clear([s EXCEPT !.paused = TRUE]))]
       /\ saved' = NoCopy
       /\ UNCHANGED <<serverVars, disk, seen, dropped>>

-----------------------------------------------------------------------------
(* The server and other devices.                                           *)

Deliver(r, answer) ==
    /\ net' = net \ {r}
    /\ tabs' = IF r.tab = None THEN tabs ELSE [tabs EXCEPT ![r.tab].reply = answer]

\* run_once_locked
Serve(r) ==
    LET outcome == Outcome(room, r.op)
        answer  == AnswerOf(outcome)
    IN /\ \/ /\ processed[r.id] = None
             /\ room' = outcome.room
             /\ processed' = [processed EXCEPT ![r.id] =
                              [op |-> r.op, answer |-> answer, wrote |-> outcome.room # room]]
             /\ log' = Append(log, r.id)
             /\ Deliver(r, answer)
          \/ /\ processed[r.id] # None
             /\ Deliver(r, IF processed[r.id].op = r.op THEN processed[r.id].answer
                           ELSE AnswerOf(HttpError(room, "op_id_reused")))
             /\ UNCHANGED serverVars
       /\ UNCHANGED <<deviceVars, used, seen, dropped>>

\* A limit or a server error: nothing is stored.
Refuse(r) ==
    /\ MayFail("refuse")
    /\ used' = [used EXCEPT !.faults = @ + 1]
    /\ Deliver(r, AnswerOf(HttpError(room, "refused")))
    /\ UNCHANGED <<serverVars, deviceVars, seen, dropped>>

Foreign ==
    /\ used.foreign < MaxForeign
    /\ used' = [used EXCEPT !.foreign = @ + 1]
    /\ \E n \in Names \ {room.items[TheItem].name} :
          room' = PutItem(room, TheItem, [room.items[TheItem] EXCEPT !.name = n])
    /\ UNCHANGED <<processed, log, net, deviceVars, tabs, seen, dropped>>

Init ==
    /\ room \in {[seq |-> 1, name |-> n, gone |-> {},
                  lists |-> [l \in Lists |-> NewList(n)],
                  items |-> [i \in Items |->
                      [list |-> TheList, name |-> n, done |-> FALSE, qty |-> 1,
                       tags |-> <<>>, seq |-> 1]]] : n \in Names}
    /\ processed = [id \in OpIds |-> None]
    /\ net = {}
    /\ disk = <<>>
    /\ used = [foreign |-> 0, faults |-> 0, signOuts |-> 0]
    /\ saved = CopyNow
    /\ tabs = [t \in Tabs |-> ClosedTab]
    /\ log = <<>>
    /\ seen = [id \in OpIds |-> None]
    /\ dropped = {}

Loop(t) ==
    \/ TakeLock(t) \/ ReadEntries(t) \/ WriteEntries(t)
    \/ Settle(t) \/ Fail(t) \/ Wake(t)

Page(t) ==
    \/ Open(t) \/ Close(t) \/ Send(t) \/ Discard(t) \/ Pause(t) \/ SignedOut(t)
    \/ AskFeed(t) \/ AnswerFeed(t) \/ TakeFeed(t)
    \/ NoAnswer(t) \/ Unauthorized(t)

Server == \E r \in net : Serve(r) \/ Refuse(r)

Next == (\E t \in Tabs : Page(t) \/ Loop(t)) \/ Server \/ Foreign

Spec == Init /\ [][Next]_vars

-----------------------------------------------------------------------------
(* Properties.                                                             *)

\* The shapes: an op under way has one request at most and an answer only while
\* it is waited for, and only ops the user made are stored, run or given up.
TypeOK ==
    /\ room \in Room
    /\ processed \in [OpIds -> RunOnce \cup {None}]
    /\ net \subseteq [id : OpIds, op : UserOps, tab : Tabs \cup {None}]
    /\ disk \in Seq(Stored)
    /\ saved \in Copy
    /\ tabs \in [Tabs -> TabRecord]
    /\ used \in [foreign : Nat, faults : Nat, signOuts : Nat]
    /\ log \in Seq(OpIds)
    /\ seen \in [OpIds -> Nat \cup {None}]
    /\ dropped \subseteq OpIds
    /\ \A id \in OpIds : seen[id] = None => id \notin Ids(disk) \cup ToSet(log) \cup dropped
    /\ \A t \in Tabs :
          /\ tabs[t].cur # None <=> tabs[t].pc \in {"mark", "call", "sleep"}
          /\ tabs[t].reply # None => tabs[t].pc = "call"
    /\ \A r, q \in net : r.tab = q.tab /\ r.tab # None => r = q

\* No sign-out cleared a view: one that comes while an answer is open leaves the
\* op's projection without the answer that would settle it.
NeverSignedOut == used.signOuts = 0

\* A change that the shown data contains already is not projected on top of it:
\* whatever answers are lost and pages reloaded, a delta counts once (project,
\* refresh, opLoaded).
CountedOnce ==
    NeverSignedOut => \A t \in Tabs : \A p \in ToSet(tabs[t].pending) :
       p.twice /\ Projected(p) => p.id \notin tabs[t].copy.has

\* A change the page heard was applied stays shown, by its projection or by the
\* data, until the view is cleared (opSettled, applyFeed).
AnsweredStaysShown ==
    \A t \in Tabs : \A id \in tabs[t].settled :
       \/ ~processed[id].wrote
       \/ id \in tabs[t].copy.has
       \/ \E p \in ToSet(tabs[t].pending) : p.id = id /\ Projected(p)

\* A change shown as not answered is one the queue still has: no projection is
\* left behind over newer data.
ShownIsWaiting ==
    NeverSignedOut => \A t \in Tabs : \A p \in ToSet(tabs[t].pending) :
       p.appliedSeq = None => p.id \in Ids(tabs[t].mem)

\* An op_id keeps meaning the body it was sent with (rebase.ts): no resend is
\* answered with op_id_reused.
OpIdMeansOneBody ==
    \A r \in net : processed[r.id] # None => processed[r.id].op = r.op

\* R2: a set op that changes the row was made by someone who had seen every
\* other device's write of it.
NoSilentOverwrite ==
    [][\A id \in OpIds :
          /\ processed'[id] # processed[id]
          /\ processed'[id].op.base # None
          /\ room'.items # room.items
          => seen[id] = used.foreign]_vars

\* The stored queue is an outbox: every change runs at most once, in the order
\* the changes were made, and leaves storage when it ran or was given up.
Promise == INSTANCE Outbox WITH
    Changes <- OpIds,
    waiting <- [k \in DOMAIN disk |-> disk[k].id],
    ran <- log,
    givenUp <- dropped

KeepsPromise == Promise!Spec
=============================================================================
