------------------------ MODULE OfflineQueueProofs ------------------------
(***************************************************************************)
(* Proofs about OfflineQueue, for any number of tabs, ops and faults: the  *)
(* stored queue implements Outbox.                                         *)
(*                                                                         *)
(* The hard part is that only the oldest stored change runs.  A request    *)
(* travels on its own while its tab closes, the user discards, and other   *)
(* tabs remove and add entries, so the invariant says of each request that *)
(* its op is over (it ran, or was given up) or still the oldest entry in   *)
(* storage (Requests).  An entry stays the oldest because removals that    *)
(* wait in a chain are of ops that are over (CallOK), and additions that   *)
(* wait are of ops that nobody has stored or sent yet and are all          *)
(* different (AddsAreNew, AddsDiffer).  A tab sends the head of what it    *)
(* has just read from storage, so before a request leaves, its op is in    *)
(* front; the mark that it was sent is stored while the op stays in front  *)
(* (EntriesOK).  None of this needs the lock.                              *)
(*                                                                         *)
(* That an op_id keeps its body does need it: BodyInv.                     *)
(*                                                                         *)
(* Then what the page shows of a change: that it stays shown once answered *)
(* (DataInv, PageInv), in any number of tabs, and that in one tab it is    *)
(* counted once and not left behind (WaitInv).                             *)
(*                                                                         *)
(* The argument is per tab: OneTabStep is what a step of one tab has to    *)
(* show for QueueInv to hold after it.                                     *)
(***************************************************************************)
EXTENDS OfflineQueue, SequenceFilterProofs, TLAPS

RoomOK(r) == r \in Room /\ r.items[TheItem] \in ItemRow

\* The op_ids that an action of the user has taken, those of changes that need
\* not be stored any more, and those that may run: the oldest stored one too.
MadeIds  == {id \in OpIds : seen[id] # None}
OverIds  == ToSet(log) \cup dropped
FrontIds == OverIds \cup {disk[k].id : k \in DOMAIN disk \cap {1}}

\* What has been stored, and so is no new change.
TouchedIds ==
    UNION {Ids(disk), ToSet(log), {r.id : r \in net}, UNION {tabs[t].sent : t \in Tabs}}

\* A storage call that waits: its change is not lost by it.
CallOK(c, s, made, over) ==
    /\ c.kind = "add" => c.id \in made
    /\ c.kind = "remove" => c.id \in over
    /\ c.kind = "pump" => s.pc = "read"

OnePump(s) ==
    \A k, l \in DOMAIN s.chain : s.chain[k].kind = "pump" /\ s.chain[l].kind = "pump" => k = l

\* A tab sends only what is in front, and forgets only what is over.
EntriesOK(s, made, over, front) ==
    /\ s.cur # None <=> s.pc \in {"mark", "call", "sleep"}
    /\ s.reply # None => s.pc = "call" /\ (s.reply.status # "error" => s.cur.id \in over)
    /\ s.chain # <<>> \/ s.pc # "idle" => s.up
    /\ Ids(s.mem) \cup s.sent \subseteq made
    /\ s.cur # None => s.cur.id \in made
    /\ s.pc = "mark" => s.cur.id \in s.sent \cap front

TabOK(s, made, over, front) ==
    /\ EntriesOK(s, made, over, front)
    /\ \A k \in DOMAIN s.chain : CallOK(s.chain[k], s, made, over)
    /\ OnePump(s)

\* The tab that waits for a request has this one open.
Awaits(r, ts) ==
    r.tab # None => ts[r.tab].pc = "call" /\ ts[r.tab].reply = None /\ ts[r.tab].cur.id = r.id

Shapes ==
    /\ RoomOK(room)
    /\ processed \in [OpIds -> RunOnce \cup {None}]
    /\ net \subseteq [id : OpIds, op : UserOps, tab : Tabs \cup {None}]
    /\ disk \in Seq(Stored)
    /\ saved \in Copy
    /\ tabs \in [Tabs -> TabRecord]
    /\ used \in [foreign : Nat, faults : Nat, signOuts : Nat]
    /\ log \in Seq(OpIds)
    /\ seen \in [OpIds -> Nat \cup {None}]
    /\ dropped \subseteq OpIds

Requests ==
    /\ \A r, q \in net : r.tab = q.tab /\ r.tab # None => r = q
    /\ \A r \in net : r.id \in MadeIds \cap FrontIds /\ Awaits(r, tabs)

EntriesDiffer == \A k, l \in DOMAIN disk : disk[k].id = disk[l].id => k = l

AddsDiffer ==
    \A t, u \in Tabs : \A k \in DOMAIN tabs[t].chain, l \in DOMAIN tabs[u].chain :
       /\ tabs[t].chain[k].kind = "add"
       /\ tabs[u].chain[l].kind = "add"
       /\ tabs[t].chain[k].id = tabs[u].chain[l].id
       => t = u /\ k = l

AddsAreNew ==
    \A t \in Tabs : \A k \in DOMAIN tabs[t].chain :
       tabs[t].chain[k].kind = "add" => tabs[t].chain[k].id \notin TouchedIds

LogIsProcessed == \A id \in OpIds : processed[id] # None <=> id \in ToSet(log)

QueueInv ==
    /\ Shapes
    /\ Ids(disk) \cup OverIds \subseteq MadeIds
    /\ LogIsProcessed
    /\ EntriesDiffer
    /\ AddsDiffer
    /\ AddsAreNew
    /\ Requests
    /\ \A t \in Tabs : TabOK(tabs[t], MadeIds, OverIds, FrontIds)

-----------------------------------------------------------------------------
(* What the operators on a tab return.                                     *)

\* A step of what a page shows leaves its queue alone.
SameQueue(p, s) ==
    /\ p \in TabRecord
    /\ p.up = s.up /\ p.mem = s.mem /\ p.sent = s.sent /\ p.chain = s.chain
    /\ p.pc = s.pc /\ p.cur = s.cur /\ p.reply = s.reply /\ p.paused = s.paused

LEMMA ShownIs ==
    ASSUME NEW id \in OpIds, NEW op \in UserOps, NEW uncertain \in BOOLEAN
    PROVE  Shown(id, op, uncertain) \in Projection
BY NoneIsNone DEF Shown, Projection, UserOps

LEMMA PendingIs ==
    ASSUME NEW s \in TabRecord, NEW q \in Seq(Projection)
    PROVE  SameQueue([s EXCEPT !.pending = q], s)
BY DEF SameQueue, TabRecord

LEMMA ShowIs ==
    ASSUME NEW s \in TabRecord, NEW e \in Stored
    PROVE  SameQueue(Show(s, e), s)
<1>1. e.id \in OpIds /\ e.op \in UserOps /\ e.sent \in BOOLEAN
  BY DEF Stored
<1>2. CASE e.id \in Ids(s.pending)
  <2>1. Show(s, e) = s
    BY <1>2 DEF Show
  <2> QED BY <2>1 DEF SameQueue
<1>3. CASE e.id \notin Ids(s.pending)
  <2> DEFINE q == Append(s.pending, Shown(e.id, e.op, e.sent))
  <2>1. Show(s, e) = [s EXCEPT !.pending = q]
    BY <1>3 DEF Show
  <2>2. s.pending \in Seq(Projection)
    BY DEF TabRecord
  <2>3. q \in Seq(Projection)
    BY <1>1, <2>2, ShownIs, AppendProperties
  <2> HIDE DEF q
  <2> QED BY <2>1, <2>3, PendingIs
<1> QED BY <1>2, <1>3

LEMMA ShowAllIs ==
    ASSUME NEW s \in TabRecord, NEW q \in Seq(Stored)
    PROVE  SameQueue(ShowAll(s, q), s)
<1> DEFINE new   == NotShown(s, q)
           shown == [k \in DOMAIN new |-> Shown(new[k].id, new[k].op, new[k].sent)]
<1>1. new \in Seq(Stored)
  BY PickedAreThere DEF NotShown
<1>2. \A k \in DOMAIN new : new[k] \in Stored
  BY <1>1, ElementsOf
<1> HIDE DEF new
<1>3. \A k \in DOMAIN new : shown[k] \in Projection
  BY <1>2, ShownIs DEF Stored
<1>4. shown = [k \in DOMAIN new |-> shown[k]]
  OBVIOUS
<1> HIDE DEF shown
<1>5. shown \in Seq(Projection)
  BY <1>1, <1>3, <1>4, EachIsTyped
<1>6. s.pending \in Seq(Projection)
  BY DEF TabRecord
<1>7. s.pending \o shown \in Seq(Projection)
  BY <1>5, <1>6, ConcatProperties
<1>8. ShowAll(s, q) = [s EXCEPT !.pending = s.pending \o shown]
  BY DEF ShowAll, new, shown
<1> QED BY <1>7, <1>8, PendingIs

LEMMA UncertainIs ==
    ASSUME NEW s \in TabRecord, NEW id
    PROVE  SameQueue(Uncertain(s, id), s)
<1> DEFINE q == [k \in DOMAIN s.pending |->
                   IF s.pending[k].id = id THEN [s.pending[k] EXCEPT !.uncertain = TRUE]
                   ELSE s.pending[k]]
<1>1. s.pending \in Seq(Projection)
  BY DEF TabRecord
<1>2. \A k \in DOMAIN s.pending : s.pending[k] \in Projection
  BY <1>1, ElementsOf
<1>3. \A k \in DOMAIN s.pending : q[k] \in Projection
  BY <1>2 DEF Projection
<1>4. q = [k \in DOMAIN s.pending |-> q[k]]
  OBVIOUS
<1>5. Uncertain(s, id) = [s EXCEPT !.pending = q]
  BY DEF Uncertain
<1> HIDE DEF q
<1>6. q \in Seq(Projection)
  BY <1>1, <1>3, <1>4, EachIsTyped
<1> QED BY <1>5, <1>6, PendingIs

LEMMA DropIs ==
    ASSUME NEW s \in TabRecord, NEW id
    PROVE  SameQueue(Drop(s, id), s)
<1>1. s.pending \in Seq(Projection)
  BY DEF TabRecord
<1>2. Without(s.pending, id) \in Seq(Projection)
  BY <1>1, PickedAreThere DEF Without
<1>3. Drop(s, id) = [s EXCEPT !.pending = Without(s.pending, id)]
  BY DEF Drop
<1> QED BY <1>2, <1>3, PendingIs

LEMMA OpSettledIs ==
    ASSUME NEW s \in TabRecord, NEW id \in OpIds, NEW answer \in Answer
    PROVE  SameQueue(OpSettled(s, id, answer), s)
<1> DEFINE settled  == IF answer.status = "applied" THEN s.settled \cup ({id} \cap Ids(s.pending))
                       ELSE s.settled
           answered == IF answer.status = "applied" /\ answer.cseq # 0
                       THEN [cseq |-> answer.cseq, seq |-> answer.seq] ELSE s.answered
           t == [s EXCEPT !.sending = None, !.settled = settled, !.answered = answered]
           q == [k \in DOMAIN t.pending |->
                   IF t.pending[k].id = id
                   THEN [t.pending[k] EXCEPT !.appliedSeq = answer.seq, !.uncertain = FALSE]
                   ELSE t.pending[k]]
<1>1. settled \in SUBSET OpIds
  BY DEF TabRecord
<1>2. answered \in [cseq : Nat, seq : Nat] \cup {None}
  BY DEF TabRecord, Answer
<1>3. OpSettled(s, id, answer) \in {Drop(t, id), [t EXCEPT !.pending = q]}
  BY DEF OpSettled
<1> HIDE DEF settled, answered
<1>4. SameQueue(t, s)
  BY <1>1, <1>2 DEF TabRecord, SameQueue
<1> HIDE DEF t
<1>5. SameQueue(Drop(t, id), t)
  BY <1>4, DropIs DEF SameQueue
<1>6. SameQueue([t EXCEPT !.pending = q], t)
  <2>1. t.pending \in Seq(Projection)
    BY <1>4 DEF TabRecord, SameQueue
  <2>2. \A k \in DOMAIN t.pending : t.pending[k] \in Projection
    BY <2>1, ElementsOf
  <2>3. \A k \in DOMAIN t.pending : q[k] \in Projection
    BY <2>2 DEF Projection, Answer
  <2>4. q = [k \in DOMAIN t.pending |-> q[k]]
    OBVIOUS
  <2> HIDE DEF q
  <2>5. q \in Seq(Projection)
    BY <2>1, <2>3, <2>4, EachIsTyped
  <2> QED BY <1>4, <2>5, PendingIs DEF SameQueue
<1> QED BY <1>3, <1>4, <1>5, <1>6 DEF SameQueue

LEMMA NoCopyIs == NoCopy \in Copy /\ Asked \in Copy
BY DEF NoCopy, Asked, Copy

LEMMA ClearIs ==
    ASSUME NEW s \in TabRecord
    PROVE  SameQueue(Clear(s), s)
<1>1. NoCopy \in Copy /\ <<>> \in Seq(Projection)
  BY NoCopyIs
<1> QED BY <1>1 DEF Clear, TabRecord, SameQueue

-----------------------------------------------------------------------------
(* What the operators do to the queue's part of a tab: its entries and the  *)
(* storage calls that wait.                                                 *)

\* The calls of q after the first d, with others behind them.
Follows(p, q, d) ==
    /\ Len(q) - d <= Len(p)
    /\ \A k \in 1..(Len(q) - d) :
          p[k].kind = q[k + d].kind /\ p[k].id = q[k + d].id /\ p[k].op = q[k + d].op

LEMMA FollowsAgain ==
    ASSUME NEW A, NEW o \in Seq(A), NEW p \in Seq(A), NEW q \in Seq(A), NEW d \in Nat,
           Follows(p, q, d), Follows(o, p, 0)
    PROVE  Follows(o, q, d)
<1>1. Len(o) \in Nat /\ Len(p) \in Nat /\ Len(q) \in Nat
  OBVIOUS
<1>2. ASSUME NEW k \in 1..(Len(q) - d)
      PROVE  o[k].kind = q[k + d].kind /\ o[k].id = q[k + d].id /\ o[k].op = q[k + d].op
  <2>1. k \in 1..(Len(p) - 0) /\ k + 0 = k
    BY <1>1 DEF Follows
  <2> QED BY <2>1 DEF Follows
<1> QED BY <1>1, <1>2 DEF Follows

LEMMA FollowsItself ==
    ASSUME NEW A, NEW q \in Seq(A)
    PROVE  Follows(q, q, 0)
BY DEF Follows

LEMMA AppendFollows ==
    ASSUME NEW A, NEW p \in Seq(A), NEW q \in Seq(A), NEW c \in A, NEW d \in Nat, Follows(p, q, d)
    PROVE  /\ Follows(Append(p, c), q, d)
           /\ Append(p, c) \in Seq(A)
           /\ Len(Append(p, c)) = Len(p) + 1
           /\ Append(p, c)[Len(p) + 1] = c
           /\ \A k \in 1..Len(p) : Append(p, c)[k] = p[k]
<1>1. /\ Append(p, c) \in Seq(A)
      /\ Len(Append(p, c)) = Len(p) + 1
      /\ Append(p, c)[Len(p) + 1] = c
      /\ \A k \in 1..Len(p) : Append(p, c)[k] = p[k]
      /\ Len(p) \in Nat /\ Len(q) \in Nat
  BY AppendProperties
<1>2. \A k \in 1..(Len(q) - d) : k \in 1..Len(p)
  BY <1>1 DEF Follows
<1> QED BY <1>1, <1>2 DEF Follows

LEMMA TailFollows ==
    ASSUME NEW A, NEW q \in Seq(A), q # <<>>
    PROVE  /\ Follows(Tail(q), q, 1)
           /\ Tail(q) \in Seq(A)
           /\ Len(Tail(q)) = Len(q) - 1
           /\ Head(q) = q[1] /\ q[1] \in A
           /\ Len(q) >= 1
<1>1. /\ Tail(q) \in Seq(A) /\ Len(Tail(q)) = Len(q) - 1
      /\ \A k \in 1..Len(Tail(q)) : Tail(q)[k] = q[k + 1]
      /\ Len(q) \in Nat /\ Len(q) >= 1
  BY HeadTailProperties
<1>2. Head(q) = q[1] /\ q[1] \in A
  BY <1>1
<1> QED BY <1>1, <1>2 DEF Follows

LEMMA CallIs ==
    ASSUME NEW kind, NEW id, NEW op
    PROVE  /\ Call(kind, id, op).kind = kind
           /\ Call(kind, id, op).id = id
           /\ Call(kind, id, op).op = op
           /\ kind \in {"init", "load", "pump"} /\ id = None /\ op = None
              => Call(kind, id, op) \in StorageCall
           /\ kind \in {"remove", "setSent"} /\ id \in OpIds /\ op = None
              => Call(kind, id, op) \in StorageCall
           /\ kind \in {"add", "setOp"} /\ id \in OpIds /\ op \in UserOps
              => Call(kind, id, op) \in StorageCall
BY DEF Call, StorageCall

LEMMA ReadForIs ==
    ASSUME NEW why \in Reads
    PROVE  ReadFor(why) \in StorageCall /\ ReadFor(why).kind = why
BY CallIs DEF ReadFor, Reads

\* The rest of a tab stays.
SameButChain(p, s) ==
    /\ p \in TabRecord
    /\ p.up = s.up /\ p.mem = s.mem /\ p.sent = s.sent
    /\ p.pc = s.pc /\ p.cur = s.cur /\ p.reply = s.reply /\ p.paused = s.paused

LEMMA EnqueueIs ==
    ASSUME NEW s \in TabRecord, NEW c \in StorageCall
    PROVE  /\ SameButChain(Enqueue(s, c), s)
           /\ Enqueue(s, c).chain = Append(s.chain, c)
<1>1. s.chain \in Seq(StorageCall)
  BY DEF TabRecord
<1>2. Append(s.chain, c) \in Seq(StorageCall)
  BY <1>1, AppendProperties
<1> QED BY <1>2 DEF Enqueue, SameButChain, TabRecord

LEMMA MutatedIs ==
    ASSUME NEW s \in TabRecord
    PROVE  /\ SameButChain(Mutated(s), s)
           /\ Follows(Mutated(s).chain, s.chain, 0)
           /\ Len(Mutated(s).chain) = Len(s.chain)
<1> DEFINE p == [k \in DOMAIN s.chain |-> [s.chain[k] EXCEPT !.clean = FALSE]]
<1>1. s.chain \in Seq(StorageCall) /\ Len(s.chain) \in Nat /\ DOMAIN s.chain = 1..Len(s.chain)
  BY DEF TabRecord
<1>2. \A k \in DOMAIN s.chain : s.chain[k] \in StorageCall
  BY <1>1, ElementsOf
<1>3. \A k \in DOMAIN s.chain :
         /\ p[k] \in StorageCall
         /\ p[k].kind = s.chain[k].kind /\ p[k].id = s.chain[k].id /\ p[k].op = s.chain[k].op
  BY <1>2 DEF StorageCall
<1>4. p = [k \in DOMAIN s.chain |-> p[k]]
  OBVIOUS
<1>5. Mutated(s) = [s EXCEPT !.chain = p]
  BY DEF Mutated
<1> HIDE DEF p
<1>6. p \in Seq(StorageCall) /\ Len(p) = Len(s.chain)
  <2>1. \A k \in DOMAIN s.chain : p[k] \in StorageCall
    BY <1>3
  <2> QED BY <1>1, <1>4, <2>1, EachIsTyped
<1>7. SameButChain(Mutated(s), s) /\ Mutated(s).chain = p
  BY <1>5, <1>6 DEF SameButChain, TabRecord
<1>8. Follows(p, s.chain, 0)
  BY <1>1, <1>3, <1>6 DEF Follows
<1> QED BY <1>6, <1>7, <1>8

LEMMA PumpIs ==
    ASSUME NEW s \in TabRecord
    PROVE  /\ Pump(s) \in TabRecord
           /\ Pump(s).up = s.up /\ Pump(s).mem = s.mem /\ Pump(s).sent = s.sent
           /\ Pump(s).cur = s.cur /\ Pump(s).reply = s.reply /\ Pump(s).paused = s.paused
           /\ Pump(s).chain = s.chain
           /\ Pump(s).pc = IF s.pc = "idle" THEN "lock" ELSE s.pc
<1>1. CASE s.pc = "idle"
  BY <1>1 DEF Pump, TabRecord
<1>2. CASE s.pc # "idle"
  BY <1>2 DEF Pump
<1> QED BY <1>1, <1>2

\* The entries without one.
LEMMA WithoutIs ==
    ASSUME NEW q \in Seq(Stored), NEW id
    PROVE  /\ Without(q, id) \in Seq(Stored)
           /\ ToSet(Without(q, id)) = {e \in ToSet(q) : e.id # id}
           /\ Ids(Without(q, id)) = Ids(q) \ {id}
<1> DEFINE places == {k \in DOMAIN q : q[k].id # id}
<1>1. Without(q, id) \in Seq(Stored) /\ ToSet(Without(q, id)) = {q[k] : k \in places}
  BY PickedAreThere DEF Without
<1>2. {q[k] : k \in places} = {e \in ToSet(q) : e.id # id}
  BY DEF ToSet
<1> QED BY <1>1, <1>2 DEF Ids

LEMMA RemoveEntryIs ==
    ASSUME NEW s \in TabRecord, NEW id \in OpIds
    PROVE  LET p == RemoveEntry(s, id)
           IN  /\ p \in TabRecord
               /\ p.up = s.up /\ p.pc = s.pc /\ p.cur = s.cur /\ p.reply = s.reply
               /\ p.paused = s.paused
               /\ p.sent = s.sent \ {id}
               /\ ToSet(p.mem) = {e \in ToSet(s.mem) : e.id # id}
               /\ Follows(p.chain, s.chain, 0)
               /\ Len(p.chain) = Len(s.chain) + 1
               /\ p.chain[Len(s.chain) + 1] = Call("remove", id, None)
<1> DEFINE t == [s EXCEPT !.sent = s.sent \ {id}, !.mem = Without(s.mem, id)]
           c == Call("remove", id, None)
<1>1. s.mem \in Seq(Stored) /\ s.sent \in SUBSET OpIds /\ s.chain \in Seq(StorageCall)
  BY DEF TabRecord
<1>2. /\ Without(s.mem, id) \in Seq(Stored)
      /\ ToSet(Without(s.mem, id)) = {e \in ToSet(s.mem) : e.id # id}
  BY <1>1, WithoutIs
<1>3. /\ t \in TabRecord
      /\ t.up = s.up /\ t.pc = s.pc /\ t.cur = s.cur /\ t.reply = s.reply /\ t.paused = s.paused
      /\ t.sent = s.sent \ {id} /\ t.mem = Without(s.mem, id) /\ t.chain = s.chain
  BY <1>1, <1>2 DEF TabRecord
<1>4. RemoveEntry(s, id) = Enqueue(Mutated(t), c)
  BY DEF RemoveEntry
<1>5. c \in StorageCall
  BY CallIs
<1> HIDE DEF t, c
<1> DEFINE m == Mutated(t)
<1>6. SameButChain(m, t) /\ Follows(m.chain, t.chain, 0) /\ Len(m.chain) = Len(t.chain)
  BY <1>3, MutatedIs
<1> HIDE DEF m
<1>7. m \in TabRecord /\ m.chain \in Seq(StorageCall)
  BY <1>6 DEF SameButChain, TabRecord
<1>8. SameButChain(Enqueue(m, c), m) /\ Enqueue(m, c).chain = Append(m.chain, c)
  BY <1>5, <1>7, EnqueueIs
<1>9. /\ Follows(Append(m.chain, c), s.chain, 0)
      /\ Len(Append(m.chain, c)) = Len(s.chain) + 1
      /\ Append(m.chain, c)[Len(s.chain) + 1] = c
  BY <1>1, <1>3, <1>5, <1>6, <1>7, AppendFollows
<1> QED BY <1>2, <1>3, <1>4, <1>6, <1>8, <1>9 DEF SameButChain, c, m

LEMMA NewBaseIs ==
    ASSUME NEW e \in Stored, NEW cseq \in Nat
    PROVE  /\ [e EXCEPT !.op.base = cseq] \in Stored
           /\ [e EXCEPT !.op.base = cseq].id = e.id
<1> DEFINE op == [e.op EXCEPT !.base = cseq]
<1>1. e.op \in UserOps
  BY DEF Stored
<1>2. op \in UserOps
  BY <1>1 DEF UserOps
<1>3. [e EXCEPT !.op.base = cseq] = [e EXCEPT !.op = op]
  OBVIOUS
<1> HIDE DEF op
<1> QED BY <1>2, <1>3 DEF Stored

\* New bodies reach the storage only for entries of the tab that are named.
LEMMA ApplyRewritesIs ==
    ASSUME NEW s \in TabRecord, NEW ids, NEW cseq \in Nat
    PROVE  LET p == ApplyRewrites(s, ids, cseq)
           IN  /\ p \in TabRecord
               /\ p.up = s.up /\ p.pc = s.pc /\ p.cur = s.cur /\ p.reply = s.reply
               /\ p.paused = s.paused /\ p.sent = s.sent
               /\ Ids(p.mem) = Ids(s.mem)
               /\ Follows(p.chain, s.chain, 0)
               /\ \A k \in DOMAIN p.chain : k > Len(s.chain) =>
                     /\ p.chain[k].kind = "setOp"
                     /\ p.chain[k].id \in ids \cap Ids(s.mem)
<1> DEFINE move(e) == IF e.id \in ids THEN [e EXCEPT !.op.base = cseq] ELSE e
           mem     == [k \in DOMAIN s.mem |-> move(s.mem[k])]
           places  == {k \in DOMAIN mem : mem[k].id \in ids}
           changed == Picked(mem, places)
           calls   == [k \in DOMAIN changed |-> Call("setOp", changed[k].id, changed[k].op)]
           t       == [s EXCEPT !.mem = mem]
           m       == Mutated(t)
           p       == [m EXCEPT !.chain = @ \o calls]
<1>1. s.mem \in Seq(Stored) /\ s.chain \in Seq(StorageCall) /\ Len(s.chain) \in Nat
  BY DEF TabRecord
<1>2. \A k \in DOMAIN s.mem : s.mem[k] \in Stored
  BY <1>1, ElementsOf
<1>3. ASSUME NEW e \in Stored PROVE move(e) \in Stored /\ move(e).id = e.id
  <2>1. CASE e.id \in ids
    BY <2>1, NewBaseIs
  <2>2. CASE e.id \notin ids
    BY <2>2
  <2> QED BY <2>1, <2>2
<1>4. \A k \in DOMAIN s.mem : mem[k] \in Stored /\ mem[k].id = s.mem[k].id
  <2> SUFFICES ASSUME NEW k \in DOMAIN s.mem
               PROVE  mem[k] \in Stored /\ mem[k].id = s.mem[k].id
    OBVIOUS
  <2>1. mem[k] = move(s.mem[k]) /\ s.mem[k] \in Stored
    BY <1>2
  <2> HIDE DEF move, mem
  <2> QED BY <1>3, <2>1
<1>5. mem = [k \in DOMAIN s.mem |-> mem[k]]
  OBVIOUS
<1>6. ApplyRewrites(s, ids, cseq) = IF ids = {} THEN s ELSE p
  BY DEF ApplyRewrites
<1> HIDE DEF move, mem
<1>7. mem \in Seq(Stored) /\ DOMAIN mem = DOMAIN s.mem
  BY <1>1, <1>4, <1>5, EachIsTyped
<1>8. Ids(mem) = Ids(s.mem)
  BY <1>4, <1>7 DEF Ids, ToSet
<1>9. /\ changed \in Seq(Stored)
      /\ ToSet(changed) = {mem[k] : k \in places}
  BY <1>7, PickedAreThere
<1>10. \A k \in DOMAIN changed : changed[k] \in Stored /\ changed[k].id \in ids \cap Ids(s.mem)
  <2> SUFFICES ASSUME NEW k \in DOMAIN changed
               PROVE  changed[k] \in Stored /\ changed[k].id \in ids \cap Ids(s.mem)
    OBVIOUS
  <2>1. changed[k] \in Stored /\ changed[k] \in ToSet(changed)
    BY <1>9, ElementsOf
  <2>2. PICK j \in places : changed[k] = mem[j]
    BY <1>9, <2>1
  <2>3. mem[j] \in ToSet(mem) /\ mem[j].id \in ids
    BY DEF ToSet
  <2> HIDE DEF changed
  <2> QED BY <1>8, <2>1, <2>2, <2>3 DEF Ids
<1> HIDE DEF changed, places
<1>11. \A k \in DOMAIN changed :
          /\ calls[k] \in StorageCall
          /\ calls[k].kind = "setOp" /\ calls[k].id = changed[k].id
  BY <1>10, CallIs DEF Stored
<1>12. calls = [k \in DOMAIN changed |-> calls[k]]
  OBVIOUS
<1> HIDE DEF calls
<1>13. calls \in Seq(StorageCall) /\ DOMAIN calls = DOMAIN changed
  BY <1>9, <1>11, <1>12, EachIsTyped
<1>14. /\ t \in TabRecord
       /\ t.up = s.up /\ t.pc = s.pc /\ t.cur = s.cur /\ t.reply = s.reply /\ t.paused = s.paused
       /\ t.sent = s.sent /\ t.mem = mem /\ t.chain = s.chain
  BY <1>7 DEF TabRecord
<1> HIDE DEF t
<1>15. SameButChain(m, t) /\ Follows(m.chain, s.chain, 0) /\ Len(m.chain) = Len(s.chain)
  BY <1>14, MutatedIs
<1> HIDE DEF m
<1>16. m \in TabRecord /\ m.chain \in Seq(StorageCall)
  BY <1>15 DEF SameButChain, TabRecord
<1> DEFINE chain == m.chain \o calls
<1>17. /\ chain \in Seq(StorageCall)
       /\ Len(m.chain) <= Len(chain)
       /\ \A k \in 1..Len(m.chain) : chain[k] = m.chain[k]
       /\ \A k \in DOMAIN chain : k > Len(m.chain) =>
             k - Len(m.chain) \in DOMAIN calls /\ chain[k] = calls[k - Len(m.chain)]
  BY <1>13, <1>16, ConcatIs
<1>18. p = [m EXCEPT !.chain = chain]
  OBVIOUS
<1> HIDE DEF p, chain
<1>19. SameButChain(p, m) /\ p.chain = chain
  BY <1>16, <1>17, <1>18 DEF SameButChain, TabRecord
<1>20. Follows(chain, s.chain, 0)
  BY <1>1, <1>15, <1>17 DEF Follows
<1>21. ASSUME NEW k \in DOMAIN chain, k > Len(s.chain)
       PROVE  chain[k].kind = "setOp" /\ chain[k].id \in ids \cap Ids(s.mem)
  <2>1. k - Len(s.chain) \in DOMAIN calls /\ chain[k] = calls[k - Len(s.chain)]
    BY <1>15, <1>17, <1>21
  <2> QED BY <1>10, <1>11, <1>13, <2>1
<1>22. CASE ids # {}
  BY <1>6, <1>8, <1>14, <1>15, <1>19, <1>20, <1>21, <1>22 DEF SameButChain
<1>23. CASE ids = {}
  <2>1. ApplyRewrites(s, ids, cseq) = s
    BY <1>6, <1>23
  <2>2. DOMAIN s.chain = 1..Len(s.chain)
    BY <1>1
  <2> QED BY <1>1, <2>1, <2>2, FollowsItself
<1> QED BY <1>22, <1>23

\* The top of the loop: a read of what is stored, or the end.
LEMMA NextRoundIs ==
    ASSUME NEW s \in TabRecord
    PROVE  LET p == NextRound(s)
           IN  /\ p \in TabRecord
               /\ p.up = s.up /\ p.mem = s.mem /\ p.sent = s.sent /\ p.paused = s.paused
               /\ p.cur = None /\ p.reply = None
               /\ s.paused => p.pc = "idle" /\ p.chain = s.chain
               /\ ~s.paused => p.pc = "read" /\ p.chain = Append(s.chain, ReadFor("pump"))
<1> DEFINE t == [s EXCEPT !.cur = None, !.reply = None, !.current = TRUE]
<1>1. /\ t \in TabRecord
      /\ t.up = s.up /\ t.mem = s.mem /\ t.sent = s.sent /\ t.paused = s.paused
      /\ t.cur = None /\ t.reply = None /\ t.chain = s.chain
  BY DEF TabRecord
<1>2. NextRound(s) = IF s.paused THEN [t EXCEPT !.pc = "idle"]
                     ELSE Enqueue([t EXCEPT !.pc = "read"], ReadFor("pump"))
  BY DEF NextRound
<1> HIDE DEF t
<1>3. CASE s.paused
  <2>1. NextRound(s) = [t EXCEPT !.pc = "idle"]
    BY <1>2, <1>3
  <2> QED BY <1>1, <1>3, <2>1 DEF TabRecord
<1>4. CASE ~s.paused
  <2> DEFINE u == [t EXCEPT !.pc = "read"]
  <2>1. u \in TabRecord
    BY <1>1 DEF TabRecord
  <2>2. /\ u.up = t.up /\ u.mem = t.mem /\ u.sent = t.sent /\ u.paused = t.paused
        /\ u.cur = t.cur /\ u.reply = t.reply /\ u.chain = t.chain /\ u.pc = "read"
    BY <1>1 DEF TabRecord
  <2>3. NextRound(s) = Enqueue(u, ReadFor("pump"))
    BY <1>2, <1>4
  <2> HIDE DEF u
  <2>4. ReadFor("pump") \in StorageCall
    BY ReadForIs DEF Reads
  <2>5. SameButChain(NextRound(s), u) /\ NextRound(s).chain = Append(u.chain, ReadFor("pump"))
    BY <2>1, <2>3, <2>4, EnqueueIs
  <2> QED BY <1>1, <1>4, <2>2, <2>5 DEF SameButChain
<1> QED BY <1>3, <1>4

\* #readStored
LEMMA LoadedIs ==
    ASSUME NEW s \in TabRecord, disk \in Seq(Stored)
    PROVE  LET p == Loaded(s)
           IN  /\ p \in TabRecord
               /\ p.up = s.up /\ p.pc = s.pc /\ p.cur = s.cur /\ p.reply = s.reply
               /\ p.paused = s.paused /\ p.chain = s.chain
               /\ p.mem = disk
               /\ p.sent = s.sent \cup {e.id : e \in {f \in ToSet(disk) : f.sent}}
<1> DEFINE sent == s.sent \cup {e.id : e \in {f \in ToSet(disk) : f.sent}}
<1>1. ToSet(disk) \subseteq Stored
  BY ElementsOf
<1>2. sent \in SUBSET OpIds
  BY <1>1 DEF TabRecord, Stored
<1>3. Loaded(s) = [s EXCEPT !.mem = disk, !.sent = sent]
  BY DEF Loaded
<1> HIDE DEF sent
<1> DEFINE m == [s EXCEPT !.mem = disk]
<1>4. /\ m \in TabRecord /\ m.mem = disk
      /\ m.up = s.up /\ m.pc = s.pc /\ m.cur = s.cur /\ m.reply = s.reply
      /\ m.paused = s.paused /\ m.chain = s.chain
  BY DEF TabRecord
<1>5. Loaded(s) = [m EXCEPT !.sent = sent]
  BY <1>3
<1> HIDE DEF m
<1>6. /\ Loaded(s) \in TabRecord
      /\ Loaded(s).up = m.up /\ Loaded(s).pc = m.pc /\ Loaded(s).cur = m.cur
      /\ Loaded(s).reply = m.reply /\ Loaded(s).paused = m.paused /\ Loaded(s).chain = m.chain
      /\ Loaded(s).mem = m.mem /\ Loaded(s).sent = sent
  BY <1>2, <1>4, <1>5 DEF TabRecord
<1> QED BY <1>4, <1>6 DEF sent

-----------------------------------------------------------------------------
(* The server and what a page knows of it.                                 *)

\* What the server answers and stores is of the right shape.
OutcomeOK(o) ==
    /\ RoomOK(o.room)
    /\ o.status \in {"applied", "rejected", "error"} /\ o.code \in Codes
    /\ o.uid \in Lists \cup Items \cup {None} /\ o.cseq \in Nat

LEMMA RejectedIs ==
    ASSUME NEW r, RoomOK(r), NEW code \in Codes
    PROVE  OutcomeOK(Rejected(r, code, None)) /\ OutcomeOK(HttpError(r, code))
BY DEF Rejected, HttpError, OutcomeOK

LEMMA PutItemIs ==
    ASSUME NEW r, RoomOK(r), NEW row \in ItemRow
    PROVE  RoomOK(PutItem(r, TheItem, row))
<1> DEFINE new   == [row EXCEPT !.seq = r.seq + 1]
           items == [r.items EXCEPT ![TheItem] = new]
<1>1. r.seq + 1 \in Nat
  BY DEF RoomOK, Room
<1>2. new \in ItemRow
  BY <1>1 DEF ItemRow
<1>3. items \in [Items -> ItemRow \cup {None}] /\ items[TheItem] = new
  BY <1>2, OneRow DEF RoomOK, Room
<1>4. PutItem(r, TheItem, row) = [r EXCEPT !.seq = r.seq + 1, !.items = items]
  BY DEF PutItem, RoomOK, Room
<1> HIDE DEF new, items
<1> QED BY <1>1, <1>2, <1>3, <1>4 DEF RoomOK, Room

LEMMA ChangedItemIs ==
    ASSUME NEW r, RoomOK(r), NEW row \in ItemRow
    PROVE  OutcomeOK(AppliedItem(PutItemIfChanged(r, TheItem, row), TheItem))
<1> DEFINE new == PutItemIfChanged(r, TheItem, row)
<1>1. RoomOK(new)
  BY PutItemIs DEF PutItemIfChanged
<1> HIDE DEF new
<1>2. new.items[TheItem].seq \in Nat
  BY <1>1 DEF RoomOK, ItemRow
<1> QED BY <1>1, <1>2, OneRow DEF OutcomeOK, AppliedItem, Applied, Codes, new

LEMMA OutcomeIs ==
    ASSUME NEW r, RoomOK(r), NEW op \in UserOps
    PROVE  OutcomeOK(Outcome(r, op))
<1> DEFINE row == r.items[TheItem]
<1>1. /\ op.item = TheItem /\ op.list = TheList /\ op.scope = None
      /\ op.type \in {"item.quantity_delta", "item.edit", "item.set_done"}
  BY OpTypesAreKnown DEF UserOps
<1>2. row \in ItemRow
  BY DEF RoomOK
<1>3. OutcomeOK(ItemSetDone(r, op)) \/ op.type # "item.set_done"
  <2>1. CASE op.type = "item.set_done"
    <3>1. op.done \in BOOLEAN
      BY <2>1 DEF UserOps
    <3>2. [row EXCEPT !.done = op.done] \in ItemRow
      BY <1>2, <3>1 DEF ItemRow
    <3>3. OutcomeOK(AppliedItem(PutItemIfChanged(r, TheItem, [row EXCEPT !.done = op.done]), TheItem))
      BY <3>2, ChangedItemIs
    <3>4. OutcomeOK(Rejected(r, "changed_meanwhile", None))
      BY RejectedIs DEF Codes
    <3> QED BY <1>1, <3>3, <3>4 DEF ItemSetDone
  <2> QED BY <2>1
<1>4. OutcomeOK(ItemQuantityDelta(r, op)) \/ op.type # "item.quantity_delta"
  <2>1. CASE op.type = "item.quantity_delta"
    <3>1. op.qty = 1
      BY <2>1 DEF UserOps
    <3>2. AddQuantity(row.qty, op.qty) \in Nat \ {0}
      BY <1>2, <3>1 DEF AddQuantity, ItemRow
    <3>3. [row EXCEPT !.qty = AddQuantity(row.qty, op.qty)] \in ItemRow
      BY <1>2, <3>2 DEF ItemRow
    <3>4. OutcomeOK(AppliedItem(PutItemIfChanged(r, TheItem,
                       [row EXCEPT !.qty = AddQuantity(row.qty, op.qty)]), TheItem))
      BY <3>3, ChangedItemIs
    <3> QED BY <1>1, <3>4 DEF ItemQuantityDelta
  <2> QED BY <2>1
<1>5. OutcomeOK(ItemEdit(r, op)) \/ op.type # "item.edit"
  <2>1. CASE op.type = "item.edit"
    <3> DEFINE qty    == IF op.qty = None THEN row.qty ELSE op.qty
               wanted == [row EXCEPT !.name = op.name, !.qty = qty]
    <3>1. op.name \in Names /\ op.qty \in {1, None}
      BY <2>1 DEF UserOps
    <3>2. qty \in Nat \ {0}
      BY <1>2, <3>1 DEF ItemRow
    <3> HIDE DEF qty
    <3>3. wanted \in ItemRow
      BY <1>2, <3>1, <3>2 DEF ItemRow
    <3>4. OutcomeOK(AppliedItem(PutItemIfChanged(r, TheItem, wanted), TheItem))
      BY <3>3, ChangedItemIs
    <3>5. /\ OutcomeOK(Rejected(r, "changed_meanwhile", None))
          /\ OutcomeOK(Rejected(r, "duplicate_name", None))
      BY RejectedIs DEF Codes
    <3>6. wanted = [row EXCEPT !.name = op.name,
                               !.qty = IF op.qty = None THEN @ ELSE op.qty]
      BY DEF qty
    <3> HIDE DEF wanted
    <3>7. ItemEdit(r, op) \in {Rejected(r, "changed_meanwhile", None),
                               Rejected(r, "duplicate_name", None),
                               AppliedItem(PutItemIfChanged(r, TheItem, wanted), TheItem)}
      BY <1>1, <3>6 DEF ItemEdit
    <3> QED BY <3>4, <3>5, <3>7
  <2> QED BY <2>1
<1>6. OutcomeOK(Handler(r, op))
  <2>1. CASE op.type = "item.set_done"
    <3>1. Handler(r, op) = ItemSetDone(r, op)
      BY <2>1 DEF Handler, SettingsTypes
    <3> QED BY <1>3, <2>1, <3>1
  <2>2. CASE op.type = "item.quantity_delta"
    <3>1. Handler(r, op) = ItemQuantityDelta(r, op)
      BY <2>2 DEF Handler, SettingsTypes
    <3> QED BY <1>4, <2>2, <3>1
  <2>3. CASE op.type = "item.edit"
    <3>1. Handler(r, op) = ItemEdit(r, op)
      BY <2>3 DEF Handler, SettingsTypes
    <3> QED BY <1>5, <2>3, <3>1
  <2> QED BY <1>1, <2>1, <2>2, <2>3
<1>7. \A code \in Codes : /\ OutcomeOK(Rejected(r, code, None))
                           /\ OutcomeOK(HttpError(r, code))
  BY RejectedIs
<1>8. Outcome(r, op) \in {HttpError(r, "invalid_request"), Rejected(r, "list_unavailable", None),
                          Rejected(r, "item_not_found", None), Handler(r, op)}
  BY DEF Outcome
<1> QED BY <1>6, <1>7, <1>8 DEF Codes

LEMMA AnswerOfIs ==
    ASSUME NEW o, OutcomeOK(o)
    PROVE  AnswerOf(o) \in Answer
BY DEF OutcomeOK, RoomOK, Room, AnswerOf, Answer

LEMMA CopyNowIs ==
    ASSUME RoomOK(room), used.foreign \in Nat
    PROVE  CopyNow \in Copy
BY DEF CopyNow, Copy, RoomOK, Room

\* What the page offers to do.
LEMMA OpsOnShownAre ==
    ASSUME NEW s \in TabRecord, s.copy.row # None
    PROVE  OpsOnShown(s) \subseteq UserOps
<1>1. s.copy.row \in ItemRow
  BY DEF TabRecord, Copy
<1>2. KnownSeq(s) \in Nat
  BY <1>1 DEF KnownSeq, TabRecord, ItemRow
<1>3. ASSUME NEW op \in OpsOnShown(s)
      PROVE  op \in UserOps
  <2>1. op.type \in OpTypes
    BY DEF OpsOnShown
  <2>2. CASE op = UserOp("item.quantity_delta", None, None, 1, None)
    BY <2>1, <2>2 DEF UserOp, Op, UserOps
  <2>3. CASE \E n \in Names : op = UserOp("item.edit", n, None, None, KnownSeq(s))
    BY <1>2, <2>1, <2>3 DEF UserOp, Op, UserOps
  <2>4. CASE op = UserOp("item.set_done", None, ~ShownDone(s), None, KnownSeq(s))
    BY <1>2, <2>1, <2>4 DEF UserOp, Op, UserOps
  <2> QED BY <2>2, <2>3, <2>4 DEF OpsOnShown
<1> QED BY <1>3

-----------------------------------------------------------------------------
(* What a step of one tab has to show.                                     *)

LEMMA ShapesOfAll ==
    ASSUME QueueInv
    PROVE  TypeOK
<1>1. room \in Room
  BY DEF QueueInv, Shapes, RoomOK
<1>2. \A id \in OpIds : seen[id] = None => id \notin Ids(disk) \cup ToSet(log) \cup dropped
  BY DEF QueueInv, MadeIds, OverIds
<1>3. \A t \in Tabs :
         /\ tabs[t].cur # None <=> tabs[t].pc \in {"mark", "call", "sleep"}
         /\ tabs[t].reply # None => tabs[t].pc = "call"
  BY DEF QueueInv, TabOK, EntriesOK
<1>4. \A r, q \in net : r.tab = q.tab /\ r.tab # None => r = q
  BY DEF QueueInv, Requests
<1> QED BY <1>1, <1>2, <1>3, <1>4 DEF QueueInv, Shapes, TypeOK

LEMMA TouchedAreMade ==
    ASSUME QueueInv
    PROVE  TouchedIds \subseteq MadeIds
<1>1. Ids(disk) \cup ToSet(log) \subseteq MadeIds
  BY DEF QueueInv, OverIds
<1>2. \A r \in net : r.id \in MadeIds
  BY DEF QueueInv, Requests
<1>3. \A t \in Tabs : tabs[t].sent \subseteq MadeIds
  BY DEF QueueInv, TabOK, EntriesOK
<1> QED BY <1>1, <1>2, <1>3 DEF TouchedIds

\* The other tabs only see ids become made, over and in front.
LEMMA TabStaysOK ==
    ASSUME NEW s, NEW made, NEW over, NEW front, TabOK(s, made, over, front),
           NEW made2, NEW over2, NEW front2,
           made \subseteq made2, over \subseteq over2, front \subseteq front2
    PROVE  TabOK(s, made2, over2, front2)
<1>1. \A c : CallOK(c, s, made, over) => CallOK(c, s, made2, over2)
  BY DEF CallOK
<1> QED BY <1>1 DEF TabOK, EntriesOK

\* An add call comes from one before, or is the new last one of an unused op_id.
NewAdds(p, q, d, made) ==
    \A k \in DOMAIN p :
       p[k].kind = "add" /\ k > Len(q) - d => k = Len(p) /\ p[k].id \notin made

LEMMA AddsStay ==
    ASSUME QueueInv, NEW t \in Tabs, NEW s \in TabRecord, tabs' = [tabs EXCEPT ![t] = s],
           NEW d \in {0, 1}, d <= Len(tabs[t].chain),
           Follows(s.chain, tabs[t].chain, d), NewAdds(s.chain, tabs[t].chain, d, MadeIds),
           \A id \in TouchedIds' \ TouchedIds :
              d = 1 /\ tabs[t].chain[1].kind = "add" /\ tabs[t].chain[1].id = id
    PROVE  AddsDiffer' /\ AddsAreNew'
<1> DEFINE q == tabs[t].chain
           p == s.chain
           Old(u, k, l) == /\ l \in DOMAIN tabs[u].chain
                           /\ tabs[u].chain[l].kind = "add"
                           /\ tabs[u].chain[l].id = tabs'[u].chain[k].id
                           /\ u = t => l = k + d
                           /\ u # t => l = k
           New(u, k)    == u = t /\ k = Len(p) /\ p[k].id \notin MadeIds
<1>1. /\ tabs \in [Tabs -> TabRecord] /\ tabs'[t] = s
      /\ \A u \in Tabs \ {t} : tabs'[u] = tabs[u]
  BY DEF QueueInv, Shapes
<1>2. /\ p \in Seq(StorageCall) /\ DOMAIN p = 1..Len(p) /\ Len(p) \in Nat
      /\ q \in Seq(StorageCall) /\ DOMAIN q = 1..Len(q) /\ Len(q) \in Nat
  BY <1>1 DEF TabRecord
<1>3. ASSUME NEW u \in Tabs, NEW k \in DOMAIN tabs'[u].chain, tabs'[u].chain[k].kind = "add"
      PROVE  (\E l : Old(u, k, l)) \/ New(u, k)
  <2>1. CASE u # t
    BY <1>1, <1>3, <2>1
  <2>2. CASE u = t /\ k <= Len(q) - d
    <3>1. k \in 1..(Len(q) - d) /\ k + d \in DOMAIN q
      BY <1>1, <1>2, <1>3, <2>2
    <3>2. q[k + d].kind = "add" /\ q[k + d].id = p[k].id
      BY <1>1, <1>3, <2>2, <3>1 DEF Follows
    <3>3. Old(u, k, k + d)
      BY <1>1, <2>2, <3>1, <3>2
    <3> QED BY <3>3
  <2>3. CASE u = t /\ ~(k <= Len(q) - d)
    <3>1. k \in DOMAIN p /\ p[k].kind = "add" /\ k > Len(q) - d
      BY <1>1, <1>2, <1>3, <2>3
    <3> QED BY <2>3, <3>1 DEF NewAdds
  <2> QED BY <2>1, <2>2, <2>3
<1>4. ASSUME NEW u \in Tabs, NEW k \in DOMAIN tabs'[u].chain, NEW l, Old(u, k, l)
      PROVE  /\ tabs'[u].chain[k].id \in MadeIds
             /\ tabs'[u].chain[k].id \notin TouchedIds
  <2>1. CallOK(tabs[u].chain[l], tabs[u], MadeIds, OverIds)
    BY <1>4 DEF QueueInv, TabOK, EntriesOK
  <2>2. tabs[u].chain[l].id \notin TouchedIds
    BY <1>4 DEF QueueInv, AddsAreNew
  <2> QED BY <1>4, <2>1, <2>2 DEF CallOK
<1>5. ASSUME NEW id \in TouchedIds' \ TouchedIds
      PROVE  /\ id \in MadeIds
             /\ \A u \in Tabs : \A k \in DOMAIN tabs'[u].chain : \A l :
                   Old(u, k, l) => tabs'[u].chain[k].id # id
  <2>1. d = 1 /\ 1 \in DOMAIN q /\ q[1].kind = "add" /\ q[1].id = id
    BY <1>2, <1>5
  <2>2. CallOK(q[1], tabs[t], MadeIds, OverIds)
    BY <2>1 DEF QueueInv, TabOK, EntriesOK
  <2>3. ASSUME NEW u \in Tabs, NEW k \in DOMAIN tabs'[u].chain, NEW l, Old(u, k, l),
               tabs'[u].chain[k].id = id
        PROVE  FALSE
    <3>1. u = t /\ l = 1
      BY <2>1, <2>3 DEF QueueInv, AddsDiffer
    <3>2. k \in 1..Len(p) /\ l = k + 1
      BY <1>1, <1>2, <2>1, <2>3, <3>1
    <3> QED BY <1>2, <3>1, <3>2
  <2> QED BY <2>1, <2>2, <2>3 DEF CallOK
<1>6. TouchedIds \subseteq MadeIds
  BY TouchedAreMade
<1>7. ASSUME NEW u \in Tabs, NEW k \in DOMAIN tabs'[u].chain, tabs'[u].chain[k].kind = "add"
      PROVE  tabs'[u].chain[k].id \notin TouchedIds'
  <2>1. CASE New(u, k)
    BY <1>1, <1>5, <1>6, <2>1
  <2>2. ASSUME NEW l, Old(u, k, l)
        PROVE  tabs'[u].chain[k].id \notin TouchedIds'
    BY <1>4, <1>5, <2>2
  <2> HIDE DEF Old, New
  <2> QED BY <1>3, <1>7, <2>1, <2>2
<1>8. ASSUME NEW u \in Tabs, NEW v \in Tabs,
             NEW k \in DOMAIN tabs'[u].chain, NEW l \in DOMAIN tabs'[v].chain,
             tabs'[u].chain[k].kind = "add", tabs'[v].chain[l].kind = "add",
             tabs'[u].chain[k].id = tabs'[v].chain[l].id
      PROVE  u = v /\ k = l
  <2>1. CASE New(u, k) /\ New(v, l)
    BY <2>1
  <2>2. ASSUME NEW j, Old(u, k, j), New(v, l) PROVE FALSE
    BY <1>1, <1>4, <1>8, <2>2
  <2>3. ASSUME NEW j, Old(v, l, j), New(u, k) PROVE FALSE
    BY <1>1, <1>4, <1>8, <2>3
  <2>4. ASSUME NEW i, NEW j, Old(u, k, i), Old(v, l, j) PROVE u = v /\ k = l
    <3>1. u = v /\ i = j
      BY <1>8, <2>4 DEF QueueInv, AddsDiffer
    <3>2. CASE u # t
      BY <2>4, <3>1, <3>2
    <3>3. CASE u = t
      <4>1. i = k + d /\ j = l + d
        BY <2>4, <3>1, <3>3
      <4>2. k \in Int /\ l \in Int /\ d \in Int
        BY <1>1, <1>2, <3>1, <3>3
      <4>3. k + d = l + d
        BY <3>1, <4>1
      <4>4. k = l
        BY <4>2, <4>3
      <4> QED BY <3>1, <4>4
    <3> QED BY <3>2, <3>3
  <2> HIDE DEF Old, New
  <2> QED BY <1>3, <1>8, <2>1, <2>2, <2>3, <2>4
<1> HIDE DEF Old, New
<1>9. AddsAreNew'
  BY <1>7 DEF AddsAreNew
<1>10. AddsDiffer'
  BY <1>8 DEF AddsDiffer
<1> QED BY <1>9, <1>10

\* The invariant after a step of one tab, from what the step does to its parts.
LEMMA OneTabStep ==
    ASSUME QueueInv, Shapes', NEW t \in Tabs, NEW s \in TabRecord, tabs' = [tabs EXCEPT ![t] = s],
           MadeIds \subseteq MadeIds', OverIds \subseteq OverIds', FrontIds \subseteq FrontIds',
           (Ids(disk) \cup OverIds \subseteq MadeIds)',
           TabOK(s, MadeIds', OverIds', FrontIds'),
           LogIsProcessed', EntriesDiffer', AddsDiffer', AddsAreNew', Requests'
    PROVE  QueueInv'
<1>1. ASSUME NEW u \in Tabs PROVE TabOK(tabs'[u], MadeIds', OverIds', FrontIds')
  <2>1. CASE u = t
    BY <2>1 DEF QueueInv, Shapes
  <2>2. CASE u # t
    <3>1. tabs'[u] = tabs[u]
      BY <2>2 DEF QueueInv, Shapes
    <3>2. TabOK(tabs[u], MadeIds, OverIds, FrontIds)
      BY DEF QueueInv
    <3> QED BY <3>1, <3>2, TabStaysOK
  <2> QED BY <2>1, <2>2
<1> QED BY <1>1 DEF QueueInv

\* Requests that stay where they are, and those whose page no longer waits.
LEMMA RequestsStay ==
    ASSUME QueueInv, NEW t \in Tabs, NEW s \in TabRecord, tabs' = [tabs EXCEPT ![t] = s],
           MadeIds \subseteq MadeIds', FrontIds \subseteq FrontIds',
           \/ /\ net' = net
              /\ tabs[t].pc = "call" /\ tabs[t].reply = None
                 => s.pc = "call" /\ s.reply = None /\ s.cur = tabs[t].cur
           \/ net' = {[r EXCEPT !.tab = IF @ = t THEN None ELSE @] : r \in net}
           \/ net' = {r \in net : r.tab # t}
    PROVE  /\ Requests'
           /\ \A r \in net' : \E q \in net : r.id = q.id
<1>1. /\ \A r, q \in net : r.tab = q.tab /\ r.tab # None => r = q
      /\ \A r \in net : r.id \in MadeIds \cap FrontIds /\ Awaits(r, tabs)
      /\ net \subseteq [id : OpIds, op : UserOps, tab : Tabs \cup {None}]
      /\ tabs'[t] = s /\ \A u \in Tabs \ {t} : tabs'[u] = tabs[u]
      /\ t # None
  BY NoneIsNoRecord DEF QueueInv, Requests, Shapes
<1>2. \A r \in net : r.tab # t => Awaits(r, tabs')
  BY <1>1 DEF Awaits
<1>3. CASE /\ net' = net
           /\ tabs[t].pc = "call" /\ tabs[t].reply = None
              => s.pc = "call" /\ s.reply = None /\ s.cur = tabs[t].cur
  <2>1. \A r \in net : r.tab = t => Awaits(r, tabs')
    BY <1>1, <1>3 DEF Awaits
  <2>2. \A r \in net : r.id \in MadeIds' \cap FrontIds' /\ Awaits(r, tabs')
    BY <1>1, <1>2, <2>1
  <2> QED BY <1>1, <1>3, <2>2 DEF Requests
<1>4. CASE net' = {[r EXCEPT !.tab = IF @ = t THEN None ELSE @] : r \in net}
  <2>1. ASSUME NEW r \in net'
        PROVE  \E q \in net : /\ r.id = q.id
                              /\ r.tab # None => r = q /\ r.tab # t
    <3>1. PICK q \in net : r = [q EXCEPT !.tab = IF @ = t THEN None ELSE @]
      BY <1>4
    <3>2. r.id = q.id /\ r.tab = IF q.tab = t THEN None ELSE q.tab
      BY <1>1, <3>1
    <3>3. CASE q.tab = t
      BY <3>2, <3>3
    <3>4. CASE q.tab # t
      <4>1. r = q
        BY <1>1, <3>1, <3>4
      <4> QED BY <3>4, <4>1
    <3> QED BY <3>3, <3>4
  <2>2. \A r \in net' : r.id \in MadeIds' \cap FrontIds'
    BY <1>1, <2>1
  <2>3. \A r \in net' : Awaits(r, tabs')
    BY <1>2, <2>1 DEF Awaits
  <2>4. \A r, q \in net' : r.tab = q.tab /\ r.tab # None => r = q
    BY <1>1, <2>1
  <2> QED BY <2>1, <2>2, <2>3, <2>4 DEF Requests
<1>5. CASE net' = {r \in net : r.tab # t}
  BY <1>1, <1>2, <1>5 DEF Requests
<1> QED BY <1>3, <1>4, <1>5

\* A step that leaves the storage and the server alone.
LEMMA QuietStep ==
    ASSUME QueueInv, Shapes', NEW t \in Tabs, NEW s \in TabRecord, tabs' = [tabs EXCEPT ![t] = s],
           UNCHANGED <<processed, disk, log>>,
           MadeIds \subseteq MadeIds', dropped \subseteq dropped', dropped' \subseteq MadeIds',
           NEW d \in {0, 1}, d <= Len(tabs[t].chain),
           Follows(s.chain, tabs[t].chain, d), NewAdds(s.chain, tabs[t].chain, d, MadeIds),
           TabOK(s, MadeIds', OverIds', FrontIds'), s.sent \subseteq TouchedIds,
           Requests', \A r \in net' : r.id \in TouchedIds
    PROVE  QueueInv'
<1>1. /\ OverIds \subseteq OverIds' /\ FrontIds \subseteq FrontIds'
      /\ (Ids(disk) \cup OverIds \subseteq MadeIds)'
  <2>1. Ids(disk) \cup OverIds \subseteq MadeIds
    BY DEF QueueInv
  <2>2. OverIds \subseteq OverIds' /\ Ids(disk)' = Ids(disk)
    BY DEF OverIds, Ids
  <2>3. (ToSet(log))' = ToSet(log)
    OBVIOUS
  <2> QED BY <2>1, <2>2, <2>3 DEF OverIds, FrontIds
<1>2. LogIsProcessed' /\ EntriesDiffer'
  BY DEF QueueInv, LogIsProcessed, EntriesDiffer
<1>3. TouchedIds' \subseteq TouchedIds
  <2>1. tabs'[t] = s /\ \A u \in Tabs \ {t} : tabs'[u] = tabs[u]
    BY DEF QueueInv, Shapes
  <2>2. \A u \in Tabs : tabs'[u].sent \subseteq TouchedIds
    BY <2>1 DEF TouchedIds
  <2>3. Ids(disk)' \cup ToSet(log)' \subseteq TouchedIds
    BY DEF TouchedIds, Ids
  <2> QED BY <2>2, <2>3 DEF TouchedIds
<1>4. AddsDiffer' /\ AddsAreNew'
  BY <1>3, AddsStay
<1> QED BY <1>1, <1>2, <1>4, OneTabStep

LEMMA NothingMade ==
    ASSUME QueueInv, UNCHANGED <<seen, dropped>>
    PROVE  /\ MadeIds' = MadeIds
           /\ dropped' \subseteq MadeIds'
BY DEF QueueInv, MadeIds, OverIds

\* A tab as the invariant has it.
LEMMA TabOf ==
    ASSUME QueueInv, NEW t \in Tabs
    PROVE  /\ tabs[t] \in TabRecord
           /\ TabOK(tabs[t], MadeIds, OverIds, FrontIds)
           /\ tabs[t].chain \in Seq(StorageCall)
           /\ Len(tabs[t].chain) \in Nat
           /\ tabs[t].sent \subseteq TouchedIds
<1>1. tabs[t] \in TabRecord
  BY DEF QueueInv, Shapes
<1> QED BY <1>1 DEF QueueInv, TabRecord, TouchedIds

\* A step that leaves the queue alone altogether.
LEMMA QueueUnmoved ==
    ASSUME QueueInv, Shapes', NEW t \in Tabs, NEW s \in TabRecord, tabs' = [tabs EXCEPT ![t] = s],
           UNCHANGED <<processed, net, disk, log, seen, dropped>>,
           s.up = tabs[t].up, s.mem = tabs[t].mem, s.sent = tabs[t].sent,
           s.chain = tabs[t].chain, s.pc = tabs[t].pc, s.cur = tabs[t].cur,
           s.reply = tabs[t].reply
    PROVE  QueueInv'
<1>1. MadeIds' = MadeIds /\ dropped' \subseteq MadeIds'
  BY NothingMade
<1>2. OverIds' = OverIds /\ FrontIds' = FrontIds
  BY DEF OverIds, FrontIds
<1>3. /\ TabOK(tabs[t], MadeIds, OverIds, FrontIds) /\ s.chain \in Seq(StorageCall)
      /\ 0 <= Len(tabs[t].chain) /\ s.sent \subseteq TouchedIds
  BY TabOf
<1>4. TabOK(s, MadeIds', OverIds', FrontIds')
  BY <1>1, <1>2, <1>3 DEF TabOK, EntriesOK, CallOK, OnePump
<1>5. Requests' /\ \A r \in net' : r.id \in TouchedIds
  <2>1. Requests' /\ \A r \in net' : \E q \in net : r.id = q.id
    BY <1>1, <1>2, RequestsStay
  <2> QED BY <2>1 DEF TouchedIds
<1>6. Follows(s.chain, tabs[t].chain, 0) /\ NewAdds(s.chain, tabs[t].chain, 0, MadeIds)
  <2>1. Follows(s.chain, tabs[t].chain, 0)
    BY <1>3, FollowsItself
  <2>2. NewAdds(s.chain, tabs[t].chain, 0, MadeIds)
    BY <1>3 DEF NewAdds
  <2> QED BY <2>1, <2>2
<1> QED BY <1>1, <1>3, <1>4, <1>5, <1>6, QuietStep

LEMMA ShapesStay ==
    ASSUME QueueInv, NEW t \in Tabs, NEW s \in TabRecord, tabs' = [tabs EXCEPT ![t] = s],
           UNCHANGED <<room, processed, log>>, disk' \in Seq(Stored), saved' \in Copy,
           net' \subseteq [id : OpIds, op : UserOps, tab : Tabs \cup {None}],
           used' \in [foreign : Nat, faults : Nat, signOuts : Nat],
           seen' \in [OpIds -> Nat \cup {None}], dropped' \subseteq OpIds
    PROVE  Shapes'
BY DEF QueueInv, Shapes, RoomOK

\* A bound is used up a little, or nothing is.
LEMMA UsedIs ==
    ASSUME QueueInv
    PROVE  /\ used \in [foreign : Nat, faults : Nat, signOuts : Nat]
           /\ [used EXCEPT !.faults = @ + 1] \in [foreign : Nat, faults : Nat, signOuts : Nat]
           /\ [used EXCEPT !.faults = @ + 1, !.signOuts = @ + 1]
                 \in [foreign : Nat, faults : Nat, signOuts : Nat]
<1>1. used \in [foreign : Nat, faults : Nat, signOuts : Nat]
  BY DEF QueueInv, Shapes
<1>2. used.faults + 1 \in Nat /\ used.signOuts + 1 \in Nat
  BY <1>1
<1>3. [used EXCEPT !.faults = @ + 1] \in [foreign : Nat, faults : Nat, signOuts : Nat]
  BY <1>1, <1>2
<1>4. [used EXCEPT !.faults = @ + 1, !.signOuts = @ + 1]
         \in [foreign : Nat, faults : Nat, signOuts : Nat]
  BY <1>1, <1>2
<1> QED BY <1>1, <1>3, <1>4

\* The calls of a tab after a step: old ones, and new ones that are right.
NewCallsOK(s, q, d, made, over) ==
    \A k \in DOMAIN s.chain : k > Len(q) - d =>
       CallOK(s.chain[k], s, made, over) /\ (s.chain[k].kind = "pump" => k = Len(s.chain))

NoPumpAfter(q, d) == \A k \in DOMAIN q : k > d => q[k].kind # "pump"

LEMMA CallsFollow ==
    ASSUME NEW s0 \in TabRecord, NEW s \in TabRecord,
           NEW made, NEW over, NEW front, TabOK(s0, made, over, front),
           NEW made2, NEW over2, made \subseteq made2, over \subseteq over2,
           NEW d \in {0, 1}, d <= Len(s0.chain), Follows(s.chain, s0.chain, d),
           NewCallsOK(s, s0.chain, d, made2, over2),
           \/ NoPumpAfter(s0.chain, d)
           \/ /\ s.pc = "read"
              /\ \A k \in DOMAIN s.chain : k > Len(s0.chain) - d => s.chain[k].kind # "pump"
    PROVE  /\ \A k \in DOMAIN s.chain : CallOK(s.chain[k], s, made2, over2)
           /\ OnePump(s)
<1> DEFINE p == s.chain
           q == s0.chain
<1>1. /\ p \in Seq(StorageCall) /\ DOMAIN p = 1..Len(p) /\ Len(p) \in Nat
      /\ q \in Seq(StorageCall) /\ DOMAIN q = 1..Len(q) /\ Len(q) \in Nat
  BY DEF TabRecord
<1>2. ASSUME NEW k \in DOMAIN p, k <= Len(q) - d
      PROVE  /\ k + d \in DOMAIN q /\ k + d > d
             /\ p[k].kind = q[k + d].kind /\ p[k].id = q[k + d].id
             /\ CallOK(q[k + d], s0, made, over)
  <2>1. k \in 1..(Len(q) - d) /\ k + d \in DOMAIN q /\ k + d > d
    BY <1>1, <1>2
  <2> QED BY <2>1 DEF Follows, TabOK, EntriesOK
<1>3. ASSUME NEW k \in DOMAIN p PROVE CallOK(p[k], s, made2, over2)
  <2>1. CASE k <= Len(q) - d
    <3>1. p[k].kind = "pump" => s.pc = "read"
      BY <1>2, <2>1 DEF NoPumpAfter
    <3> QED BY <1>2, <2>1, <3>1 DEF CallOK
  <2>2. CASE ~(k <= Len(q) - d)
    BY <1>1, <2>2 DEF NewCallsOK
  <2> QED BY <2>1, <2>2
<1>4. ASSUME NEW k \in DOMAIN p, NEW l \in DOMAIN p, p[k].kind = "pump", p[l].kind = "pump"
      PROVE  k = l
  <2>1. CASE NoPumpAfter(q, d)
    <3>1. ~(k <= Len(q) - d) /\ ~(l <= Len(q) - d)
      BY <1>2, <1>4, <2>1 DEF NoPumpAfter
    <3> QED BY <1>1, <1>4, <3>1 DEF NewCallsOK
  <2>2. CASE \A j \in DOMAIN p : j > Len(q) - d => p[j].kind # "pump"
    <3>1. k <= Len(q) - d /\ l <= Len(q) - d
      BY <1>1, <1>4, <2>2
    <3>2. k + d = l + d
      BY <1>2, <1>4, <3>1 DEF TabOK, EntriesOK, OnePump
    <3> QED BY <1>1, <3>2
  <2> QED BY <2>1, <2>2
<1> QED BY <1>3, <1>4 DEF OnePump

LEMMA PumpOnlyWhileReading ==
    ASSUME NEW s, NEW made, NEW over, NEW front, TabOK(s, made, over, front), s.pc # "read"
    PROVE  NoPumpAfter(s.chain, 0) /\ NoPumpAfter(s.chain, 1)
BY DEF TabOK, EntriesOK, CallOK, NoPumpAfter

\* One call behind calls that were there.
LEMMA OneNewCall ==
    ASSUME NEW q \in Seq(StorageCall), NEW p \in Seq(StorageCall), NEW d \in {0, 1}, d <= Len(q),
           Follows(p, q, d), Len(p) = Len(q) - d, NEW c \in StorageCall
    PROVE  /\ Follows(Append(p, c), q, d)
           /\ \A k \in DOMAIN Append(p, c) : k > Len(q) - d =>
                 k = Len(Append(p, c)) /\ Append(p, c)[k] = c
           /\ Append(p, c) # <<>>
<1> DEFINE n == Append(p, c)
<1>1. /\ Follows(n, q, d)
      /\ n \in Seq(StorageCall)
      /\ Len(n) = Len(p) + 1
      /\ n[Len(p) + 1] = c
  BY AppendFollows
<1> HIDE DEF n
<1>2. /\ Len(q) \in Nat /\ DOMAIN n = 1..Len(n) /\ Len(n) = Len(q) - d + 1
      /\ Len(n) \in Nat
  BY <1>1
<1>3. \A k \in DOMAIN n : k > Len(q) - d => k = Len(n) /\ n[k] = c
  BY <1>1, <1>2
<1>4. n # <<>>
  BY <1>1, <1>2
<1> QED BY <1>1, <1>3, <1>4 DEF n

\* A step that leaves the storage and the server alone and puts one call behind
\* those that wait.
LEMMA OneCallStep ==
    ASSUME QueueInv, Shapes', NEW t \in Tabs, NEW s \in TabRecord, tabs' = [tabs EXCEPT ![t] = s],
           UNCHANGED <<processed, disk, log>>,
           MadeIds \subseteq MadeIds', dropped \subseteq dropped', dropped' \subseteq MadeIds',
           NEW d \in {0, 1}, d <= Len(tabs[t].chain),
           NEW p \in Seq(StorageCall), Follows(p, tabs[t].chain, d), Len(p) = Len(tabs[t].chain) - d,
           NEW c \in StorageCall, s.chain = Append(p, c), CallOK(c, s, MadeIds', OverIds'),
           c.kind = "add" => c.id \notin MadeIds,
           NoPumpAfter(tabs[t].chain, d) \/ (s.pc = "read" /\ c.kind # "pump"),
           EntriesOK(s, MadeIds', OverIds', FrontIds'), s.sent \subseteq TouchedIds,
           Requests', \A r \in net' : r.id \in TouchedIds
    PROVE  QueueInv'
<1>1. /\ tabs[t] \in TabRecord /\ tabs[t].chain \in Seq(StorageCall)
      /\ TabOK(tabs[t], MadeIds, OverIds, FrontIds)
  BY TabOf
<1>2. OverIds \subseteq OverIds'
  BY DEF OverIds
<1>3. /\ Follows(s.chain, tabs[t].chain, d)
      /\ \A k \in DOMAIN s.chain : k > Len(tabs[t].chain) - d =>
            k = Len(s.chain) /\ s.chain[k] = c
  BY <1>1, OneNewCall
<1>4. /\ NewCallsOK(s, tabs[t].chain, d, MadeIds', OverIds')
      /\ NewAdds(s.chain, tabs[t].chain, d, MadeIds)
  BY <1>3 DEF NewCallsOK, NewAdds
<1>5. /\ \A k \in DOMAIN s.chain : CallOK(s.chain[k], s, MadeIds', OverIds')
      /\ OnePump(s)
  <2>1. \/ NoPumpAfter(tabs[t].chain, d)
        \/ /\ s.pc = "read"
           /\ \A k \in DOMAIN s.chain : k > Len(tabs[t].chain) - d => s.chain[k].kind # "pump"
    BY <1>3
  <2>2. /\ TabOK(tabs[t], MadeIds, OverIds, FrontIds) /\ tabs[t] \in TabRecord
        /\ NewCallsOK(s, tabs[t].chain, d, MadeIds', OverIds')
        /\ Follows(s.chain, tabs[t].chain, d)
    BY <1>1, <1>3, <1>4
  <2> QED BY <1>2, <2>1, <2>2, CallsFollow
<1>6. TabOK(s, MadeIds', OverIds', FrontIds')
  BY <1>5 DEF TabOK
<1> QED BY <1>3, <1>4, <1>6, QuietStep

\* The same without a new call.
LEMMA NoCallStep ==
    ASSUME QueueInv, Shapes', NEW t \in Tabs, NEW s \in TabRecord, tabs' = [tabs EXCEPT ![t] = s],
           UNCHANGED <<processed, disk, log>>,
           MadeIds \subseteq MadeIds', dropped \subseteq dropped', dropped' \subseteq MadeIds',
           NEW d \in {0, 1}, d <= Len(tabs[t].chain),
           Follows(s.chain, tabs[t].chain, d), Len(s.chain) = Len(tabs[t].chain) - d,
           NoPumpAfter(tabs[t].chain, d) \/ s.pc = "read",
           EntriesOK(s, MadeIds', OverIds', FrontIds'), s.sent \subseteq TouchedIds,
           Requests', \A r \in net' : r.id \in TouchedIds
    PROVE  QueueInv'
<1>1. /\ tabs[t] \in TabRecord /\ tabs[t].chain \in Seq(StorageCall)
      /\ TabOK(tabs[t], MadeIds, OverIds, FrontIds)
  BY TabOf
<1>2. OverIds \subseteq OverIds'
  BY DEF OverIds
<1>3. s.chain \in Seq(StorageCall)
  BY DEF TabRecord
<1>4. \A k \in DOMAIN s.chain : ~(k > Len(tabs[t].chain) - d)
  BY <1>1, <1>3
<1>5. NewCallsOK(s, tabs[t].chain, d, MadeIds', OverIds') /\ NewAdds(s.chain, tabs[t].chain, d, MadeIds)
  BY <1>4 DEF NewCallsOK, NewAdds
<1>6. /\ \A k \in DOMAIN s.chain : CallOK(s.chain[k], s, MadeIds', OverIds')
      /\ OnePump(s)
  <2>1. \/ NoPumpAfter(tabs[t].chain, d)
        \/ /\ s.pc = "read"
           /\ \A k \in DOMAIN s.chain : k > Len(tabs[t].chain) - d => s.chain[k].kind # "pump"
    BY <1>4
  <2> QED BY <1>1, <1>2, <1>5, <2>1, CallsFollow
<1>7. TabOK(s, MadeIds', OverIds', FrontIds')
  BY <1>6 DEF TabOK
<1> QED BY <1>5, <1>7, QuietStep

-----------------------------------------------------------------------------
(* The page's actions keep the invariant.                                  *)

LEMMA ClosedTabIs ==
    /\ ClosedTab \in TabRecord
    /\ ClosedTab.mem = <<>> /\ ClosedTab.sent = {} /\ ClosedTab.chain = <<>>
    /\ ClosedTab.pc = "idle" /\ ClosedTab.cur = None /\ ClosedTab.reply = None
<1>1. NoCopy \in Copy
  BY NoCopyIs
<1>2. <<>> \in Seq(Stored) /\ <<>> \in Seq(StorageCall) /\ <<>> \in Seq(Projection)
  OBVIOUS
<1> QED BY <1>1, <1>2 DEF ClosedTab, TabRecord

\* A tab that neither waits for a call nor sends.
LEMMA IdleTabOK ==
    ASSUME NEW s \in TabRecord, NEW made, NEW over, NEW front,
           s.pc = "idle", s.cur = None, s.reply = None,
           s.mem = <<>>, s.sent = {}, s.chain = <<>>
    PROVE  TabOK(s, made, over, front)
<1>1. Ids(s.mem) = {}
  BY DEF Ids, ToSet
<1>2. DOMAIN s.chain = {}
  OBVIOUS
<1> QED BY <1>1, <1>2 DEF TabOK, EntriesOK, OnePump

LEMMA OpenKeeps ==
    ASSUME QueueInv, NEW t \in Tabs, Open(t)
    PROVE  QueueInv'
<1> DEFINE o == [ClosedTab EXCEPT !.up = TRUE]
           c == ReadFor("init")
           s == Enqueue(o, c)
<1>1. /\ ~tabs[t].up /\ tabs' = [tabs EXCEPT ![t] = s]
      /\ UNCHANGED <<room, processed, log, net, disk, saved, used, seen, dropped>>
  BY DEF Open, serverVars, deviceVars
<1>2. /\ o \in TabRecord /\ o.up /\ o.mem = <<>> /\ o.sent = {} /\ o.chain = <<>>
      /\ o.pc = "idle" /\ o.cur = None /\ o.reply = None
  BY ClosedTabIs DEF TabRecord
<1>3. c \in StorageCall /\ c.kind = "init"
  BY ReadForIs DEF Reads
<1> HIDE DEF o, c
<1>4. SameButChain(s, o) /\ s.chain = Append(<<>>, c)
  BY <1>2, <1>3, EnqueueIs
<1> HIDE DEF s
<1>5. /\ tabs[t] \in TabRecord /\ tabs[t].chain = <<>> /\ tabs[t].pc = "idle"
      /\ TabOK(tabs[t], MadeIds, OverIds, FrontIds)
  <2>1. tabs[t] \in TabRecord /\ TabOK(tabs[t], MadeIds, OverIds, FrontIds)
    BY TabOf
  <2> QED BY <1>1, <2>1 DEF TabOK, EntriesOK
<1>6. s \in TabRecord
  BY <1>4 DEF SameButChain
<1>7. Shapes'
  <2>1. Shapes
    BY DEF QueueInv
  <2> QED BY <1>1, <1>6, <2>1, ShapesStay DEF Shapes
<1>8. MadeIds' = MadeIds /\ dropped' \subseteq MadeIds' /\ OverIds' = OverIds /\ FrontIds' = FrontIds
  BY <1>1, NothingMade DEF OverIds, FrontIds
<1>9. /\ Follows(tabs[t].chain, tabs[t].chain, 0) /\ NoPumpAfter(tabs[t].chain, 0)
      /\ 0 <= Len(tabs[t].chain) /\ Len(tabs[t].chain) = Len(tabs[t].chain) - 0
  BY <1>5 DEF Follows, NoPumpAfter
<1>10. CallOK(c, s, MadeIds', OverIds') /\ c.kind # "add"
  BY <1>3 DEF CallOK
<1>11. EntriesOK(s, MadeIds', OverIds', FrontIds')
  <2>1. Ids(s.mem) = {}
    BY <1>2, <1>4 DEF SameButChain, Ids, ToSet
  <2> QED BY <1>2, <1>4, <2>1 DEF EntriesOK, SameButChain
<1>12. Requests' /\ \A r \in net' : r.id \in TouchedIds
  <2>1. Requests' /\ \A r \in net' : \E q \in net : r.id = q.id
    BY <1>1, <1>5, <1>6, <1>8, RequestsStay
  <2> QED BY <2>1 DEF TouchedIds
<1>13. /\ s.sent \subseteq TouchedIds
       /\ tabs[t].chain \in Seq(StorageCall) /\ s.chain = Append(tabs[t].chain, c)
  BY <1>2, <1>4, <1>5 DEF SameButChain
<1> QED BY <1>1, <1>3, <1>6, <1>7, <1>8, <1>9, <1>10, <1>11, <1>12, <1>13, OneCallStep

LEMMA CloseKeeps ==
    ASSUME QueueInv, NEW t \in Tabs, Close(t)
    PROVE  QueueInv'
<1> DEFINE s == ClosedTab
<1>1. /\ tabs' = [tabs EXCEPT ![t] = s]
      /\ used' = [used EXCEPT !.faults = @ + 1]
      /\ net' = {[r EXCEPT !.tab = IF @ = t THEN None ELSE @] : r \in net}
      /\ UNCHANGED <<room, processed, log, disk, saved, seen, dropped>>
  BY DEF Close, serverVars, deviceVars
<1>2. /\ s \in TabRecord /\ s.mem = <<>> /\ s.sent = {} /\ s.chain = <<>>
      /\ s.pc = "idle" /\ s.cur = None /\ s.reply = None
  BY ClosedTabIs
<1> HIDE DEF s
<1>3. Shapes /\ tabs \in [Tabs -> TabRecord]
  BY DEF QueueInv, Shapes
<1>4. Shapes'
  <2>1. net' \subseteq [id : OpIds, op : UserOps, tab : Tabs \cup {None}]
    BY <1>1, <1>3 DEF Shapes
  <2>2. used' \in [foreign : Nat, faults : Nat, signOuts : Nat]
    BY <1>1, UsedIs
  <2> QED BY <1>1, <1>2, <1>3, <2>1, <2>2, ShapesStay DEF Shapes
<1>5. MadeIds' = MadeIds /\ dropped' \subseteq MadeIds' /\ OverIds' = OverIds /\ FrontIds' = FrontIds
  BY <1>1, NothingMade DEF OverIds, FrontIds
<1>6. Requests' /\ \A r \in net' : \E q \in net : r.id = q.id
  BY <1>1, <1>2, <1>5, RequestsStay
<1>7. TabOK(s, MadeIds', OverIds', FrontIds')
  BY <1>2, IdleTabOK
<1>8. tabs'[t] = s /\ \A u \in Tabs \ {t} : tabs'[u] = tabs[u]
  BY <1>1, <1>3
<1>9. TouchedIds' \subseteq TouchedIds
  <2>1. \A u \in Tabs : tabs'[u].sent \subseteq TouchedIds
    BY <1>2, <1>8 DEF TouchedIds
  <2>2. \A r \in net' : r.id \in TouchedIds
    BY <1>6 DEF TouchedIds
  <2>3. Ids(disk)' \cup ToSet(log)' \subseteq TouchedIds
    BY <1>1 DEF TouchedIds, Ids
  <2> QED BY <2>1, <2>2, <2>3 DEF TouchedIds
<1>10. AddsDiffer' /\ AddsAreNew'
  <2>1. DOMAIN s.chain = {}
    BY <1>2
  <2>2. AddsDiffer'
    BY <1>8, <2>1 DEF QueueInv, AddsDiffer
  <2>3. AddsAreNew'
    BY <1>8, <1>9, <2>1 DEF QueueInv, AddsAreNew
  <2> QED BY <2>2, <2>3
<1>11. LogIsProcessed' /\ EntriesDiffer' /\ (Ids(disk) \cup OverIds \subseteq MadeIds)'
  BY <1>1, <1>5 DEF QueueInv, LogIsProcessed, EntriesDiffer, Ids
<1> QED BY <1>1, <1>2, <1>4, <1>5, <1>6, <1>7, <1>10, <1>11, OneTabStep

LEMMA SendKeeps ==
    ASSUME QueueInv, NEW t \in Tabs, Send(t)
    PROVE  QueueInv'
<1> DEFINE s0 == tabs[t]
<1>1. PICK id \in {i \in OpIds : seen[i] = None}, op \in OpsOnShown(s0) :
         /\ tabs' = [tabs EXCEPT ![t] =
               Pump(Show(Enqueue(Mutated([s0 EXCEPT !.mem = Append(@, Entry(id, op))]),
                                 Call("add", id, op)), Entry(id, op)))]
         /\ seen' = [seen EXCEPT ![id] = s0.copy.foreign]
  BY DEF Send
<1>2. /\ s0.up /\ s0.copy.row # None
      /\ UNCHANGED <<room, processed, log, net, disk, saved, used, dropped>>
  BY DEF Send, serverVars, deviceVars
<1>3. /\ s0 \in TabRecord /\ s0.chain \in Seq(StorageCall) /\ Len(s0.chain) \in Nat
      /\ TabOK(s0, MadeIds, OverIds, FrontIds) /\ s0.sent \subseteq TouchedIds
  BY TabOf
<1>4. op \in UserOps /\ id \in OpIds
  BY <1>2, <1>3, OpsOnShownAre
<1> DEFINE e == Entry(id, op)
           c == Call("add", id, op)
           a == [s0 EXCEPT !.mem = Append(@, e)]
           m == Mutated(a)
           n == Enqueue(m, c)
           w == Show(n, e)
           s == Pump(w)
<1>5. e \in Stored /\ e.id = id /\ c \in StorageCall /\ c.kind = "add" /\ c.id = id
  BY <1>4, CallIs DEF Entry, Stored
<1>6. tabs' = [tabs EXCEPT ![t] = s]
  BY <1>1
<1> HIDE DEF e, c
<1>7. /\ a \in TabRecord /\ Ids(a.mem) = Ids(s0.mem) \cup {id}
      /\ a.up = s0.up /\ a.sent = s0.sent /\ a.chain = s0.chain /\ a.pc = s0.pc
      /\ a.cur = s0.cur /\ a.reply = s0.reply
  <2>1. s0.mem \in Seq(Stored)
    BY <1>3 DEF TabRecord
  <2>2. Append(s0.mem, e) \in Seq(Stored) /\ ToSet(Append(s0.mem, e)) = ToSet(s0.mem) \cup {e}
    BY <1>5, <2>1, AppendProperties, AppendElements
  <2>3. /\ a \in TabRecord /\ a.mem = Append(s0.mem, e)
        /\ a.up = s0.up /\ a.sent = s0.sent /\ a.chain = s0.chain /\ a.pc = s0.pc
        /\ a.cur = s0.cur /\ a.reply = s0.reply
    BY <1>3, <2>2 DEF TabRecord
  <2> QED BY <1>5, <2>2, <2>3 DEF Ids
<1> HIDE DEF a
<1>8. SameButChain(m, a) /\ Follows(m.chain, s0.chain, 0) /\ Len(m.chain) = Len(s0.chain)
  BY <1>7, MutatedIs
<1> HIDE DEF m
<1>9. m \in TabRecord /\ m.chain \in Seq(StorageCall)
  BY <1>8 DEF SameButChain, TabRecord
<1>10. SameButChain(n, m) /\ n.chain = Append(m.chain, c) /\ n \in TabRecord
  BY <1>5, <1>9, EnqueueIs DEF SameButChain
<1> HIDE DEF n
<1>11. SameQueue(w, n) /\ w \in TabRecord
  BY <1>5, <1>10, ShowIs DEF SameQueue
<1> HIDE DEF w
<1>12. /\ s \in TabRecord
       /\ s.up = w.up /\ s.mem = w.mem /\ s.sent = w.sent /\ s.cur = w.cur
       /\ s.reply = w.reply /\ s.chain = w.chain
       /\ s.pc = IF w.pc = "idle" THEN "lock" ELSE w.pc
  BY <1>11, PumpIs
<1> HIDE DEF s
<1>13. /\ s.up /\ Ids(s.mem) = Ids(s0.mem) \cup {id} /\ s.sent = s0.sent
       /\ s.cur = s0.cur /\ s.reply = s0.reply /\ s.chain = Append(m.chain, c)
       /\ s.pc = IF s0.pc = "idle" THEN "lock" ELSE s0.pc
  BY <1>2, <1>7, <1>8, <1>10, <1>11, <1>12 DEF SameButChain, SameQueue
<1>14. /\ MadeIds' = MadeIds \cup {id} /\ id \notin MadeIds
       /\ OverIds' = OverIds /\ FrontIds' = FrontIds
       /\ seen' \in [OpIds -> Nat \cup {None}]
  <2>1. s0.copy.foreign \in Nat /\ s0.copy.foreign # None
    BY <1>3, NoneIsNone DEF TabRecord, Copy
  <2>2. seen \in [OpIds -> Nat \cup {None}] /\ seen[id] = None
    BY DEF QueueInv, Shapes
  <2>3. /\ seen' \in [OpIds -> Nat \cup {None}]
        /\ \A i \in OpIds : seen'[i] = IF i = id THEN s0.copy.foreign ELSE seen[i]
    BY <1>1, <2>1, <2>2
  <2>4. MadeIds' = MadeIds \cup {id} /\ id \notin MadeIds
    BY <1>4, <2>1, <2>2, <2>3 DEF MadeIds
  <2> QED BY <1>2, <2>3, <2>4 DEF OverIds, FrontIds
<1>15. Shapes'
  <2>1. Shapes
    BY DEF QueueInv
  <2> QED BY <1>2, <1>6, <1>12, <1>14, <2>1, ShapesStay DEF Shapes
<1>16. EntriesOK(s, MadeIds', OverIds', FrontIds')
  BY <1>3, <1>13, <1>14 DEF TabOK, EntriesOK
<1>17. Requests' /\ \A r \in net' : r.id \in TouchedIds
  <2>1. s0.pc = "call" /\ s0.reply = None => s.pc = "call" /\ s.reply = None /\ s.cur = s0.cur
    BY <1>13
  <2>2. Requests' /\ \A r \in net' : \E q \in net : r.id = q.id
    BY <1>2, <1>6, <1>12, <1>14, <2>1, RequestsStay
  <2> QED BY <2>2 DEF TouchedIds
<1>18. CallOK(c, s, MadeIds', OverIds')
  BY <1>5, <1>14 DEF CallOK
<1>19. NoPumpAfter(s0.chain, 0) \/ (s.pc = "read" /\ c.kind # "pump")
  BY <1>3, <1>5, <1>13, PumpOnlyWhileReading
<1>20. /\ 0 <= Len(s0.chain) /\ Len(m.chain) = Len(s0.chain) - 0
       /\ c.kind = "add" => c.id \notin MadeIds
       /\ dropped' \subseteq MadeIds' /\ dropped \subseteq dropped' /\ MadeIds \subseteq MadeIds'
  <2>1. dropped \subseteq MadeIds
    BY DEF QueueInv, OverIds
  <2> QED BY <1>2, <1>3, <1>5, <1>8, <1>14, <2>1
<1>21. s.sent \subseteq TouchedIds /\ UNCHANGED <<processed, disk, log>>
  BY <1>2, <1>3, <1>13
<1> HIDE DEF s0
<1> QED BY <1>5, <1>6, <1>8, <1>9, <1>12, <1>13, <1>15, <1>16, <1>17, <1>18, <1>19, <1>20,
           <1>21, OneCallStep DEF s0

LEMMA DiscardKeeps ==
    ASSUME QueueInv, NEW t \in Tabs, Discard(t)
    PROVE  QueueInv'
<1> DEFINE s0 == tabs[t]
<1>1. PICK id \in Ids(s0.mem) :
         /\ ~(s0.pc \in {"mark", "call"} /\ s0.cur.id = id)
         /\ tabs' = [tabs EXCEPT ![t] = Pump(Drop(RemoveEntry(s0, id), id))]
         /\ dropped' = dropped \cup {id}
  BY DEF Discard
<1>2. /\ s0.up /\ used' = [used EXCEPT !.faults = @ + 1]
      /\ UNCHANGED <<room, processed, log, net, disk, saved, seen>>
  BY DEF Discard, serverVars, deviceVars
<1>3. /\ s0 \in TabRecord /\ s0.chain \in Seq(StorageCall) /\ Len(s0.chain) \in Nat
      /\ TabOK(s0, MadeIds, OverIds, FrontIds) /\ s0.sent \subseteq TouchedIds
  BY TabOf
<1>4. id \in MadeIds /\ id \in OpIds
  BY <1>3 DEF TabOK, EntriesOK, MadeIds
<1> DEFINE c == Call("remove", id, None)
           g == RemoveEntry(s0, id)
           w == Drop(g, id)
           s == Pump(w)
<1>5. c \in StorageCall /\ c.kind = "remove" /\ c.id = id
  BY <1>4, CallIs
<1>6. tabs' = [tabs EXCEPT ![t] = s]
  BY <1>1
<1>7. /\ g \in TabRecord
      /\ g.up = s0.up /\ g.pc = s0.pc /\ g.cur = s0.cur /\ g.reply = s0.reply
      /\ g.sent = s0.sent \ {id}
      /\ ToSet(g.mem) = {e \in ToSet(s0.mem) : e.id # id}
      /\ Follows(g.chain, s0.chain, 0)
      /\ Len(g.chain) = Len(s0.chain) + 1
      /\ g.chain[Len(s0.chain) + 1] = c
  BY <1>3, <1>4, RemoveEntryIs
<1> HIDE DEF c, g
<1>8. SameQueue(w, g) /\ w \in TabRecord
  BY <1>7, DropIs DEF SameQueue
<1> HIDE DEF w
<1>9. /\ s \in TabRecord
      /\ s.up = w.up /\ s.mem = w.mem /\ s.sent = w.sent /\ s.cur = w.cur
      /\ s.reply = w.reply /\ s.chain = w.chain
      /\ s.pc = IF w.pc = "idle" THEN "lock" ELSE w.pc
  BY <1>8, PumpIs
<1> HIDE DEF s
<1>10. /\ s.up /\ Ids(s.mem) \subseteq Ids(s0.mem) /\ s.sent = s0.sent \ {id}
       /\ s.cur = s0.cur /\ s.reply = s0.reply /\ s.chain = g.chain
       /\ s.pc = IF s0.pc = "idle" THEN "lock" ELSE s0.pc
  BY <1>2, <1>7, <1>8, <1>9 DEF SameQueue, Ids
<1>11. /\ MadeIds' = MadeIds /\ OverIds' = OverIds \cup {id} /\ FrontIds' = FrontIds \cup {id}
       /\ dropped' \subseteq MadeIds'
  <2>1. dropped \subseteq MadeIds
    BY DEF QueueInv, OverIds
  <2> QED BY <1>1, <1>2, <1>4, <2>1 DEF MadeIds, OverIds, FrontIds
<1>12. Shapes'
  <2>1. Shapes /\ dropped' \subseteq OpIds
    BY <1>1, <1>4 DEF QueueInv, Shapes
  <2>2. used' \in [foreign : Nat, faults : Nat, signOuts : Nat]
    BY <1>2, UsedIs
  <2> QED BY <1>2, <1>6, <1>9, <2>1, <2>2, ShapesStay DEF Shapes
<1>13. EntriesOK(s, MadeIds', OverIds', FrontIds')
  BY <1>1, <1>3, <1>10, <1>11 DEF TabOK, EntriesOK
<1>14. Requests' /\ \A r \in net' : r.id \in TouchedIds
  <2>1. s0.pc = "call" /\ s0.reply = None => s.pc = "call" /\ s.reply = None /\ s.cur = s0.cur
    BY <1>10
  <2>2. Requests' /\ \A r \in net' : \E q \in net : r.id = q.id
    BY <1>2, <1>6, <1>9, <1>11, <2>1, RequestsStay
  <2> QED BY <2>2 DEF TouchedIds
<1>15. NoPumpAfter(s0.chain, 0) \/ s.pc = "read"
  BY <1>3, <1>10, PumpOnlyWhileReading
<1>16. s.chain \in Seq(StorageCall) /\ DOMAIN s.chain = 1..Len(s.chain)
  BY <1>9 DEF TabRecord
<1>17. \A k \in DOMAIN s.chain : k > Len(s0.chain) - 0 =>
          k = Len(s.chain) /\ s.chain[k] = c
  BY <1>3, <1>7, <1>10, <1>16
<1>18. /\ NewCallsOK(s, s0.chain, 0, MadeIds', OverIds')
       /\ NewAdds(s.chain, s0.chain, 0, MadeIds)
  BY <1>5, <1>11, <1>17 DEF NewCallsOK, NewAdds, CallOK
<1>19. /\ \A k \in DOMAIN s.chain : CallOK(s.chain[k], s, MadeIds', OverIds')
       /\ OnePump(s)
  <2>1. \/ NoPumpAfter(s0.chain, 0)
        \/ /\ s.pc = "read"
           /\ \A k \in DOMAIN s.chain : k > Len(s0.chain) - 0 => s.chain[k].kind # "pump"
    BY <1>5, <1>15, <1>17
  <2>2. OverIds \subseteq OverIds' /\ MadeIds \subseteq MadeIds' /\ 0 <= Len(s0.chain)
    BY <1>3, <1>11
  <2>3. Follows(s.chain, s0.chain, 0)
    BY <1>7, <1>10
  <2> HIDE DEF s0
  <2> QED BY <1>3, <1>9, <1>18, <2>1, <2>2, <2>3, CallsFollow
<1>20. TabOK(s, MadeIds', OverIds', FrontIds')
  BY <1>13, <1>19 DEF TabOK
<1>21. s.sent \subseteq TouchedIds /\ UNCHANGED <<processed, disk, log>> /\ 0 <= Len(s0.chain)
  BY <1>2, <1>3, <1>10
<1> HIDE DEF s0
<1>22. Follows(s.chain, s0.chain, 0) /\ MadeIds \subseteq MadeIds' /\ dropped \subseteq dropped'
  BY <1>1, <1>7, <1>10, <1>11
<1> QED BY <1>6, <1>9, <1>11, <1>12, <1>14, <1>18, <1>20, <1>21, <1>22, QuietStep DEF s0

LEMMA PauseKeeps ==
    ASSUME QueueInv, NEW t \in Tabs, Pause(t)
    PROVE  QueueInv'
<1> DEFINE s == [tabs[t] EXCEPT !.paused = TRUE]
<1>1. /\ tabs' = [tabs EXCEPT ![t] = s]
      /\ used' = [used EXCEPT !.faults = @ + 1]
      /\ UNCHANGED <<room, processed, log, net, disk, saved, seen, dropped>>
  BY DEF Pause, serverVars, deviceVars
<1>2. tabs[t] \in TabRecord
  BY TabOf
<1>3. /\ s \in TabRecord
      /\ s.up = tabs[t].up /\ s.mem = tabs[t].mem /\ s.sent = tabs[t].sent
      /\ s.chain = tabs[t].chain /\ s.pc = tabs[t].pc /\ s.cur = tabs[t].cur
      /\ s.reply = tabs[t].reply
  BY <1>2 DEF TabRecord
<1> HIDE DEF s
<1>4. Shapes'
  <2>1. Shapes /\ used' \in [foreign : Nat, faults : Nat, signOuts : Nat]
    BY <1>1, UsedIs DEF QueueInv
  <2> QED BY <1>1, <1>3, <2>1, ShapesStay DEF Shapes
<1> QED BY <1>1, <1>3, <1>4, QueueUnmoved

LEMMA SignedOutKeeps ==
    ASSUME QueueInv, NEW t \in Tabs, SignedOut(t)
    PROVE  QueueInv'
<1> DEFINE a == [tabs[t] EXCEPT !.paused = TRUE]
           s == Clear(a)
<1>1. /\ tabs' = [tabs EXCEPT ![t] = s]
      /\ used' = [used EXCEPT !.faults = @ + 1, !.signOuts = @ + 1]
      /\ saved' = NoCopy
      /\ UNCHANGED <<room, processed, log, net, disk, seen, dropped>>
  BY DEF SignedOut, serverVars
<1>2. tabs[t] \in TabRecord
  BY TabOf
<1>3. /\ a \in TabRecord
      /\ a.up = tabs[t].up /\ a.mem = tabs[t].mem /\ a.sent = tabs[t].sent
      /\ a.chain = tabs[t].chain /\ a.pc = tabs[t].pc /\ a.cur = tabs[t].cur
      /\ a.reply = tabs[t].reply
  BY <1>2 DEF TabRecord
<1> HIDE DEF a
<1>4. SameQueue(s, a)
  BY <1>3, ClearIs
<1> HIDE DEF s
<1>5. Shapes'
  <2>1. Shapes /\ used' \in [foreign : Nat, faults : Nat, signOuts : Nat] /\ saved' \in Copy
    BY <1>1, UsedIs, NoCopyIs DEF QueueInv
  <2> QED BY <1>1, <1>4, <2>1, ShapesStay DEF Shapes, SameQueue
<1> QED BY <1>1, <1>3, <1>4, <1>5, QueueUnmoved DEF SameQueue

LEMMA AskFeedKeeps ==
    ASSUME QueueInv, NEW t \in Tabs, AskFeed(t) \/ AnswerFeed(t)
    PROVE  QueueInv'
<1>1. PICK f \in {Asked, CopyNow} : tabs' = [tabs EXCEPT ![t].feed = f]
  BY DEF AskFeed, AnswerFeed
<1> DEFINE s == [tabs[t] EXCEPT !.feed = f]
<1>2. /\ tabs' = [tabs EXCEPT ![t] = s]
      /\ UNCHANGED <<room, processed, log, net, disk, saved, used, seen, dropped>>
  BY <1>1 DEF AskFeed, AnswerFeed, serverVars, deviceVars
<1>3. tabs[t] \in TabRecord
  BY TabOf
<1>4. f \in Copy
  <2>1. RoomOK(room) /\ used.foreign \in Nat
    BY DEF QueueInv, Shapes
  <2> QED BY <2>1, NoCopyIs, CopyNowIs
<1>5. /\ s \in TabRecord
      /\ s.up = tabs[t].up /\ s.mem = tabs[t].mem /\ s.sent = tabs[t].sent
      /\ s.chain = tabs[t].chain /\ s.pc = tabs[t].pc /\ s.cur = tabs[t].cur
      /\ s.reply = tabs[t].reply
  BY <1>3, <1>4 DEF TabRecord
<1> HIDE DEF s
<1>6. Shapes'
  <2>1. Shapes
    BY DEF QueueInv
  <2> QED BY <1>2, <1>5, <2>1, ShapesStay DEF Shapes
<1> QED BY <1>2, <1>5, <1>6, QueueUnmoved

LEMMA TakeFeedKeeps ==
    ASSUME QueueInv, NEW t \in Tabs, TakeFeed(t)
    PROVE  QueueInv'
<1> DEFINE s0       == tabs[t]
           pending  == Picked(s0.pending, {k \in DOMAIN s0.pending :
                          \/ s0.pending[k].appliedSeq = None
                          \/ s0.pending[k].appliedSeq > s0.feed.seq})
           answered == IF s0.answered # None /\ s0.answered.seq > s0.feed.seq
                       THEN s0.answered ELSE None
           later    == [s0 EXCEPT !.feed = None]
           fresh    == [later EXCEPT !.copy = s0.feed, !.pending = pending, !.answered = answered]
           Quiet(s) == /\ s \in TabRecord
                       /\ s.up = s0.up /\ s.mem = s0.mem /\ s.sent = s0.sent
                       /\ s.chain = s0.chain /\ s.pc = s0.pc /\ s.cur = s0.cur
                       /\ s.reply = s0.reply
<1>1. /\ s0.up /\ s0.feed \notin {None, Asked}
      /\ UNCHANGED <<room, processed, log, net, disk, used, seen, dropped>>
      /\ \/ tabs' = [tabs EXCEPT ![t] = later] /\ UNCHANGED saved
         \/ /\ tabs' = [tabs EXCEPT ![t] = fresh]
            /\ saved' \in {saved, s0.feed}
         \/ /\ tabs' = [tabs EXCEPT ![t] = Enqueue(fresh, ReadFor("load"))]
            /\ saved' \in {saved, s0.feed}
  BY DEF TakeFeed, serverVars
<1>2. /\ s0 \in TabRecord /\ s0.chain \in Seq(StorageCall) /\ Len(s0.chain) \in Nat
      /\ TabOK(s0, MadeIds, OverIds, FrontIds) /\ s0.sent \subseteq TouchedIds
  BY TabOf
<1>3. s0.feed \in Copy /\ s0.pending \in Seq(Projection)
  BY <1>1, <1>2 DEF TabRecord
<1>4. pending \in Seq(Projection)
  BY <1>3, PickedAreThere
<1>5. answered \in [cseq : Nat, seq : Nat] \cup {None}
  BY <1>2 DEF TabRecord
<1> HIDE DEF pending, answered
<1>6. Quiet(later)
  BY <1>2 DEF TabRecord
<1>7. Quiet(fresh)
  BY <1>3, <1>4, <1>5, <1>6 DEF TabRecord
<1> HIDE DEF later, fresh
<1>8. Shapes /\ saved' \in Copy
  BY <1>1, <1>3 DEF QueueInv, Shapes
<1>9. ASSUME NEW s, Quiet(s), tabs' = [tabs EXCEPT ![t] = s]
      PROVE  QueueInv'
  <2>1. Shapes'
    BY <1>1, <1>8, <1>9, ShapesStay DEF Shapes
  <2> QED BY <1>1, <1>9, <2>1, QueueUnmoved
<1>10. ASSUME tabs' = [tabs EXCEPT ![t] = Enqueue(fresh, ReadFor("load"))]
       PROVE  QueueInv'
  <2> DEFINE c == ReadFor("load")
             s == Enqueue(fresh, c)
  <2>1. c \in StorageCall /\ c.kind = "load" /\ tabs' = [tabs EXCEPT ![t] = s]
    BY <1>10, ReadForIs DEF Reads
  <2> HIDE DEF c
  <2>2. SameButChain(s, fresh) /\ s.chain = Append(s0.chain, c)
    BY <1>7, <2>1, EnqueueIs
  <2> HIDE DEF s
  <2>3. /\ s \in TabRecord
        /\ s.up = s0.up /\ s.mem = s0.mem /\ s.sent = s0.sent /\ s.pc = s0.pc /\ s.cur = s0.cur
        /\ s.reply = s0.reply
    BY <1>7, <2>2 DEF SameButChain
  <2>4. Shapes'
    BY <1>1, <1>8, <2>1, <2>3, ShapesStay DEF Shapes
  <2>5. /\ MadeIds' = MadeIds /\ dropped' \subseteq MadeIds' /\ dropped \subseteq dropped'
        /\ OverIds' = OverIds /\ FrontIds' = FrontIds
    BY <1>1, NothingMade DEF OverIds, FrontIds
  <2>6. Requests' /\ \A r \in net' : r.id \in TouchedIds
    <3>1. Requests' /\ \A r \in net' : \E q \in net : r.id = q.id
      BY <1>1, <2>1, <2>3, <2>5, RequestsStay
    <3> QED BY <3>1 DEF TouchedIds
  <2>7. EntriesOK(s, MadeIds', OverIds', FrontIds')
    BY <1>1, <1>2, <2>3, <2>5 DEF TabOK, EntriesOK
  <2>8. CallOK(c, s, MadeIds', OverIds') /\ c.kind # "add"
    BY <2>1 DEF CallOK
  <2>9. NoPumpAfter(s0.chain, 0) \/ (s.pc = "read" /\ c.kind # "pump")
    BY <1>2, <2>1, <2>3, PumpOnlyWhileReading
  <2>10. Follows(s0.chain, s0.chain, 0) /\ 0 <= Len(s0.chain) /\ Len(s0.chain) = Len(s0.chain) - 0
    BY <1>2 DEF Follows
  <2>11. s.sent \subseteq TouchedIds /\ UNCHANGED <<processed, disk, log>>
    BY <1>1, <1>2, <2>3
  <2> QED BY <1>2, <2>1, <2>2, <2>3, <2>4, <2>5, <2>6, <2>7, <2>8, <2>9, <2>10, <2>11, OneCallStep
<1> HIDE DEF Quiet
<1> QED BY <1>1, <1>6, <1>7, <1>9, <1>10

-----------------------------------------------------------------------------
(* The send loop keeps the invariant.                                      *)

\* A step that ends at the top of the loop, with an answer settled or not.
LEMMA RoundStep ==
    ASSUME QueueInv, Shapes', NEW t \in Tabs, NEW g \in TabRecord,
           tabs' = [tabs EXCEPT ![t] = NextRound(g)],
           UNCHANGED <<processed, disk, log, seen>>,
           dropped \subseteq dropped', dropped' \subseteq MadeIds,
           tabs[t].pc # "read", g.up,
           Ids(g.mem) \subseteq MadeIds, g.sent \subseteq tabs[t].sent,
           Follows(g.chain, tabs[t].chain, 0),
           \A k \in DOMAIN g.chain : k > Len(tabs[t].chain) =>
              \/ g.chain[k].kind = "remove" /\ g.chain[k].id \in OverIds'
              \/ g.chain[k].kind = "setOp",
           Requests', \A r \in net' : r.id \in TouchedIds
    PROVE  QueueInv'
<1> DEFINE s0 == tabs[t]
           s == NextRound(g)
<1>1. /\ s0 \in TabRecord /\ s0.chain \in Seq(StorageCall) /\ Len(s0.chain) \in Nat
      /\ TabOK(s0, MadeIds, OverIds, FrontIds) /\ s0.sent \subseteq TouchedIds
  BY TabOf
<1>2. g.chain \in Seq(StorageCall) /\ Len(g.chain) \in Nat /\ DOMAIN g.chain = 1..Len(g.chain)
  BY DEF TabRecord
<1>3. /\ s \in TabRecord
      /\ s.up = g.up /\ s.mem = g.mem /\ s.sent = g.sent
      /\ s.cur = None /\ s.reply = None
      /\ g.paused => s.pc = "idle" /\ s.chain = g.chain
      /\ ~g.paused => s.pc = "read" /\ s.chain = Append(g.chain, ReadFor("pump"))
  BY NextRoundIs
<1> HIDE DEF s
<1>4. MadeIds' = MadeIds /\ OverIds \subseteq OverIds'
  BY DEF MadeIds, OverIds
<1>5. EntriesOK(s, MadeIds', OverIds', FrontIds')
  <2>1. s.pc \in {"idle", "read"}
    BY <1>3
  <2>2. s.sent \subseteq MadeIds
    BY <1>1, <1>3 DEF TabOK, EntriesOK
  <2> QED BY <1>3, <1>4, <2>1, <2>2 DEF EntriesOK
<1>6. ReadFor("pump") \in StorageCall /\ ReadFor("pump").kind = "pump"
  BY ReadForIs DEF Reads
<1>7. /\ Follows(s.chain, s0.chain, 0)
      /\ \A k \in DOMAIN s.chain : k > Len(s0.chain) =>
            \/ s.chain[k].kind = "remove" /\ s.chain[k].id \in OverIds'
            \/ s.chain[k].kind = "setOp"
            \/ s.chain[k].kind = "pump" /\ k = Len(s.chain) /\ s.pc = "read"
  <2>1. CASE g.paused
    BY <1>3, <2>1
  <2>2. CASE ~g.paused
    <3> DEFINE n == ReadFor("pump")
    <3>1. /\ Follows(s.chain, s0.chain, 0)
          /\ Len(s.chain) = Len(g.chain) + 1
          /\ s.chain[Len(g.chain) + 1] = ReadFor("pump")
          /\ \A k \in 1..Len(g.chain) : s.chain[k] = g.chain[k]
      <4>1. s.chain = Append(g.chain, n) /\ n \in StorageCall
        BY <1>3, <1>6, <2>2
      <4>2. Follows(g.chain, s0.chain, 0)
        OBVIOUS
      <4>3. s0.chain \in Seq(StorageCall) /\ g.chain \in Seq(StorageCall)
        BY <1>1, <1>2
      <4> HIDE DEF n, s0
      <4>4. /\ Follows(Append(g.chain, n), s0.chain, 0)
            /\ Len(Append(g.chain, n)) = Len(g.chain) + 1
            /\ Append(g.chain, n)[Len(g.chain) + 1] = n
            /\ \A k \in 1..Len(g.chain) : Append(g.chain, n)[k] = g.chain[k]
        BY <4>1, <4>2, <4>3, AppendFollows
      <4> QED BY <4>1, <4>4 DEF n
    <3>2. s.chain \in Seq(StorageCall) /\ DOMAIN s.chain = 1..Len(s.chain)
      BY <1>3 DEF TabRecord
    <3>3. \A k \in DOMAIN s.chain : k \in DOMAIN g.chain \/ k = Len(g.chain) + 1
      BY <1>2, <3>1, <3>2
    <3> QED BY <1>2, <1>3, <1>6, <2>2, <3>1, <3>3
  <2> QED BY <2>1, <2>2
<1>8. /\ NewCallsOK(s, s0.chain, 0, MadeIds', OverIds')
      /\ NewAdds(s.chain, s0.chain, 0, MadeIds)
  <2>1. Len(s0.chain) - 0 = Len(s0.chain)
    BY <1>1
  <2> QED BY <1>7, <2>1 DEF NewCallsOK, NewAdds, CallOK
<1>9. NoPumpAfter(s0.chain, 0)
  BY <1>1, PumpOnlyWhileReading
<1>10. 0 <= Len(s0.chain) /\ MadeIds \subseteq MadeIds'
  BY <1>1, <1>4
<1> HIDE DEF s0
<1>11. /\ \A k \in DOMAIN s.chain : CallOK(s.chain[k], s, MadeIds', OverIds')
       /\ OnePump(s)
  BY <1>1, <1>3, <1>4, <1>7, <1>8, <1>9, <1>10, CallsFollow
<1>12. TabOK(s, MadeIds', OverIds', FrontIds')
  BY <1>5, <1>11 DEF TabOK
<1>13. s.sent \subseteq TouchedIds /\ dropped' \subseteq MadeIds' /\ tabs' = [tabs EXCEPT ![t] = s]
  BY <1>1, <1>3, <1>4 DEF s, s0
<1> QED BY <1>3, <1>7, <1>8, <1>10, <1>12, <1>13, QuietStep DEF s0

LEMMA TakeLockKeeps ==
    ASSUME QueueInv, NEW t \in Tabs, TakeLock(t) \/ Wake(t)
    PROVE  QueueInv'
<1>1. /\ tabs[t].pc \in {"lock", "sleep"}
      /\ tabs' = [tabs EXCEPT ![t] = NextRound(tabs[t])]
      /\ UNCHANGED <<room, processed, log, net, disk, saved, used, seen, dropped>>
  BY DEF TakeLock, Wake, serverVars, deviceVars
<1>2. /\ tabs[t] \in TabRecord /\ tabs[t].chain \in Seq(StorageCall) /\ Len(tabs[t].chain) \in Nat
      /\ TabOK(tabs[t], MadeIds, OverIds, FrontIds)
  BY TabOf
<1>3. NextRound(tabs[t]) \in TabRecord
  BY <1>2, NextRoundIs
<1>4. Shapes'
  <2>1. Shapes
    BY DEF QueueInv
  <2> QED BY <1>1, <1>3, <2>1, ShapesStay DEF Shapes
<1>5. /\ MadeIds' = MadeIds /\ dropped' \subseteq MadeIds /\ dropped \subseteq dropped'
      /\ OverIds' = OverIds /\ FrontIds' = FrontIds
  BY <1>1, NothingMade DEF OverIds, FrontIds
<1>6. Requests' /\ \A r \in net' : r.id \in TouchedIds
  <2>1. Requests' /\ \A r \in net' : \E q \in net : r.id = q.id
    BY <1>1, <1>3, <1>5, RequestsStay
  <2> QED BY <2>1 DEF TouchedIds
<1>7. tabs[t].up /\ Ids(tabs[t].mem) \subseteq MadeIds /\ tabs[t].pc # "read"
  BY <1>1, <1>2 DEF TabOK, EntriesOK
<1>8. /\ Follows(tabs[t].chain, tabs[t].chain, 0)
      /\ \A k \in DOMAIN tabs[t].chain : ~(k > Len(tabs[t].chain))
  BY <1>2 DEF Follows
<1>9. UNCHANGED <<processed, disk, log, seen>>
  BY <1>1
<1> QED BY <1>1, <1>2, <1>4, <1>5, <1>6, <1>7, <1>8, <1>9, RoundStep

\* A request of the tab goes out.
LEMMA RequestSent ==
    ASSUME QueueInv, NEW t \in Tabs, NEW s \in TabRecord, tabs' = [tabs EXCEPT ![t] = s],
           MadeIds \subseteq MadeIds', FrontIds \subseteq FrontIds',
           tabs[t].pc # "call", NEW q, net' = net \cup {q}, q.tab = t,
           q.id \in MadeIds \cap FrontIds \cap TouchedIds,
           s.pc = "call", s.reply = None, s.cur.id = q.id
    PROVE  Requests' /\ \A r \in net' : r.id \in TouchedIds
<1>1. /\ \A r, p \in net : r.tab = p.tab /\ r.tab # None => r = p
      /\ \A r \in net : r.id \in MadeIds \cap FrontIds /\ Awaits(r, tabs)
      /\ tabs'[t] = s /\ \A u \in Tabs \ {t} : tabs'[u] = tabs[u]
      /\ \A r \in net : r.tab \in Tabs \cup {None}
      /\ t # None
  BY NoneIsNoRecord DEF QueueInv, Requests, Shapes
<1>2. \A r \in net : r.tab # t
  BY <1>1 DEF Awaits
<1>3. \A r \in net' : Awaits(r, tabs')
  BY <1>1, <1>2 DEF Awaits
<1>4. \A r, p \in net' : r.tab = p.tab /\ r.tab # None => r = p
  BY <1>1, <1>2
<1>5. \A r \in net' : r.id \in MadeIds' \cap FrontIds'
  BY <1>1
<1>6. \A r \in net' : r.id \in TouchedIds
  BY DEF TouchedIds
<1> QED BY <1>3, <1>4, <1>5, <1>6 DEF Requests

\* A read that a change overlapped is done again.
LEMMA ReadAgainKeeps ==
    ASSUME QueueInv, NEW t \in Tabs, ReadEntries(t), ~Head(tabs[t].chain).clean
    PROVE  QueueInv'
<1> DEFINE s0 == tabs[t]
           c  == Head(s0.chain)
           n  == ReadFor(c.kind)
           r  == [s0 EXCEPT !.chain = Tail(s0.chain)]
           s  == Enqueue(r, n)
<1>1. /\ s0.chain # <<>> /\ c.kind \in Reads
      /\ tabs' = [tabs EXCEPT ![t] = s]
      /\ UNCHANGED <<room, processed, log, net, disk, saved, used, seen, dropped>>
  BY DEF ReadEntries, serverVars, deviceVars
<1>2. /\ s0 \in TabRecord /\ s0.chain \in Seq(StorageCall) /\ Len(s0.chain) \in Nat
      /\ TabOK(s0, MadeIds, OverIds, FrontIds) /\ s0.sent \subseteq TouchedIds
  BY TabOf
<1>3. /\ Follows(Tail(s0.chain), s0.chain, 1)
      /\ Tail(s0.chain) \in Seq(StorageCall)
      /\ Len(Tail(s0.chain)) = Len(s0.chain) - 1
      /\ c = s0.chain[1] /\ 1 <= Len(s0.chain) /\ 1 \in DOMAIN s0.chain
  BY <1>1, <1>2, TailFollows
<1>4. n \in StorageCall /\ n.kind = c.kind
  BY <1>1, ReadForIs
<1>5. /\ r \in TabRecord /\ r.chain = Tail(s0.chain)
      /\ r.up = s0.up /\ r.mem = s0.mem /\ r.sent = s0.sent /\ r.pc = s0.pc /\ r.cur = s0.cur
      /\ r.reply = s0.reply
  BY <1>2, <1>3 DEF TabRecord
<1> HIDE DEF c, n, r
<1>6. /\ s \in TabRecord /\ s.chain = Append(Tail(s0.chain), n)
      /\ s.up = s0.up /\ s.mem = s0.mem /\ s.sent = s0.sent /\ s.pc = s0.pc /\ s.cur = s0.cur
      /\ s.reply = s0.reply
  <2>1. SameButChain(s, r) /\ s.chain = Append(r.chain, n)
    BY <1>4, <1>5, EnqueueIs
  <2> HIDE DEF s
  <2> QED BY <1>5, <2>1 DEF SameButChain
<1> HIDE DEF s
<1>7. Shapes'
  <2>1. Shapes
    BY DEF QueueInv
  <2> QED BY <1>1, <1>6, <2>1, ShapesStay DEF Shapes
<1>8. /\ MadeIds' = MadeIds /\ dropped' \subseteq MadeIds' /\ dropped \subseteq dropped'
      /\ OverIds' = OverIds /\ FrontIds' = FrontIds
  BY <1>1, NothingMade DEF OverIds, FrontIds
<1>9. Requests' /\ \A q \in net' : q.id \in TouchedIds
  <2>1. Requests' /\ \A p \in net' : \E q \in net : p.id = q.id
    BY <1>1, <1>6, <1>8, RequestsStay
  <2> QED BY <2>1 DEF TouchedIds
<1>10. EntriesOK(s, MadeIds', OverIds', FrontIds') /\ s0.up
  BY <1>1, <1>2, <1>6, <1>8 DEF TabOK, EntriesOK
<1>11. CallOK(c, s0, MadeIds, OverIds)
  BY <1>2, <1>3 DEF TabOK
<1>12. CallOK(n, s, MadeIds', OverIds') /\ n.kind # "add"
  BY <1>1, <1>4, <1>6, <1>11 DEF CallOK, Reads
<1>13. NoPumpAfter(s0.chain, 1) \/ (s.pc = "read" /\ n.kind # "pump")
  <2>1. CASE c.kind = "pump"
    <3>1. \A k \in DOMAIN s0.chain : s0.chain[k].kind = "pump" => k = 1
      BY <1>2, <1>3, <2>1 DEF TabOK, OnePump
    <3>2. \A k \in DOMAIN s0.chain : k > 1 => k # 1
      OBVIOUS
    <3> QED BY <3>1, <3>2 DEF NoPumpAfter
  <2>2. CASE c.kind # "pump"
    BY <1>2, <1>4, <1>6, <2>2, PumpOnlyWhileReading
  <2> QED BY <2>1, <2>2
<1>14. s.sent \subseteq TouchedIds /\ MadeIds \subseteq MadeIds' /\ UNCHANGED <<processed, disk, log>>
  BY <1>1, <1>2, <1>6, <1>8
<1> HIDE DEF s0
<1> QED BY <1>1, <1>2, <1>3, <1>4, <1>6, <1>7, <1>8, <1>9, <1>10, <1>12, <1>13, <1>14,
           OneCallStep DEF s0

\* What a tab has when its read of the stored entries is done.
LEMMA ReadIs ==
    ASSUME QueueInv, NEW t \in Tabs, tabs[t].chain # <<>>
    PROVE  LET q == tabs[t].chain
               l == Loaded([tabs[t] EXCEPT !.chain = Tail(@)])
           IN  /\ l \in TabRecord
               /\ l.up = tabs[t].up /\ l.pc = tabs[t].pc /\ l.cur = tabs[t].cur
               /\ l.reply = tabs[t].reply /\ l.paused = tabs[t].paused
               /\ l.chain = Tail(q) /\ l.mem = disk
               /\ tabs[t].sent \subseteq l.sent /\ l.sent \subseteq MadeIds \cap TouchedIds
               /\ Follows(Tail(q), q, 1) /\ Tail(q) \in Seq(StorageCall)
               /\ Len(Tail(q)) = Len(q) - 1 /\ 1 <= Len(q)
               /\ Head(q) = q[1] /\ 1 \in DOMAIN q
               /\ CallOK(Head(q), tabs[t], MadeIds, OverIds)
<1> DEFINE s0 == tabs[t]
           q == s0.chain
           r == [s0 EXCEPT !.chain = Tail(q)]
           l == Loaded(r)
<1>1. /\ s0 \in TabRecord /\ q \in Seq(StorageCall) /\ Len(q) \in Nat
      /\ TabOK(s0, MadeIds, OverIds, FrontIds) /\ s0.sent \subseteq TouchedIds
  BY TabOf
<1>2. /\ Follows(Tail(q), q, 1) /\ Tail(q) \in Seq(StorageCall)
      /\ Len(Tail(q)) = Len(q) - 1 /\ 1 <= Len(q)
      /\ Head(q) = q[1] /\ 1 \in DOMAIN q
  BY <1>1, TailFollows
<1>3. CallOK(Head(q), s0, MadeIds, OverIds)
  BY <1>1, <1>2 DEF TabOK
<1>4. /\ r \in TabRecord /\ r.chain = Tail(q) /\ r.sent = s0.sent
      /\ r.up = s0.up /\ r.pc = s0.pc /\ r.cur = s0.cur /\ r.reply = s0.reply
      /\ r.paused = s0.paused
  BY <1>1, <1>2 DEF TabRecord
<1>5. disk \in Seq(Stored) /\ Ids(disk) \subseteq MadeIds \cap TouchedIds
  BY DEF QueueInv, Shapes, TouchedIds
<1> HIDE DEF r
<1>6. /\ l \in TabRecord
      /\ l.up = r.up /\ l.pc = r.pc /\ l.cur = r.cur /\ l.reply = r.reply
      /\ l.paused = r.paused /\ l.chain = r.chain /\ l.mem = disk
      /\ l.sent = r.sent \cup {e.id : e \in {f \in ToSet(disk) : f.sent}}
  BY <1>4, <1>5, LoadedIs
<1> HIDE DEF l
<1>7. {e.id : e \in {f \in ToSet(disk) : f.sent}} \subseteq Ids(disk)
  BY DEF Ids
<1>8. s0.sent \subseteq MadeIds
  BY <1>1 DEF TabOK, EntriesOK
<1>9. s0.sent \subseteq l.sent /\ l.sent \subseteq MadeIds \cap TouchedIds
  BY <1>1, <1>4, <1>5, <1>6, <1>7, <1>8
<1> HIDE DEF s0
<1> QED BY <1>2, <1>3, <1>4, <1>6, <1>9 DEF l, r, s0

\* The stored entries, shown: on opening the page and after a validation.
LEMMA ReadToShowKeeps ==
    ASSUME QueueInv, NEW t \in Tabs, ReadEntries(t), Head(tabs[t].chain).clean,
           Head(tabs[t].chain).kind # "pump"
    PROVE  QueueInv'
<1> DEFINE s0 == tabs[t]
           c  == Head(s0.chain)
           l  == Loaded([s0 EXCEPT !.chain = Tail(@)])
           w  == ShowAll(l, disk)
           a  == [w EXCEPT !.copy = saved]
           b  == [w EXCEPT !.paused = FALSE]
<1>1. /\ s0.chain # <<>>
      /\ tabs' = [tabs EXCEPT ![t] = a] \/ tabs' = [tabs EXCEPT ![t] = Pump(b)]
      /\ UNCHANGED <<room, processed, log, net, disk, saved, used, seen, dropped>>
  BY DEF ReadEntries, AfterRead, Reads, serverVars, deviceVars
<1>2. /\ s0 \in TabRecord /\ s0.chain \in Seq(StorageCall) /\ Len(s0.chain) \in Nat
      /\ TabOK(s0, MadeIds, OverIds, FrontIds) /\ s0.sent \subseteq TouchedIds
  BY TabOf
<1>3. /\ l \in TabRecord
      /\ l.up = s0.up /\ l.pc = s0.pc /\ l.cur = s0.cur
      /\ l.reply = s0.reply
      /\ l.chain = Tail(s0.chain) /\ l.mem = disk
      /\ s0.sent \subseteq l.sent /\ l.sent \subseteq MadeIds \cap TouchedIds
      /\ Follows(Tail(s0.chain), s0.chain, 1) /\ Tail(s0.chain) \in Seq(StorageCall)
      /\ Len(Tail(s0.chain)) = Len(s0.chain) - 1 /\ 1 <= Len(s0.chain)
      /\ c = s0.chain[1] /\ 1 \in DOMAIN s0.chain
  BY <1>1, ReadIs
<1> HIDE DEF l
<1>4. disk \in Seq(Stored) /\ saved \in Copy /\ Ids(disk) \subseteq MadeIds
  BY DEF QueueInv, Shapes
<1>5. SameQueue(w, l)
  BY <1>3, <1>4, ShowAllIs
<1> HIDE DEF w
<1>6. SameQueue(a, l)
  BY <1>4, <1>5 DEF SameQueue, TabRecord
<1>7. /\ b \in TabRecord
      /\ b.up = l.up /\ b.mem = l.mem /\ b.sent = l.sent /\ b.chain = l.chain
      /\ b.pc = l.pc /\ b.cur = l.cur /\ b.reply = l.reply
  BY <1>5 DEF SameQueue, TabRecord
<1> HIDE DEF a, b
<1>8. /\ Pump(b) \in TabRecord
      /\ Pump(b).up = b.up /\ Pump(b).mem = b.mem /\ Pump(b).sent = b.sent
      /\ Pump(b).cur = b.cur /\ Pump(b).reply = b.reply /\ Pump(b).chain = b.chain
      /\ Pump(b).pc = IF b.pc = "idle" THEN "lock" ELSE b.pc
  BY <1>7, PumpIs
<1>9. PICK s \in TabRecord :
         /\ tabs' = [tabs EXCEPT ![t] = s]
         /\ s.up = s0.up /\ s.mem = disk /\ s.sent = l.sent
         /\ s.cur = s0.cur /\ s.reply = s0.reply /\ s.chain = Tail(s0.chain)
         /\ s.pc = s0.pc \/ (s0.pc = "idle" /\ s.pc = "lock")
  <2>1. CASE tabs' = [tabs EXCEPT ![t] = a]
    BY <1>3, <1>6, <2>1 DEF SameQueue
  <2>2. CASE tabs' = [tabs EXCEPT ![t] = Pump(b)]
    BY <1>3, <1>7, <1>8, <2>2
  <2> QED BY <1>1, <2>1, <2>2
<1>10. Shapes'
  <2>1. Shapes
    BY DEF QueueInv
  <2> QED BY <1>1, <1>9, <2>1, ShapesStay DEF Shapes
<1>11. /\ MadeIds' = MadeIds /\ dropped' \subseteq MadeIds' /\ dropped \subseteq dropped'
       /\ OverIds' = OverIds /\ FrontIds' = FrontIds
  BY <1>1, NothingMade DEF OverIds, FrontIds
<1>12. Requests' /\ \A r \in net' : r.id \in TouchedIds
  <2>1. s0.pc = "call" /\ s0.reply = None => s.pc = "call" /\ s.reply = None /\ s.cur = s0.cur
    BY <1>9
  <2>2. Requests' /\ \A r \in net' : \E q \in net : r.id = q.id
    BY <1>1, <1>9, <1>11, <2>1, RequestsStay
  <2> QED BY <2>2 DEF TouchedIds
<1>13. EntriesOK(s, MadeIds', OverIds', FrontIds')
  <2>1. s0.up
    BY <1>1, <1>2 DEF TabOK, EntriesOK
  <2> QED BY <1>2, <1>3, <1>4, <1>9, <1>11, <2>1 DEF TabOK, EntriesOK
<1>14. NoPumpAfter(s0.chain, 1) \/ s.pc = "read"
  BY <1>2, <1>9, PumpOnlyWhileReading
<1>15. Len(s.chain) = Len(s0.chain) - 1 /\ Follows(s.chain, s0.chain, 1) /\ s.sent \subseteq TouchedIds
  BY <1>3, <1>9
<1>16. MadeIds \subseteq MadeIds' /\ UNCHANGED <<processed, disk, log>>
  BY <1>1, <1>11
<1> HIDE DEF s0
<1> QED BY <1>3, <1>9, <1>10, <1>11, <1>12, <1>13, <1>14, <1>15, <1>16, NoCallStep DEF s0

\* The stored entries, read by the send loop: what it does with the oldest.
LEMMA ReadToSendKeeps ==
    ASSUME QueueInv, NEW t \in Tabs, ReadEntries(t), Head(tabs[t].chain).clean,
           Head(tabs[t].chain).kind = "pump"
    PROVE  QueueInv'
<1> DEFINE s0 == tabs[t]
           c  == Head(s0.chain)
           l  == Loaded([s0 EXCEPT !.chain = Tail(@)])
           n  == SendFirst(l, t)
<1>1. /\ s0.chain # <<>>
      /\ tabs' = [tabs EXCEPT ![t] = n.tab] /\ net' = net \cup n.out
      /\ UNCHANGED <<room, processed, log, disk, saved, used, seen, dropped>>
  BY DEF ReadEntries, AfterRead, Reads, serverVars, deviceVars
<1>2. /\ s0 \in TabRecord /\ s0.chain \in Seq(StorageCall) /\ Len(s0.chain) \in Nat
      /\ TabOK(s0, MadeIds, OverIds, FrontIds) /\ s0.sent \subseteq TouchedIds
  BY TabOf
<1>3. /\ l \in TabRecord
      /\ l.up = s0.up /\ l.pc = s0.pc /\ l.cur = s0.cur
      /\ l.reply = s0.reply
      /\ l.chain = Tail(s0.chain) /\ l.mem = disk
      /\ s0.sent \subseteq l.sent /\ l.sent \subseteq MadeIds \cap TouchedIds
      /\ Follows(Tail(s0.chain), s0.chain, 1) /\ Tail(s0.chain) \in Seq(StorageCall)
      /\ Len(Tail(s0.chain)) = Len(s0.chain) - 1 /\ 1 <= Len(s0.chain)
      /\ c = s0.chain[1] /\ 1 \in DOMAIN s0.chain
      /\ CallOK(c, s0, MadeIds, OverIds)
  BY <1>1, ReadIs
<1>4. /\ s0.pc = "read" /\ s0.cur = None /\ s0.reply = None /\ s0.up
      /\ NoPumpAfter(s0.chain, 1)
  <2>1. s0.pc = "read"
    BY <1>3 DEF CallOK
  <2>2. s0.cur = None /\ s0.reply = None /\ s0.up
    BY <1>1, <1>2, <2>1 DEF TabOK, EntriesOK
  <2>3. \A k \in DOMAIN s0.chain : s0.chain[k].kind = "pump" => k = 1
    BY <1>2, <1>3 DEF TabOK, OnePump
  <2>4. \A k \in DOMAIN s0.chain : k > 1 => k # 1
    OBVIOUS
  <2> QED BY <2>1, <2>2, <2>3, <2>4 DEF NoPumpAfter
<1>5. disk \in Seq(Stored) /\ Ids(disk) \subseteq MadeIds /\ Shapes
  BY DEF QueueInv, Shapes
<1>6. /\ MadeIds' = MadeIds /\ dropped' \subseteq MadeIds' /\ dropped \subseteq dropped'
      /\ OverIds' = OverIds /\ FrontIds' = FrontIds /\ MadeIds \subseteq MadeIds'
      /\ UNCHANGED <<processed, disk, log>>
  BY <1>1, NothingMade DEF OverIds, FrontIds
<1> HIDE DEF l
<1>7. CASE disk = <<>>
  <2> DEFINE s == [l EXCEPT !.pc = "idle"]
  <2>1. tabs' = [tabs EXCEPT ![t] = s] /\ net' = net
    <3>1. n = [tab |-> s, out |-> {}]
      BY <1>3, <1>7 DEF SendFirst
    <3> HIDE DEF n, s
    <3> QED BY <1>1, <3>1
  <2>2. /\ s \in TabRecord /\ s.up = s0.up /\ s.mem = disk /\ s.sent = l.sent
        /\ s.chain = Tail(s0.chain) /\ s.pc = "idle" /\ s.cur = None /\ s.reply = None
    BY <1>3, <1>4 DEF TabRecord
  <2> HIDE DEF s
  <2>3. Shapes'
    BY <1>1, <1>5, <2>1, <2>2, ShapesStay DEF Shapes
  <2>4. Requests' /\ \A r \in net' : r.id \in TouchedIds
    <3>1. ~(s0.pc = "call")
      BY <1>4
    <3>2. Requests' /\ \A r \in net' : \E q \in net : r.id = q.id
      BY <1>6, <2>1, <2>2, <3>1, RequestsStay
    <3> QED BY <3>2 DEF TouchedIds
  <2>5. EntriesOK(s, MadeIds', OverIds', FrontIds')
    BY <1>3, <1>4, <1>5, <1>6, <2>2 DEF EntriesOK
  <2>6. Len(s.chain) = Len(s0.chain) - 1 /\ Follows(s.chain, s0.chain, 1) /\ s.sent \subseteq TouchedIds
    BY <1>3, <2>2
  <2> HIDE DEF s0
  <2> QED BY <1>3, <1>4, <1>6, <2>1, <2>2, <2>3, <2>4, <2>5, <2>6, NoCallStep DEF s0
<1>8. CASE disk # <<>>
  <2> DEFINE e   == Head(disk)
             out == [l EXCEPT !.cur = e, !.sending = e.id, !.current = TRUE]
  <2>1. /\ e = disk[1] /\ e \in Stored /\ e.id \in OpIds /\ e.op \in UserOps
        /\ e.id \in MadeIds \cap FrontIds \cap TouchedIds /\ e # None
    <3>1. 1 \in DOMAIN disk /\ e = disk[1]
      BY <1>5, <1>8
    <3>2. e \in ToSet(disk) /\ e \in Stored
      BY <1>5, <3>1, ElementsOf
    <3>3. e.id \in Ids(disk) /\ e.id \in FrontIds
      BY <3>1, <3>2 DEF Ids, FrontIds
    <3> HIDE DEF e
    <3> QED BY <1>5, <3>1, <3>2, <3>3, NoneIsNoRecord DEF Stored, TouchedIds
  <2> HIDE DEF e
  <2>2. /\ out \in TabRecord /\ out.up = s0.up /\ out.mem = disk /\ out.sent = l.sent
        /\ out.chain = Tail(s0.chain) /\ out.pc = "read" /\ out.cur = e /\ out.reply = None
    BY <1>3, <1>4, <2>1 DEF TabRecord
  <2>3. n = IF e.id \in l.sent
            THEN [tab |-> [out EXCEPT !.pc = "call"], out |-> {Request(out, t)}]
            ELSE [tab |-> Enqueue([out EXCEPT !.pc = "mark", !.sent = @ \cup {e.id}],
                                  Call("setSent", e.id, None)),
                  out |-> {}]
    BY <1>3, <1>8 DEF SendFirst, e
  <2> HIDE DEF out, n
  <2>4. CASE e.id \in l.sent
    <3> DEFINE s == [out EXCEPT !.pc = "call"]
               q == Request(out, t)
    <3>1. tabs' = [tabs EXCEPT ![t] = s] /\ net' = net \cup {q}
      BY <1>1, <2>3, <2>4
    <3>2. /\ s \in TabRecord /\ s.up = s0.up /\ s.mem = disk /\ s.sent = l.sent
          /\ s.chain = Tail(s0.chain) /\ s.pc = "call" /\ s.cur = e /\ s.reply = None
      <4>1. out \in TabRecord
        BY <2>2
      <4>2. /\ s \in TabRecord /\ s.pc = "call"
            /\ s.up = out.up /\ s.mem = out.mem /\ s.sent = out.sent /\ s.chain = out.chain
            /\ s.cur = out.cur /\ s.reply = out.reply
        BY <4>1 DEF TabRecord
      <4> HIDE DEF s
      <4> QED BY <2>2, <4>2
    <3>3. q.id = e.id /\ q.tab = t /\ q \in [id : OpIds, op : UserOps, tab : Tabs \cup {None}]
      BY <2>1, <2>2 DEF Request
    <3> HIDE DEF s, q
    <3>4. Shapes'
      <4>1. net' \subseteq [id : OpIds, op : UserOps, tab : Tabs \cup {None}]
        BY <1>5, <3>1, <3>3 DEF Shapes
      <4> QED BY <1>1, <1>5, <3>1, <3>2, <4>1, ShapesStay DEF Shapes
    <3>5. Requests' /\ \A r \in net' : r.id \in TouchedIds
      <4>1. FrontIds \subseteq FrontIds' /\ tabs[t].pc # "call" /\ s.cur.id = q.id
        BY <1>4, <1>6, <3>2, <3>3
      <4> QED BY <1>6, <2>1, <3>1, <3>2, <3>3, <4>1, RequestSent
    <3>6. EntriesOK(s, MadeIds', OverIds', FrontIds')
      BY <1>3, <1>4, <1>5, <1>6, <2>1, <3>2 DEF EntriesOK
    <3>7. Len(s.chain) = Len(s0.chain) - 1 /\ Follows(s.chain, s0.chain, 1) /\ s.sent \subseteq TouchedIds
      BY <1>3, <3>2
    <3> HIDE DEF s0
    <3> QED BY <1>3, <1>4, <1>6, <3>1, <3>2, <3>4, <3>5, <3>6, <3>7, NoCallStep DEF s0
  <2>5. CASE e.id \notin l.sent
    <3> DEFINE m == [out EXCEPT !.pc = "mark", !.sent = @ \cup {e.id}]
               k == Call("setSent", e.id, None)
               s == Enqueue(m, k)
    <3>1. tabs' = [tabs EXCEPT ![t] = s] /\ net' = net
      BY <1>1, <2>3, <2>5
    <3>2. /\ m \in TabRecord /\ m.up = s0.up /\ m.mem = disk /\ m.sent = l.sent \cup {e.id}
          /\ m.chain = Tail(s0.chain) /\ m.pc = "mark" /\ m.cur = e /\ m.reply = None
      <4>1. out.sent \cup {e.id} \in SUBSET OpIds
        BY <2>1, <2>2 DEF TabRecord
      <4> DEFINE u == out.sent \cup {e.id}
      <4>2. m = [out EXCEPT !.pc = "mark", !.sent = u]
        OBVIOUS
      <4>3. u \in SUBSET OpIds /\ u = l.sent \cup {e.id}
        BY <2>2, <4>1
      <4> HIDE DEF m, u
      <4> DEFINE o == [out EXCEPT !.sent = u]
      <4>4. out \in TabRecord
        BY <2>2
      <4>5. /\ o \in TabRecord /\ o.sent = u
            /\ o.up = out.up /\ o.mem = out.mem /\ o.chain = out.chain /\ o.cur = out.cur
            /\ o.reply = out.reply
        BY <4>3, <4>4 DEF TabRecord
      <4>6. m = [o EXCEPT !.pc = "mark"]
        BY <4>2, <4>4 DEF TabRecord
      <4> HIDE DEF o
      <4>7. /\ m \in TabRecord /\ m.sent = u /\ m.pc = "mark"
            /\ m.up = out.up /\ m.mem = out.mem /\ m.chain = out.chain /\ m.cur = out.cur
            /\ m.reply = out.reply
        BY <4>5, <4>6 DEF TabRecord
      <4> QED BY <2>2, <4>3, <4>7
    <3>3. k \in StorageCall /\ k.kind = "setSent"
      BY <2>1, CallIs
    <3> HIDE DEF m, k
    <3>4. SameButChain(s, m) /\ s.chain = Append(Tail(s0.chain), k)
      BY <3>2, <3>3, EnqueueIs
    <3> HIDE DEF s
    <3>5. /\ s \in TabRecord /\ s.up = s0.up /\ s.mem = disk /\ s.sent = l.sent \cup {e.id}
          /\ s.pc = "mark" /\ s.cur = e /\ s.reply = None
      BY <3>2, <3>4 DEF SameButChain
    <3>6. Shapes'
      BY <1>1, <1>5, <3>1, <3>5, ShapesStay DEF Shapes
    <3>7. Requests' /\ \A r \in net' : r.id \in TouchedIds
      <4>1. ~(s0.pc = "call")
        BY <1>4
      <4>2. Requests' /\ \A r \in net' : \E q \in net : r.id = q.id
        BY <1>6, <3>1, <3>5, <4>1, RequestsStay
      <4> QED BY <4>2 DEF TouchedIds
    <3>8. EntriesOK(s, MadeIds', OverIds', FrontIds')
      BY <1>3, <1>4, <1>5, <1>6, <2>1, <3>5 DEF EntriesOK
    <3>9. CallOK(k, s, MadeIds', OverIds') /\ k.kind # "add"
      BY <3>3 DEF CallOK
    <3>10. s.sent \subseteq TouchedIds
      BY <1>3, <2>1, <3>5
    <3> HIDE DEF s0
    <3> QED BY <1>3, <1>4, <1>6, <3>1, <3>3, <3>4, <3>5, <3>6, <3>7, <3>8, <3>9, <3>10,
               OneCallStep DEF s0
  <2> QED BY <2>4, <2>5
<1> QED BY <1>7, <1>8

-----------------------------------------------------------------------------
(* Writes of the stored entries.                                           *)

LEMMA AddedIs ==
    ASSUME NEW q \in Seq(Stored), Differ(q), NEW e \in Stored, e.id \notin Ids(q)
    PROVE  LET p == Append(q, e)
           IN  /\ p \in Seq(Stored) /\ Differ(p) /\ Oldest(q) \subseteq Oldest(p)
               /\ Ids(p) = Ids(q) \cup {e.id}
<1>1. \A k \in DOMAIN q : q[k].id # e.id
  BY DEF Ids, ToSet
<1>2. Differ(Append(q, e)) /\ Oldest(q) \subseteq Oldest(Append(q, e))
  BY <1>1, AppendDiffers
<1>3. Append(q, e) \in Seq(Stored) /\ ToSet(Append(q, e)) = ToSet(q) \cup {e}
  BY AppendProperties, AppendElements
<1>4. Ids(Append(q, e)) = Ids(q) \cup {e.id}
  BY <1>3 DEF Ids
<1> QED BY <1>2, <1>3, <1>4

LEMMA RemovedIs ==
    ASSUME NEW q \in Seq(Stored), Differ(q), NEW id
    PROVE  LET p == Without(q, id)
           IN  /\ p \in Seq(Stored) /\ Differ(p) /\ Oldest(q) \subseteq Oldest(p) \cup {id}
               /\ Ids(p) = Ids(q) \ {id}
<1> DEFINE places == {k \in DOMAIN q : q[k].id # id}
<1>1. places \in SUBSET DOMAIN q /\ (1 \in DOMAIN q /\ q[1].id # id => 1 \in places)
  OBVIOUS
<1>2. Without(q, id) = Picked(q, places)
  BY DEF Without
<1> HIDE DEF places
<1>3. /\ Differ(Without(q, id))
      /\ 1 \in places => Oldest(q) \subseteq Oldest(Without(q, id))
  BY <1>1, <1>2, PickedDiffers
<1>4. Oldest(q) \subseteq Oldest(Without(q, id)) \cup {id}
  BY <1>1, <1>3 DEF Oldest
<1> QED BY <1>3, <1>4, WithoutIs

LEMMA RewrittenIs ==
    ASSUME NEW q \in Seq(Stored), Differ(q), NEW p, p = [k \in DOMAIN q |-> p[k]],
           \A k \in DOMAIN q : p[k] \in Stored /\ p[k].id = q[k].id
    PROVE  /\ p \in Seq(Stored) /\ Differ(p) /\ Oldest(q) \subseteq Oldest(p)
           /\ Ids(p) = Ids(q)
<1>1. p \in Seq(Stored) /\ DOMAIN p = DOMAIN q
  BY EachIsTyped
<1>2. Ids(p) = Ids(q)
  BY <1>1 DEF Ids, ToSet
<1> QED BY <1>1, <1>2 DEF Differ, Oldest

\* What a waiting write leaves in the storage.
Written(q, c) ==
    CASE c.kind = "add"     -> Append(q, Entry(c.id, c.op))
      [] c.kind = "remove"  -> Without(q, c.id)
      [] c.kind = "setOp"   -> WithOp(q, c.id, c.op)
      [] c.kind = "setSent" -> WithSent(q, c.id)

LEMMA WrittenIs ==
    ASSUME NEW q \in Seq(Stored), Differ(q), NEW c \in StorageCall, c.kind \notin Reads,
           c.kind = "add" => c.id \notin Ids(q)
    PROVE  LET p == Written(q, c)
           IN  /\ p \in Seq(Stored) /\ Differ(p)
               /\ Oldest(q) \subseteq Oldest(p) \cup (IF c.kind = "remove" THEN {c.id} ELSE {})
               /\ Ids(p) = IF c.kind = "add" THEN Ids(q) \cup {c.id}
                           ELSE IF c.kind = "remove" THEN Ids(q) \ {c.id} ELSE Ids(q)
               /\ c.kind \in {"add", "remove", "setOp", "setSent"}
<1>1. /\ c.kind \in {"add", "remove", "setOp", "setSent"} /\ c.id \in OpIds
      /\ c.kind \in {"add", "setOp"} => c.op \in UserOps
  BY DEF StorageCall, Reads
<1>2. \A k \in DOMAIN q : q[k] \in Stored
  BY ElementsOf
<1>3. CASE c.kind = "add"
  <2> DEFINE e == Entry(c.id, c.op)
  <2>1. e \in Stored /\ e.id = c.id
    BY <1>1, <1>3 DEF Entry, Stored
  <2>2. Written(q, c) = Append(q, e)
    BY <1>3 DEF Written
  <2> HIDE DEF e
  <2> QED BY <1>3, <2>1, <2>2, AddedIs
<1>4. CASE c.kind = "remove"
  <2>1. Written(q, c) = Without(q, c.id)
    BY <1>4 DEF Written
  <2> QED BY <1>4, <2>1, RemovedIs
<1>5. CASE c.kind = "setOp"
  <2> DEFINE p == WithOp(q, c.id, c.op)
  <2>1. Written(q, c) = p
    BY <1>5 DEF Written
  <2>2. \A k \in DOMAIN q : p[k] \in Stored /\ p[k].id = q[k].id
    BY <1>1, <1>2, <1>5 DEF WithOp, Stored
  <2>3. p = [k \in DOMAIN q |-> p[k]]
    BY DEF WithOp
  <2> HIDE DEF p
  <2>4. p \in Seq(Stored) /\ Differ(p) /\ Oldest(q) \subseteq Oldest(p) /\ Ids(p) = Ids(q)
    BY <2>2, <2>3, RewrittenIs
  <2> QED BY <1>5, <2>1, <2>4
<1>6. CASE c.kind = "setSent"
  <2> DEFINE p == WithSent(q, c.id)
  <2>1. Written(q, c) = p
    BY <1>6 DEF Written
  <2>2. \A k \in DOMAIN q : p[k] \in Stored /\ p[k].id = q[k].id
    BY <1>2 DEF WithSent, Stored
  <2>3. p = [k \in DOMAIN q |-> p[k]]
    BY DEF WithSent
  <2> HIDE DEF p
  <2>4. p \in Seq(Stored) /\ Differ(p) /\ Oldest(q) \subseteq Oldest(p) /\ Ids(p) = Ids(q)
    BY <2>2, <2>3, RewrittenIs
  <2> QED BY <1>6, <2>1, <2>4
<1> QED BY <1>1, <1>3, <1>4, <1>5, <1>6

LEMMA WriteKeeps ==
    ASSUME QueueInv, NEW t \in Tabs, WriteEntries(t)
    PROVE  QueueInv'
<1> DEFINE s0 == tabs[t]
           c  == Head(s0.chain)
           r  == [s0 EXCEPT !.chain = Tail(@)]
           m  == [r EXCEPT !.pc = "call"]
           q  == Request(s0, t)
<1>1. /\ s0.chain # <<>> /\ c.kind \notin Reads /\ disk' = Written(disk, c)
      /\ \/ /\ tabs' = [tabs EXCEPT ![t] = r] /\ net' = net
         \/ /\ Marked(s0, c)
            /\ tabs' = [tabs EXCEPT ![t] = m] /\ net' = net \cup {q}
      /\ UNCHANGED <<room, processed, log, saved, used, seen, dropped>>
  BY DEF WriteEntries, Written, serverVars
<1>2. /\ s0 \in TabRecord /\ s0.chain \in Seq(StorageCall) /\ Len(s0.chain) \in Nat
      /\ TabOK(s0, MadeIds, OverIds, FrontIds) /\ s0.sent \subseteq TouchedIds
  BY TabOf
<1>3. /\ Follows(Tail(s0.chain), s0.chain, 1) /\ Tail(s0.chain) \in Seq(StorageCall)
      /\ Len(Tail(s0.chain)) = Len(s0.chain) - 1 /\ 1 <= Len(s0.chain)
      /\ c = s0.chain[1] /\ 1 \in DOMAIN s0.chain /\ c \in StorageCall
  BY <1>1, <1>2, TailFollows
<1>4. /\ CallOK(c, s0, MadeIds, OverIds)
      /\ c.kind = "add" => c.id \notin Ids(disk)
      /\ c.kind # "pump" /\ s0.up
  <2>1. CallOK(c, s0, MadeIds, OverIds)
    BY <1>2, <1>3 DEF TabOK
  <2>2. c.kind = "add" => c.id \notin TouchedIds
    BY <1>3 DEF QueueInv, AddsAreNew
  <2>3. s0.up
    BY <1>1, <1>2 DEF TabOK, EntriesOK
  <2> QED BY <1>1, <2>1, <2>2, <2>3 DEF TouchedIds, Reads
<1>5. Shapes /\ disk \in Seq(Stored) /\ Differ(disk) /\ Ids(disk) \subseteq MadeIds
  BY DEF QueueInv, Shapes, EntriesDiffer, Differ
<1>6. /\ disk' \in Seq(Stored) /\ Differ(disk')
      /\ Oldest(disk) \subseteq Oldest(disk') \cup (IF c.kind = "remove" THEN {c.id} ELSE {})
      /\ Ids(disk') \subseteq Ids(disk) \cup (IF c.kind = "add" THEN {c.id} ELSE {})
  <2> HIDE DEF c
  <2> QED BY <1>1, <1>3, <1>4, <1>5, WrittenIs
<1>7. /\ MadeIds' = MadeIds /\ OverIds' = OverIds /\ FrontIds \subseteq FrontIds'
      /\ Ids(disk') \subseteq MadeIds
  <2>1. MadeIds' = MadeIds /\ OverIds' = OverIds
    BY <1>1 DEF MadeIds, OverIds
  <2>2. FrontIds = OverIds \cup Oldest(disk) /\ FrontIds' = OverIds' \cup Oldest(disk')
    BY DEF FrontIds, Oldest
  <2>3. c.kind = "remove" => c.id \in OverIds
    BY <1>4 DEF CallOK
  <2>4. c.kind = "add" => c.id \in MadeIds
    BY <1>4 DEF CallOK
  <2> HIDE DEF c
  <2>5. FrontIds \subseteq FrontIds'
    BY <1>6, <2>1, <2>2, <2>3
  <2>6. Ids(disk') \subseteq MadeIds
    BY <1>5, <1>6, <2>4
  <2> QED BY <2>1, <2>5, <2>6
<1>8. /\ r \in TabRecord /\ r.chain = Tail(s0.chain)
      /\ r.up = s0.up /\ r.mem = s0.mem /\ r.sent = s0.sent /\ r.pc = s0.pc /\ r.cur = s0.cur
      /\ r.reply = s0.reply
  BY <1>2, <1>3 DEF TabRecord
<1> HIDE DEF r
<1>9. /\ m \in TabRecord /\ m.chain = Tail(s0.chain)
      /\ m.up = s0.up /\ m.mem = s0.mem /\ m.sent = s0.sent /\ m.pc = "call" /\ m.cur = s0.cur
      /\ m.reply = s0.reply
  BY <1>8 DEF TabRecord
<1> HIDE DEF m, c
<1>10. Marked(s0, c) =>
          /\ s0.pc = "mark" /\ s0.cur \in Stored /\ s0.reply = None
          /\ q \in [id : OpIds, op : UserOps, tab : Tabs \cup {None}]
          /\ q.tab = t /\ q.id = s0.cur.id
          /\ q.id \in MadeIds \cap FrontIds \cap TouchedIds
  <2> SUFFICES ASSUME Marked(s0, c)
               PROVE  /\ s0.pc = "mark" /\ s0.cur \in Stored /\ s0.reply = None
                      /\ q \in [id : OpIds, op : UserOps, tab : Tabs \cup {None}]
                      /\ q.tab = t /\ q.id = s0.cur.id
                      /\ q.id \in MadeIds \cap FrontIds \cap TouchedIds
    OBVIOUS
  <2>1. /\ s0.pc = "mark" /\ s0.cur # None /\ s0.reply = None
        /\ s0.cur.id \in s0.sent \cap FrontIds /\ s0.sent \subseteq MadeIds
    BY <1>2 DEF Marked, TabOK, EntriesOK
  <2>2. s0.cur \in Stored
    BY <1>2, <2>1 DEF TabRecord
  <2>3. /\ q \in [id : OpIds, op : UserOps, tab : Tabs \cup {None}]
        /\ q.tab = t /\ q.id = s0.cur.id
    BY <2>2 DEF Request, Stored
  <2> HIDE DEF q, s0
  <2> QED BY <1>2, <2>1, <2>2, <2>3
<1>11. PICK s \in TabRecord :
          /\ tabs' = [tabs EXCEPT ![t] = s]
          /\ s.up /\ s.mem = s0.mem /\ s.sent = s0.sent /\ s.chain = Tail(s0.chain)
          /\ s.cur = s0.cur /\ s.reply = s0.reply
          /\ \/ s.pc = s0.pc /\ net' = net
             \/ s0.pc = "mark" /\ s.pc = "call" /\ net' = net \cup {q} /\ Marked(s0, c)
  <2>1. CASE tabs' = [tabs EXCEPT ![t] = r] /\ net' = net
    BY <1>4, <1>8, <2>1
  <2>2. CASE Marked(s0, c) /\ tabs' = [tabs EXCEPT ![t] = m] /\ net' = net \cup {q}
    BY <1>4, <1>9, <1>10, <2>2
  <2> QED BY <1>1, <2>1, <2>2
<1> HIDE DEF q
<1>12. Shapes'
  <2>1. net' \subseteq [id : OpIds, op : UserOps, tab : Tabs \cup {None}]
    BY <1>5, <1>10, <1>11 DEF Shapes
  <2> QED BY <1>1, <1>5, <1>6, <1>11, <2>1, ShapesStay DEF Shapes
<1>13. Requests' /\ \A p \in net' : p.id \in TouchedIds
  <2>1. CASE s.pc = s0.pc /\ net' = net
    <3>1. s0.pc = "call" /\ s0.reply = None => s.pc = "call" /\ s.reply = None /\ s.cur = s0.cur
      BY <1>11, <2>1
    <3>2. Requests' /\ \A p \in net' : \E o \in net : p.id = o.id
      BY <1>7, <1>11, <2>1, <3>1, RequestsStay
    <3> QED BY <3>2 DEF TouchedIds
  <2>2. CASE s0.pc = "mark" /\ s.pc = "call" /\ net' = net \cup {q} /\ Marked(s0, c)
    <3>1. s.reply = None /\ s.cur.id = q.id /\ tabs[t].pc # "call" /\ MadeIds \subseteq MadeIds'
      BY <1>7, <1>10, <1>11, <2>2
    <3> QED BY <1>7, <1>10, <1>11, <2>2, <3>1, RequestSent
  <2> QED BY <1>11, <2>1, <2>2
<1>14. EntriesOK(s, MadeIds', OverIds', FrontIds')
  BY <1>2, <1>7, <1>10, <1>11 DEF TabOK, EntriesOK
<1>15. NoPumpAfter(s0.chain, 1) \/ s.pc = "read"
  BY <1>2, <1>11, PumpOnlyWhileReading
<1>16. \A k \in DOMAIN s.chain : ~(k > Len(s0.chain) - 1)
  BY <1>2, <1>3, <1>11
<1>17. Follows(s.chain, s0.chain, 1) /\ MadeIds \subseteq MadeIds' /\ OverIds \subseteq OverIds'
  BY <1>3, <1>7, <1>11
<1>18. NewCallsOK(s, s0.chain, 1, MadeIds', OverIds') /\ NewAdds(s.chain, s0.chain, 1, MadeIds)
  BY <1>16 DEF NewCallsOK, NewAdds
<1>19. /\ \A k \in DOMAIN s.chain : CallOK(s.chain[k], s, MadeIds', OverIds')
       /\ OnePump(s)
  <2>1. \/ NoPumpAfter(s0.chain, 1)
        \/ /\ s.pc = "read"
           /\ \A k \in DOMAIN s.chain : k > Len(s0.chain) - 1 => s.chain[k].kind # "pump"
    BY <1>15, <1>16
  <2> HIDE DEF s0
  <2> QED BY <1>2, <1>3, <1>17, <1>18, <2>1, CallsFollow
<1>20. TabOK(s, MadeIds', OverIds', FrontIds')
  BY <1>14, <1>19 DEF TabOK
<1>21. AddsDiffer' /\ AddsAreNew'
  <2>1. tabs'[t] = s /\ \A u \in Tabs \ {t} : tabs'[u] = tabs[u]
    BY <1>5, <1>11 DEF Shapes
  <2>2. \A u \in Tabs : tabs'[u].sent \subseteq TouchedIds
    BY <1>2, <1>11, <2>1 DEF TouchedIds
  <2>3. TouchedIds' \subseteq TouchedIds \cup (IF c.kind = "add" THEN {c.id} ELSE {})
    <3>1. ToSet(log)' \subseteq TouchedIds /\ Ids(disk) \subseteq TouchedIds
      BY <1>1 DEF TouchedIds
    <3>2. TouchedIds' = UNION {Ids(disk'), ToSet(log)', {o.id : o \in net'},
                               UNION {tabs'[u].sent : u \in Tabs}}
      BY DEF TouchedIds
    <3> QED BY <1>6, <1>13, <2>2, <3>1, <3>2
  <2>4. \A id \in TouchedIds' \ TouchedIds :
           1 = 1 /\ tabs[t].chain[1].kind = "add" /\ tabs[t].chain[1].id = id
    BY <1>3, <2>3
  <2>5. 1 <= Len(tabs[t].chain) /\ Follows(s.chain, tabs[t].chain, 1)
        /\ NewAdds(s.chain, tabs[t].chain, 1, MadeIds)
    BY <1>3, <1>17, <1>18
  <2> HIDE DEF s0
  <2> QED BY <1>11, <2>4, <2>5, AddsStay
<1>22. (Ids(disk) \cup OverIds \subseteq MadeIds)'
  <2>1. OverIds \subseteq MadeIds
    BY DEF QueueInv
  <2> QED BY <1>7, <2>1
<1>23. EntriesDiffer' /\ LogIsProcessed'
  BY <1>1, <1>6 DEF QueueInv, EntriesDiffer, Differ, LogIsProcessed
<1>24. MadeIds \subseteq MadeIds' /\ OverIds \subseteq OverIds'
  BY <1>7
<1> HIDE DEF s0
<1> QED BY <1>7, <1>11, <1>12, <1>13, <1>20, <1>21, <1>22, <1>23, <1>24, OneTabStep

-----------------------------------------------------------------------------
(* Answers, and their absence.                                             *)

\* The op under way.
LEMMA CurIs ==
    ASSUME QueueInv, NEW t \in Tabs, tabs[t].pc = "call"
    PROVE  /\ tabs[t].cur \in Stored /\ tabs[t].cur.id \in MadeIds /\ tabs[t].cur.id \in OpIds
           /\ tabs[t].up /\ Ids(tabs[t].mem) \subseteq MadeIds
           /\ tabs[t].reply # None => tabs[t].reply \in Answer
           /\ tabs[t].reply # None /\ tabs[t].reply.status # "error"
              => tabs[t].cur.id \in OverIds
<1>1. tabs[t] \in TabRecord /\ TabOK(tabs[t], MadeIds, OverIds, FrontIds)
  BY TabOf
<1>2. tabs[t].cur # None
  BY <1>1 DEF TabOK, EntriesOK
<1>3. tabs[t].cur \in Stored
  BY <1>1, <1>2 DEF TabRecord
<1>4. tabs[t].cur.id \in OpIds
  BY <1>3 DEF Stored
<1>5. tabs[t].reply # None => tabs[t].reply \in Answer
  BY <1>1 DEF TabRecord
<1> QED BY <1>1, <1>2, <1>3, <1>4, <1>5 DEF TabOK, EntriesOK

\* The ops whose answers are in keep out of the way of the requests.
LEMMA SettleKeeps ==
    ASSUME QueueInv, NEW t \in Tabs, Settle(t)
    PROVE  QueueInv'
<1> DEFINE s0     == tabs[t]
           id     == s0.cur.id
           answer == s0.reply
           gone   == RemoveEntry(s0, id)
           told   == IF ~s0.current THEN gone ELSE OpSettled(gone, id, answer)
           ids    == Rebased(gone, s0.cur.op, answer)
           g      == ApplyRewrites(told, ids, answer.cseq)
<1>1. /\ s0.pc = "call" /\ answer # None /\ answer.status # "error"
      /\ tabs' = [tabs EXCEPT ![t] = NextRound(g)]
      /\ UNCHANGED <<room, processed, log, net, disk, saved, used, seen, dropped>>
  BY DEF Settle, serverVars, deviceVars
<1>2. /\ s0 \in TabRecord /\ s0.chain \in Seq(StorageCall) /\ Len(s0.chain) \in Nat
      /\ TabOK(s0, MadeIds, OverIds, FrontIds) /\ s0.sent \subseteq TouchedIds
  BY TabOf
<1>3. /\ id \in MadeIds \cap OverIds /\ id \in OpIds /\ answer \in Answer /\ s0.up
      /\ Ids(s0.mem) \subseteq MadeIds
  BY <1>1, CurIs
<1>4. answer.cseq \in Nat
  BY <1>3 DEF Answer
<1>5. /\ gone \in TabRecord
      /\ gone.up = s0.up
      /\ gone.sent = s0.sent \ {id}
      /\ ToSet(gone.mem) = {e \in ToSet(s0.mem) : e.id # id}
      /\ Follows(gone.chain, s0.chain, 0)
      /\ Len(gone.chain) = Len(s0.chain) + 1
      /\ gone.chain[Len(s0.chain) + 1] = Call("remove", id, None)
  BY <1>2, <1>3, RemoveEntryIs
<1> HIDE DEF gone, id, answer, ids
<1>6. /\ told \in TabRecord
      /\ told.up = gone.up /\ told.sent = gone.sent /\ told.mem = gone.mem
      /\ told.chain = gone.chain
  BY <1>3, <1>5, OpSettledIs DEF SameQueue
<1> HIDE DEF told
<1>7. /\ g \in TabRecord /\ g.up = told.up /\ g.sent = told.sent
      /\ Ids(g.mem) = Ids(told.mem)
      /\ Follows(g.chain, told.chain, 0)
      /\ \A k \in DOMAIN g.chain : k > Len(told.chain) => g.chain[k].kind = "setOp"
  BY <1>4, <1>6, ApplyRewritesIs
<1> HIDE DEF g
<1>8. NextRound(g) \in TabRecord
  BY <1>7, NextRoundIs
<1>9. Shapes'
  <2>1. Shapes
    BY DEF QueueInv
  <2> QED BY <1>1, <1>8, <2>1, ShapesStay DEF Shapes
<1>10. /\ MadeIds' = MadeIds /\ dropped' \subseteq MadeIds /\ dropped \subseteq dropped'
       /\ OverIds' = OverIds /\ FrontIds' = FrontIds
  BY <1>1, NothingMade DEF OverIds, FrontIds
<1>11. Requests' /\ \A r \in net' : r.id \in TouchedIds
  <2>1. s0.reply # None
    BY <1>1 DEF answer
  <2>2. Requests' /\ \A r \in net' : \E q \in net : r.id = q.id
    BY <1>1, <1>8, <1>10, <2>1, RequestsStay
  <2> QED BY <2>2 DEF TouchedIds
<1>12. g.up /\ Ids(g.mem) \subseteq MadeIds /\ g.sent \subseteq s0.sent
  BY <1>3, <1>5, <1>6, <1>7 DEF Ids
<1>13. /\ gone.chain \in Seq(StorageCall) /\ g.chain \in Seq(StorageCall)
       /\ DOMAIN g.chain = 1..Len(g.chain) /\ Len(g.chain) \in Nat
  BY <1>5, <1>7 DEF TabRecord
<1>14. Follows(g.chain, s0.chain, 0)
  BY <1>2, <1>5, <1>6, <1>7, <1>13, FollowsAgain
<1>15. \A k \in DOMAIN g.chain : k > Len(s0.chain) =>
          \/ g.chain[k].kind = "remove" /\ g.chain[k].id \in OverIds'
          \/ g.chain[k].kind = "setOp"
  <2> SUFFICES ASSUME NEW k \in DOMAIN g.chain, k > Len(s0.chain), g.chain[k].kind # "setOp"
               PROVE  g.chain[k].kind = "remove" /\ g.chain[k].id \in OverIds'
    OBVIOUS
  <2>1. k = Len(s0.chain) + 1
    BY <1>2, <1>5, <1>6, <1>7, <1>13
  <2>2. k \in 1..(Len(gone.chain) - 0) /\ k + 0 = k
    BY <1>2, <1>5, <2>1
  <2>3. g.chain[k].kind = gone.chain[k].kind /\ g.chain[k].id = gone.chain[k].id
    BY <1>6, <1>7, <2>2 DEF Follows
  <2>4. gone.chain[k].kind = "remove" /\ gone.chain[k].id = id
    BY <1>5, <2>1, CallIs
  <2> QED BY <1>3, <1>10, <2>3, <2>4
<1>16. s0.pc # "read" /\ UNCHANGED <<processed, disk, log, seen>>
  BY <1>1
<1> HIDE DEF s0
<1> QED BY <1>1, <1>7, <1>9, <1>10, <1>11, <1>12, <1>14, <1>15, <1>16, RoundStep DEF s0

LEMMA FailKeeps ==
    ASSUME QueueInv, NEW t \in Tabs, Fail(t)
    PROVE  QueueInv'
<1> DEFINE s0   == tabs[t]
           id   == s0.cur.id
           gone == RemoveEntry(s0, id)
           d    == Drop(gone, id)
           told == [d EXCEPT !.sending = None]
           g    == IF s0.current THEN told ELSE gone
<1>1. /\ s0.pc = "call" /\ s0.reply # None
      /\ tabs' = [tabs EXCEPT ![t] = NextRound(g)]
      /\ dropped' = dropped \cup {id}
      /\ UNCHANGED <<room, processed, log, net, disk, saved, used, seen>>
  BY DEF Fail, serverVars, deviceVars
<1>2. /\ s0 \in TabRecord /\ s0.chain \in Seq(StorageCall) /\ Len(s0.chain) \in Nat
      /\ TabOK(s0, MadeIds, OverIds, FrontIds) /\ s0.sent \subseteq TouchedIds
  BY TabOf
<1>3. id \in MadeIds /\ id \in OpIds /\ s0.up /\ Ids(s0.mem) \subseteq MadeIds
  BY <1>1, CurIs
<1>4. /\ gone \in TabRecord
      /\ gone.up = s0.up
      /\ gone.sent = s0.sent \ {id}
      /\ ToSet(gone.mem) = {e \in ToSet(s0.mem) : e.id # id}
      /\ Follows(gone.chain, s0.chain, 0)
      /\ Len(gone.chain) = Len(s0.chain) + 1
      /\ gone.chain[Len(s0.chain) + 1] = Call("remove", id, None)
  BY <1>2, <1>3, RemoveEntryIs
<1> HIDE DEF gone, id
<1>5. SameQueue(d, gone)
  BY <1>4, DropIs
<1> HIDE DEF d
<1>6. /\ told \in TabRecord
      /\ told.up = gone.up /\ told.sent = gone.sent /\ told.mem = gone.mem
      /\ told.chain = gone.chain
  BY <1>5 DEF SameQueue, TabRecord
<1> HIDE DEF told
<1>7. /\ g \in TabRecord
      /\ g.up = gone.up /\ g.sent = gone.sent /\ g.mem = gone.mem
      /\ g.chain = gone.chain
  BY <1>4, <1>6
<1> HIDE DEF g
<1>8. NextRound(g) \in TabRecord
  BY <1>7, NextRoundIs
<1>9. Shapes'
  <2>1. Shapes /\ dropped' \subseteq OpIds
    BY <1>1, <1>3 DEF QueueInv, Shapes
  <2> QED BY <1>1, <1>8, <2>1, ShapesStay DEF Shapes
<1>10. /\ MadeIds' = MadeIds /\ dropped' \subseteq MadeIds /\ dropped \subseteq dropped'
       /\ FrontIds \subseteq FrontIds' /\ id \in OverIds'
  <2>1. dropped \subseteq MadeIds
    BY DEF QueueInv, OverIds
  <2> QED BY <1>1, <1>3, <2>1 DEF MadeIds, OverIds, FrontIds
<1>11. Requests' /\ \A r \in net' : r.id \in TouchedIds
  <2>1. Requests' /\ \A r \in net' : \E q \in net : r.id = q.id
    BY <1>1, <1>8, <1>10, RequestsStay
  <2> QED BY <2>1 DEF TouchedIds
<1>12. g.up /\ Ids(g.mem) \subseteq MadeIds /\ g.sent \subseteq s0.sent
  BY <1>3, <1>4, <1>7 DEF Ids
<1>13. g.chain \in Seq(StorageCall) /\ DOMAIN g.chain = 1..Len(g.chain)
  BY <1>7 DEF TabRecord
<1>14. \A k \in DOMAIN g.chain : k > Len(s0.chain) =>
          \/ g.chain[k].kind = "remove" /\ g.chain[k].id \in OverIds'
          \/ g.chain[k].kind = "setOp"
  <2> SUFFICES ASSUME NEW k \in DOMAIN g.chain, k > Len(s0.chain)
               PROVE  g.chain[k].kind = "remove" /\ g.chain[k].id \in OverIds'
    OBVIOUS
  <2>1. k = Len(s0.chain) + 1
    BY <1>2, <1>4, <1>7, <1>13
  <2>2. gone.chain[k].kind = "remove" /\ gone.chain[k].id = id
    BY <1>4, <2>1, CallIs
  <2> QED BY <1>7, <1>10, <2>2
<1>15. /\ s0.pc # "read" /\ UNCHANGED <<processed, disk, log, seen>>
       /\ Follows(g.chain, s0.chain, 0)
  BY <1>1, <1>4, <1>7
<1> HIDE DEF s0
<1> QED BY <1>1, <1>7, <1>9, <1>10, <1>11, <1>12, <1>14, <1>15, RoundStep DEF s0

LEMMA NoAnswerKeeps ==
    ASSUME QueueInv, NEW t \in Tabs, NoAnswer(t)
    PROVE  QueueInv'
<1> DEFINE s0 == tabs[t]
           u  == Uncertain(s0, s0.cur.id)
           a  == IF s0.current THEN [u EXCEPT !.sending = None] ELSE s0
           s  == [a EXCEPT !.pc = "sleep", !.reply = None]
<1>1. /\ s0.pc = "call" /\ tabs' = [tabs EXCEPT ![t] = s]
      /\ used' = [used EXCEPT !.faults = @ + 1]
      /\ \/ net' = {r \in net : r.tab # t}
         \/ net' = {[r EXCEPT !.tab = IF @ = t THEN None ELSE @] : r \in net}
      /\ UNCHANGED <<room, processed, log, disk, saved, seen, dropped>>
  BY DEF NoAnswer, serverVars, deviceVars
<1>2. /\ s0 \in TabRecord /\ s0.chain \in Seq(StorageCall) /\ Len(s0.chain) \in Nat
      /\ TabOK(s0, MadeIds, OverIds, FrontIds) /\ s0.sent \subseteq TouchedIds
  BY TabOf
<1>3. SameQueue(u, s0)
  BY <1>2, UncertainIs
<1> HIDE DEF u
<1>4. SameQueue(a, s0)
  <2>1. CASE s0.current
    <3>1. a = [u EXCEPT !.sending = None]
      BY <2>1
    <3> QED BY <1>3, <3>1 DEF SameQueue, TabRecord
  <2>2. CASE ~s0.current
    <3>1. a = s0
      BY <2>2
    <3> QED BY <1>2, <3>1 DEF SameQueue
  <2> QED BY <2>1, <2>2
<1> HIDE DEF a
<1>5. /\ s \in TabRecord
      /\ s.up = s0.up /\ s.mem = s0.mem /\ s.sent = s0.sent /\ s.chain = s0.chain
      /\ s.cur = s0.cur /\ s.pc = "sleep" /\ s.reply = None
  BY <1>4 DEF SameQueue, TabRecord
<1> HIDE DEF s
<1>6. Shapes'
  <2>1. Shapes /\ used' \in [foreign : Nat, faults : Nat, signOuts : Nat]
    BY <1>1, UsedIs DEF QueueInv
  <2>2. net' \subseteq [id : OpIds, op : UserOps, tab : Tabs \cup {None}]
    <3>1. net \subseteq [id : OpIds, op : UserOps, tab : Tabs \cup {None}]
      BY <2>1 DEF Shapes
    <3>2. CASE net' = {r \in net : r.tab # t}
      BY <3>1, <3>2
    <3>3. CASE net' = {[r EXCEPT !.tab = IF @ = t THEN None ELSE @] : r \in net}
      BY <3>1, <3>3
    <3> QED BY <1>1, <3>2, <3>3
  <2> QED BY <1>1, <1>5, <2>1, <2>2, ShapesStay DEF Shapes
<1>7. /\ MadeIds' = MadeIds /\ dropped' \subseteq MadeIds' /\ dropped \subseteq dropped'
      /\ OverIds' = OverIds /\ FrontIds' = FrontIds /\ MadeIds \subseteq MadeIds'
  BY <1>1, NothingMade DEF OverIds, FrontIds
<1>8. Requests' /\ \A r \in net' : r.id \in TouchedIds
  <2>1. Requests' /\ \A r \in net' : \E q \in net : r.id = q.id
    BY <1>1, <1>5, <1>7, RequestsStay
  <2> QED BY <2>1 DEF TouchedIds
<1>9. EntriesOK(s, MadeIds', OverIds', FrontIds')
  <2>1. s0.cur # None /\ s0.up
    BY <1>1, <1>2 DEF TabOK, EntriesOK
  <2> QED BY <1>2, <1>5, <1>7, <2>1 DEF TabOK, EntriesOK
<1>10. /\ NoPumpAfter(s0.chain, 0) /\ Follows(s.chain, s0.chain, 0)
       /\ 0 <= Len(s0.chain) /\ Len(s.chain) = Len(s0.chain) - 0
  <2>1. NoPumpAfter(s0.chain, 0)
    BY <1>1, <1>2, PumpOnlyWhileReading
  <2> QED BY <1>2, <1>5, <2>1, FollowsItself
<1>11. s.sent \subseteq TouchedIds /\ UNCHANGED <<processed, disk, log>>
  BY <1>1, <1>2, <1>5
<1> HIDE DEF s0
<1> QED BY <1>1, <1>5, <1>6, <1>7, <1>8, <1>9, <1>10, <1>11, NoCallStep DEF s0

LEMMA UnauthorizedKeeps ==
    ASSUME QueueInv, NEW t \in Tabs, Unauthorized(t)
    PROVE  QueueInv'
<1> DEFINE s0 == tabs[t]
           a  == [s0 EXCEPT !.paused = TRUE]
           g  == Clear(a)
<1>1. /\ s0.pc = "call" /\ tabs' = [tabs EXCEPT ![t] = NextRound(g)]
      /\ net' = {r \in net : r.tab # t}
      /\ used' = [used EXCEPT !.faults = @ + 1]
      /\ saved' = NoCopy
      /\ UNCHANGED <<room, processed, log, disk, seen, dropped>>
  BY DEF Unauthorized, serverVars
<1>2. /\ s0 \in TabRecord /\ s0.chain \in Seq(StorageCall) /\ Len(s0.chain) \in Nat
      /\ TabOK(s0, MadeIds, OverIds, FrontIds) /\ s0.sent \subseteq TouchedIds
  BY TabOf
<1>3. /\ a \in TabRecord
      /\ a.up = s0.up /\ a.mem = s0.mem /\ a.sent = s0.sent /\ a.chain = s0.chain
  BY <1>2 DEF TabRecord
<1> HIDE DEF a
<1>4. /\ g \in TabRecord
      /\ g.up = s0.up /\ g.mem = s0.mem /\ g.sent = s0.sent /\ g.chain = s0.chain
  BY <1>3, ClearIs DEF SameQueue
<1> HIDE DEF g
<1>5. NextRound(g) \in TabRecord
  BY <1>4, NextRoundIs
<1>6. Shapes'
  <2>1. Shapes /\ used' \in [foreign : Nat, faults : Nat, signOuts : Nat] /\ saved' \in Copy
    BY <1>1, UsedIs, NoCopyIs DEF QueueInv
  <2>2. net' \subseteq [id : OpIds, op : UserOps, tab : Tabs \cup {None}]
    BY <1>1, <2>1 DEF Shapes
  <2> QED BY <1>1, <1>5, <2>1, <2>2, ShapesStay DEF Shapes
<1>7. /\ MadeIds' = MadeIds /\ dropped' \subseteq MadeIds /\ dropped \subseteq dropped'
      /\ OverIds' = OverIds /\ FrontIds' = FrontIds
  BY <1>1, NothingMade DEF OverIds, FrontIds
<1>8. Requests' /\ \A r \in net' : r.id \in TouchedIds
  <2>1. Requests' /\ \A r \in net' : \E q \in net : r.id = q.id
    BY <1>1, <1>5, <1>7, RequestsStay
  <2> QED BY <2>1 DEF TouchedIds
<1>9. g.up /\ Ids(g.mem) \subseteq MadeIds /\ g.sent \subseteq s0.sent /\ s0.pc # "read"
  BY <1>1, <1>4, CurIs
<1>10. /\ Follows(g.chain, s0.chain, 0)
       /\ \A k \in DOMAIN g.chain : ~(k > Len(s0.chain))
  BY <1>2, <1>4, FollowsItself
<1>11. UNCHANGED <<processed, disk, log, seen>>
  BY <1>1
<1> HIDE DEF s0
<1> QED BY <1>1, <1>4, <1>6, <1>7, <1>8, <1>9, <1>10, <1>11, RoundStep DEF s0

-----------------------------------------------------------------------------
(* The server's actions keep the invariant.                                *)

\* A request is answered: what the page knows of its queue stays.
LEMMA DeliverIs ==
    ASSUME QueueInv, NEW r \in net, NEW answer \in Answer, Deliver(r, answer),
           UNCHANGED <<disk, seen, dropped>>,
           ToSet(log) \subseteq ToSet(log'), ToSet(log') \subseteq ToSet(log) \cup {r.id},
           answer.status # "error" => r.id \in ToSet(log')
    PROVE  /\ tabs' \in [Tabs -> TabRecord]
           /\ net' \subseteq [id : OpIds, op : UserOps, tab : Tabs \cup {None}]
           /\ (Ids(disk) \cup OverIds \subseteq MadeIds)'
           /\ EntriesDiffer' /\ AddsDiffer' /\ AddsAreNew' /\ Requests'
           /\ \A t \in Tabs : TabOK(tabs'[t], MadeIds', OverIds', FrontIds')
<1>1. /\ tabs \in [Tabs -> TabRecord]
      /\ net \subseteq [id : OpIds, op : UserOps, tab : Tabs \cup {None}]
      /\ net' = net \ {r}
      /\ tabs' = IF r.tab = None THEN tabs ELSE [tabs EXCEPT ![r.tab].reply = answer]
  BY DEF QueueInv, Shapes, Deliver
<1>2. /\ \A p, q \in net : p.tab = q.tab /\ p.tab # None => p = q
      /\ \A q \in net : q.id \in MadeIds \cap FrontIds /\ Awaits(q, tabs)
  BY DEF QueueInv, Requests
<1>3. /\ MadeIds' = MadeIds /\ FrontIds \subseteq FrontIds'
      /\ OverIds \subseteq OverIds' /\ OverIds' \subseteq MadeIds
      /\ answer.status # "error" => r.id \in OverIds'
  <2>1. OverIds \subseteq MadeIds
    BY DEF QueueInv
  <2>2. MadeIds' = MadeIds
    BY DEF MadeIds
  <2>3. /\ OverIds \subseteq OverIds' /\ OverIds' \subseteq OverIds \cup {r.id}
        /\ answer.status # "error" => r.id \in OverIds'
    BY DEF OverIds
  <2>4. FrontIds \subseteq FrontIds'
    BY <2>3 DEF FrontIds
  <2> QED BY <1>2, <2>1, <2>2, <2>3, <2>4
<1>4. ASSUME NEW t \in Tabs
      PROVE  /\ tabs'[t] \in TabRecord
             /\ tabs'[t].up = tabs[t].up /\ tabs'[t].mem = tabs[t].mem
             /\ tabs'[t].sent = tabs[t].sent /\ tabs'[t].chain = tabs[t].chain
             /\ tabs'[t].pc = tabs[t].pc /\ tabs'[t].cur = tabs[t].cur
             /\ \/ tabs'[t].reply = tabs[t].reply /\ (r.tab = None \/ t # r.tab)
                \/ tabs'[t].reply = answer /\ t = r.tab
  <2>1. CASE r.tab = None \/ t # r.tab
    <3>1. tabs'[t] = tabs[t]
      BY <1>1, <2>1
    <3> QED BY <1>1, <2>1, <3>1
  <2>2. CASE r.tab # None /\ t = r.tab
    <3>1. tabs'[t] = [tabs[t] EXCEPT !.reply = answer]
      BY <1>1, <2>2
    <3>2. tabs[t] \in TabRecord
      BY <1>1
    <3> QED BY <2>2, <3>1, <3>2 DEF TabRecord
  <2> QED BY <2>1, <2>2
<1>5. tabs' \in [Tabs -> TabRecord]
  <2>1. DOMAIN tabs' = Tabs /\ tabs' = [t \in Tabs |-> tabs'[t]]
    BY <1>1
  <2> QED BY <1>4, <2>1
<1>6. Requests'
  <2>1. ASSUME NEW q \in net' PROVE Awaits(q, tabs')
    <3>1. q \in net /\ Awaits(q, tabs) /\ q # r /\ q.tab \in Tabs \cup {None}
      BY <1>1, <1>2
    <3>2. CASE q.tab = None
      BY <3>2 DEF Awaits
    <3>3. CASE q.tab # None
      <4>1. q.tab \in Tabs /\ q.tab # r.tab
        BY <1>2, <3>1, <3>3
      <4>2. /\ tabs'[q.tab].pc = tabs[q.tab].pc /\ tabs'[q.tab].cur = tabs[q.tab].cur
            /\ tabs'[q.tab].reply = tabs[q.tab].reply
        BY <1>4, <4>1
      <4> QED BY <3>1, <4>2 DEF Awaits
    <3> QED BY <3>2, <3>3
  <2>2. \A q \in net' : q.id \in MadeIds' \cap FrontIds'
    BY <1>1, <1>2, <1>3
  <2>3. \A p, q \in net' : p.tab = q.tab /\ p.tab # None => p = q
    BY <1>1, <1>2
  <2> QED BY <2>1, <2>2, <2>3 DEF Requests
<1>7. ASSUME NEW t \in Tabs PROVE TabOK(tabs'[t], MadeIds', OverIds', FrontIds')
  <2>1. TabOK(tabs[t], MadeIds, OverIds, FrontIds)
    BY DEF QueueInv
  <2>2. TabOK(tabs[t], MadeIds', OverIds', FrontIds')
    BY <1>3, <2>1, TabStaysOK
  <2>3. CASE tabs'[t].reply = tabs[t].reply
    BY <1>4, <2>2, <2>3 DEF TabOK, EntriesOK, CallOK, OnePump
  <2>4. CASE tabs'[t].reply = answer /\ t = r.tab
    <3>1. tabs[t].pc = "call" /\ tabs[t].cur.id = r.id
      BY <1>1, <1>2, <2>4, NoneIsNoRecord DEF Awaits
    <3>2. EntriesOK(tabs'[t], MadeIds', OverIds', FrontIds')
      BY <1>3, <1>4, <2>2, <2>4, <3>1 DEF TabOK, EntriesOK
    <3> QED BY <1>4, <2>2, <3>2 DEF TabOK, CallOK, OnePump
  <2> QED BY <1>4, <2>3, <2>4
<1>8. EntriesDiffer' /\ (Ids(disk) \cup OverIds \subseteq MadeIds)'
  <2>1. Ids(disk) \subseteq MadeIds
    BY DEF QueueInv
  <2> QED BY <1>3, <2>1 DEF QueueInv, EntriesDiffer, Ids
<1>9. AddsDiffer'
  BY <1>4 DEF QueueInv, AddsDiffer
<1>10. AddsAreNew'
  <2>1. r.id \in TouchedIds /\ \A q \in net' : q.id \in TouchedIds
    BY <1>1 DEF TouchedIds
  <2>2. Ids(disk)' \subseteq TouchedIds
    BY DEF TouchedIds
  <2>3. \A t \in Tabs : tabs'[t].sent \subseteq TouchedIds
    BY <1>4 DEF TouchedIds
  <2>4. ToSet(log)' \subseteq TouchedIds
    BY <2>1 DEF TouchedIds
  <2>5. TouchedIds' \subseteq TouchedIds
    <3>1. TouchedIds' = UNION {Ids(disk)', ToSet(log)', {q.id : q \in net'},
                               UNION {tabs'[t].sent : t \in Tabs}}
      BY DEF TouchedIds
    <3> QED BY <2>1, <2>2, <2>3, <2>4, <3>1
  <2> QED BY <1>4, <2>5 DEF QueueInv, AddsAreNew
<1>11. net' \subseteq [id : OpIds, op : UserOps, tab : Tabs \cup {None}]
  BY <1>1
<1> QED BY <1>5, <1>6, <1>7, <1>8, <1>9, <1>10, <1>11

LEMMA ServeKeeps ==
    ASSUME QueueInv, NEW r \in net, Serve(r)
    PROVE  QueueInv'
<1> DEFINE outcome == Outcome(room, r.op)
           answer  == AnswerOf(outcome)
           reused  == AnswerOf(HttpError(room, "op_id_reused"))
           once    == [op |-> r.op, answer |-> answer, wrote |-> outcome.room # room]
<1>1. /\ r.id \in OpIds /\ r.op \in UserOps /\ RoomOK(room) /\ log \in Seq(OpIds)
      /\ processed \in [OpIds -> RunOnce \cup {None}]
      /\ LogIsProcessed /\ Shapes
  BY DEF QueueInv, Shapes
<1>2. OutcomeOK(outcome)
  BY <1>1, OutcomeIs
<1>3. answer \in Answer /\ RoomOK(outcome.room)
  BY <1>2, AnswerOfIs DEF OutcomeOK
<1>4. reused \in Answer /\ reused.status = "error"
  <2>1. OutcomeOK(HttpError(room, "op_id_reused"))
    BY <1>1, RejectedIs DEF Codes
  <2>2. AnswerOf(HttpError(room, "op_id_reused")) \in Answer
    BY <2>1, AnswerOfIs
  <2>3. AnswerOf(HttpError(room, "op_id_reused")).status = "error"
    BY DEF AnswerOf, HttpError
  <2> QED BY <2>2, <2>3
<1>5. UNCHANGED <<disk, saved, used, seen, dropped>>
  BY DEF Serve, deviceVars
<1>6. once \in RunOnce /\ once # None
  <2>1. (outcome.room # room) \in BOOLEAN
    OBVIOUS
  <2> DEFINE wrote == outcome.room # room
  <2> HIDE DEF outcome, answer, wrote
  <2>2. wrote \in BOOLEAN
    BY <2>1 DEF wrote
  <2>3. [op |-> r.op, answer |-> answer, wrote |-> wrote] \in RunOnce
    BY <1>1, <1>3, <2>2 DEF RunOnce
  <2>4. once = [op |-> r.op, answer |-> answer, wrote |-> wrote]
    BY DEF wrote
  <2> HIDE DEF once
  <2> QED BY <2>3, <2>4, NoneIsNoRecord
<1>7. CASE /\ processed[r.id] = None
           /\ room' = outcome.room
           /\ processed' = [processed EXCEPT ![r.id] = once]
           /\ log' = Append(log, r.id)
           /\ Deliver(r, answer)
  <2> HIDE DEF outcome, answer, once
  <2>1. ToSet(log') = ToSet(log) \cup {r.id} /\ log' \in Seq(OpIds)
    BY <1>1, <1>7, AppendElements, AppendProperties
  <2>2. /\ tabs' \in [Tabs -> TabRecord]
        /\ net' \subseteq [id : OpIds, op : UserOps, tab : Tabs \cup {None}]
        /\ (Ids(disk) \cup OverIds \subseteq MadeIds)'
        /\ EntriesDiffer' /\ AddsDiffer' /\ AddsAreNew' /\ Requests'
        /\ \A t \in Tabs : TabOK(tabs'[t], MadeIds', OverIds', FrontIds')
    BY <1>3, <1>5, <1>7, <2>1, DeliverIs
  <2>3. processed' \in [OpIds -> RunOnce \cup {None}]
    BY <1>1, <1>6, <1>7
  <2>4. LogIsProcessed'
    BY <1>1, <1>6, <1>7, <2>1 DEF LogIsProcessed
  <2>5. Shapes'
    BY <1>1, <1>3, <1>5, <1>7, <2>1, <2>2, <2>3 DEF Shapes, RoomOK
  <2> QED BY <2>2, <2>4, <2>5 DEF QueueInv
<1>8. CASE /\ processed[r.id] # None
           /\ Deliver(r, IF processed[r.id].op = r.op THEN processed[r.id].answer ELSE reused)
           /\ UNCHANGED <<room, processed, log>>
  <2> DEFINE given == IF processed[r.id].op = r.op THEN processed[r.id].answer ELSE reused
  <2> HIDE DEF reused
  <2>1. processed[r.id] \in RunOnce /\ r.id \in ToSet(log)
    BY <1>1, <1>8 DEF LogIsProcessed
  <2>2. given \in Answer /\ Deliver(r, given)
    BY <1>4, <1>8, <2>1 DEF RunOnce
  <2>3. ToSet(log') = ToSet(log)
    BY <1>8
  <2> HIDE DEF given
  <2>4. /\ tabs' \in [Tabs -> TabRecord]
        /\ net' \subseteq [id : OpIds, op : UserOps, tab : Tabs \cup {None}]
        /\ (Ids(disk) \cup OverIds \subseteq MadeIds)'
        /\ EntriesDiffer' /\ AddsDiffer' /\ AddsAreNew' /\ Requests'
        /\ \A t \in Tabs : TabOK(tabs'[t], MadeIds', OverIds', FrontIds')
    BY <1>5, <2>1, <2>2, <2>3, DeliverIs
  <2>5. LogIsProcessed'
    BY <1>1, <1>8 DEF LogIsProcessed
  <2>6. Shapes'
    BY <1>1, <1>5, <1>8, <2>4 DEF Shapes, RoomOK
  <2> QED BY <2>4, <2>5, <2>6 DEF QueueInv
<1> QED BY <1>7, <1>8 DEF Serve, serverVars

LEMMA RefuseKeeps ==
    ASSUME QueueInv, NEW r \in net, Refuse(r)
    PROVE  QueueInv'
<1> DEFINE answer == AnswerOf(HttpError(room, "refused"))
<1>1. /\ UNCHANGED <<room, processed, log, disk, saved, seen, dropped>>
      /\ used' = [used EXCEPT !.faults = @ + 1] /\ Deliver(r, answer)
  BY DEF Refuse, serverVars, deviceVars
<1>2. RoomOK(room) /\ Shapes /\ LogIsProcessed
  BY DEF QueueInv, Shapes
<1>3. answer \in Answer /\ answer.status = "error"
  <2>1. OutcomeOK(HttpError(room, "refused"))
    BY <1>2, RejectedIs DEF Codes
  <2>2. AnswerOf(HttpError(room, "refused")) \in Answer
    BY <2>1, AnswerOfIs
  <2>3. AnswerOf(HttpError(room, "refused")).status = "error"
    BY DEF AnswerOf, HttpError
  <2> QED BY <2>2, <2>3
<1> HIDE DEF answer
<1>4. ToSet(log') = ToSet(log)
  BY <1>1
<1>5. /\ tabs' \in [Tabs -> TabRecord]
      /\ net' \subseteq [id : OpIds, op : UserOps, tab : Tabs \cup {None}]
      /\ (Ids(disk) \cup OverIds \subseteq MadeIds)'
      /\ EntriesDiffer' /\ AddsDiffer' /\ AddsAreNew' /\ Requests'
      /\ \A t \in Tabs : TabOK(tabs'[t], MadeIds', OverIds', FrontIds')
  BY <1>1, <1>3, <1>4, DeliverIs
<1>6. Shapes'
  <2>1. used' \in [foreign : Nat, faults : Nat, signOuts : Nat]
    BY <1>1, UsedIs
  <2> QED BY <1>1, <1>2, <1>5, <2>1 DEF Shapes, RoomOK
<1>7. LogIsProcessed'
  BY <1>1, <1>2 DEF LogIsProcessed
<1> QED BY <1>5, <1>6, <1>7 DEF QueueInv

\* The parts of the invariant that speak of the queue alone.
LEMMA QueueIsSame ==
    ASSUME QueueInv, Shapes', UNCHANGED <<processed, net, disk, tabs, log, seen, dropped>>
    PROVE  QueueInv'
<1>1. MadeIds' = MadeIds /\ OverIds' = OverIds /\ FrontIds' = FrontIds /\ TouchedIds' = TouchedIds
  BY DEF MadeIds, OverIds, FrontIds, TouchedIds
<1>2. EntriesDiffer' /\ AddsDiffer' /\ AddsAreNew'
  BY <1>1 DEF QueueInv, EntriesDiffer, AddsDiffer, AddsAreNew
<1>3. Requests' /\ LogIsProcessed'
  BY <1>1 DEF QueueInv, Requests, LogIsProcessed
<1>4. (Ids(disk) \cup OverIds \subseteq MadeIds)'
  BY <1>1 DEF QueueInv
<1> QED BY <1>1, <1>2, <1>3, <1>4 DEF QueueInv

LEMMA ForeignKeeps ==
    ASSUME QueueInv, Foreign
    PROVE  QueueInv'
<1>1. /\ used' = [used EXCEPT !.foreign = @ + 1]
      /\ UNCHANGED <<processed, log, net, disk, saved, tabs, seen, dropped>>
  BY DEF Foreign, deviceVars
<1>2. PICK n \in Names :
         room' = PutItem(room, TheItem, [room.items[TheItem] EXCEPT !.name = n])
  BY DEF Foreign
<1>3. RoomOK(room) /\ Shapes /\ used \in [foreign : Nat, faults : Nat, signOuts : Nat]
  BY DEF QueueInv, Shapes
<1> DEFINE row == [room.items[TheItem] EXCEPT !.name = n]
<1>4. row \in ItemRow
  BY <1>3 DEF RoomOK, ItemRow
<1> HIDE DEF row
<1>5. RoomOK(PutItem(room, TheItem, row))
  BY <1>3, <1>4, PutItemIs
<1>6. RoomOK(room')
  BY <1>2, <1>5 DEF row
<1>7. used' \in [foreign : Nat, faults : Nat, signOuts : Nat]
  <2>1. used.foreign + 1 \in Nat
    BY <1>3
  <2> QED BY <1>1, <1>3, <2>1
<1>8. Shapes'
  BY <1>1, <1>3, <1>6, <1>7 DEF Shapes, RoomOK
<1> QED BY <1>1, <1>8, QueueIsSame

LEMMA StartsQueue ==
    ASSUME Init
    PROVE  QueueInv
<1>1. /\ processed = [id \in OpIds |-> None] /\ net = {} /\ disk = <<>>
      /\ used = [foreign |-> 0, faults |-> 0, signOuts |-> 0]
      /\ saved = CopyNow /\ tabs = [t \in Tabs |-> ClosedTab]
      /\ log = <<>> /\ seen = [id \in OpIds |-> None] /\ dropped = {}
  BY DEF Init
<1>2. PICK n \in Names :
         room = [seq |-> 1, name |-> n, gone |-> {},
                 lists |-> [l \in Lists |-> NewList(n)],
                 items |-> [i \in Items |->
                     [list |-> TheList, name |-> n, done |-> FALSE, qty |-> 1,
                      tags |-> <<>>, seq |-> 1]]]
  BY DEF Init
<1>3. RoomOK(room)
  <2> DEFINE row == [list |-> TheList, name |-> n, done |-> FALSE, qty |-> 1,
                     tags |-> <<>>, seq |-> 1]
  <2>1. row \in ItemRow
    BY OneRow DEF ItemRow
  <2>2. NewList(n) \in ListRow
    BY DEF NewList, ListRow
  <2> HIDE DEF row
  <2>3. /\ [l \in Lists |-> NewList(n)] \in [Lists -> ListRow \cup {None}]
        /\ [i \in Items |-> row] \in [Items -> ItemRow \cup {None}]
        /\ [i \in Items |-> row][TheItem] = row
    BY <2>1, <2>2, OneRow
  <2>4. room = [seq |-> 1, name |-> n, gone |-> {},
                lists |-> [l \in Lists |-> NewList(n)], items |-> [i \in Items |-> row]]
    BY <1>2 DEF row
  <2> QED BY <2>1, <2>3, <2>4 DEF RoomOK, Room
<1>4. CopyNow \in Copy
  BY <1>1, <1>3, CopyNowIs
<1>5. Shapes
  <2>1. tabs \in [Tabs -> TabRecord]
    BY <1>1, ClosedTabIs
  <2> QED BY <1>1, <1>3, <1>4, <2>1 DEF Shapes
<1>6. ASSUME NEW t \in Tabs
      PROVE  tabs[t].chain = <<>> /\ TabOK(tabs[t], MadeIds, OverIds, FrontIds)
  <2>1. tabs[t] = ClosedTab
    BY <1>1
  <2> QED BY <2>1, ClosedTabIs, IdleTabOK
<1>7. AddsDiffer /\ AddsAreNew
  <2>1. \A t \in Tabs : DOMAIN tabs[t].chain = {}
    BY <1>6
  <2> QED BY <2>1 DEF AddsDiffer, AddsAreNew
<1>8. ToSet(log) = {} /\ ToSet(disk) = {} /\ DOMAIN disk = {}
  BY <1>1 DEF ToSet
<1>9. LogIsProcessed /\ EntriesDiffer /\ Requests /\ Ids(disk) \cup OverIds \subseteq MadeIds
  BY <1>1, <1>8 DEF LogIsProcessed, EntriesDiffer, Requests, OverIds, Ids
<1> QED BY <1>5, <1>6, <1>7, <1>9 DEF QueueInv

LEMMA QueueStep ==
    ASSUME QueueInv, [Next]_vars
    PROVE  QueueInv'
<1>1. ASSUME NEW t \in Tabs, Page(t) PROVE QueueInv'
  <2>1. CASE Open(t) BY <2>1, OpenKeeps
  <2>2. CASE Close(t) BY <2>2, CloseKeeps
  <2>3. CASE Send(t) BY <2>3, SendKeeps
  <2>4. CASE Discard(t) BY <2>4, DiscardKeeps
  <2>5. CASE Pause(t) BY <2>5, PauseKeeps
  <2>6. CASE SignedOut(t) BY <2>6, SignedOutKeeps
  <2>7. CASE AskFeed(t) \/ AnswerFeed(t) BY <2>7, AskFeedKeeps
  <2>8. CASE TakeFeed(t) BY <2>8, TakeFeedKeeps
  <2>9. CASE NoAnswer(t) BY <2>9, NoAnswerKeeps
  <2>10. CASE Unauthorized(t) BY <2>10, UnauthorizedKeeps
  <2> QED BY <1>1, <2>1, <2>2, <2>3, <2>4, <2>5, <2>6, <2>7, <2>8, <2>9, <2>10 DEF Page
<1>2. ASSUME NEW t \in Tabs, Loop(t) PROVE QueueInv'
  <2>1. CASE TakeLock(t) \/ Wake(t) BY <2>1, TakeLockKeeps
  <2>2. CASE ReadEntries(t)
    <3>1. CASE ~Head(tabs[t].chain).clean BY <2>2, <3>1, ReadAgainKeeps
    <3>2. CASE Head(tabs[t].chain).clean /\ Head(tabs[t].chain).kind # "pump"
      BY <2>2, <3>2, ReadToShowKeeps
    <3>3. CASE Head(tabs[t].chain).clean /\ Head(tabs[t].chain).kind = "pump"
      BY <2>2, <3>3, ReadToSendKeeps
    <3> QED BY <3>1, <3>2, <3>3
  <2>3. CASE WriteEntries(t) BY <2>3, WriteKeeps
  <2>4. CASE Settle(t) BY <2>4, SettleKeeps
  <2>5. CASE Fail(t) BY <2>5, FailKeeps
  <2> QED BY <1>2, <2>1, <2>2, <2>3, <2>4, <2>5 DEF Loop
<1>3. ASSUME Server PROVE QueueInv'
  BY <1>3, ServeKeeps, RefuseKeeps DEF Server
<1>4. CASE Foreign
  BY <1>4, ForeignKeeps
<1>5. CASE UNCHANGED vars
  <2>1. Shapes'
    BY <1>5 DEF vars, QueueInv, Shapes, RoomOK
  <2> QED BY <1>5, <2>1, QueueIsSame DEF vars
<1> QED BY <1>1, <1>2, <1>3, <1>4, <1>5 DEF Next

\* The inductive invariant: whatever tabs, requests and storage calls do at the
\* same time, a request on its way is of an op that is over or of the oldest
\* stored one, storage has no op_id twice, and what waits in a tab's chain neither
\* removes an op that is not over nor adds one that was stored before.
THEOREM QueueInvariant == Spec => []QueueInv
<1>1. Init => QueueInv
  BY StartsQueue
<1>2. QueueInv /\ [Next]_vars => QueueInv'
  BY QueueStep
<1> QED BY <1>1, <1>2, PTL DEF Spec

\* TypeOK: entries, requests, answers and projections keep their shape, a tab has
\* one request at most and an answer only while it waits for it (#pump, #sendOne),
\* and only changes the user made are stored, run or given up.
THEOREM TypeCorrect == Spec => []TypeOK
<1>1. QueueInv => TypeOK
  BY ShapesOfAll
<1> QED BY <1>1, QueueInvariant, PTL

-----------------------------------------------------------------------------
(* The stored queue implements Outbox.                                     *)

LEMMA IdsOfStored ==
    ASSUME NEW q \in Seq(Stored)
    PROVE  /\ IdsOf(q) \in Seq(OpIds) /\ DOMAIN IdsOf(q) = DOMAIN q
           /\ Len(IdsOf(q)) = Len(q)
           /\ ToSet(IdsOf(q)) = Ids(q)
<1>1. \A k \in DOMAIN q : IdsOf(q)[k] \in OpIds /\ IdsOf(q)[k] = q[k].id
  <2>1. \A k \in DOMAIN q : q[k] \in Stored
    BY ElementsOf
  <2> QED BY <2>1 DEF IdsOf, Stored
<1>2. IdsOf(q) = [k \in DOMAIN q |-> IdsOf(q)[k]]
  BY DEF IdsOf
<1>3. IdsOf(q) \in Seq(OpIds) /\ DOMAIN IdsOf(q) = DOMAIN q /\ Len(IdsOf(q)) = Len(q)
  BY <1>1, <1>2, EachIsTyped
<1>4. ToSet(IdsOf(q)) = Ids(q)
  BY <1>1, <1>3 DEF Ids, ToSet
<1> QED BY <1>3, <1>4

\* A waiting write, seen as a step of the outbox.
LEMMA WriteIsPromised ==
    ASSUME QueueInv, NEW t \in Tabs, WriteEntries(t)
    PROVE  Promise!Next \/ (UNCHANGED <<IdsOf(disk), log, dropped>>)
<1> DEFINE c == Head(tabs[t].chain)
<1>1. /\ tabs[t].chain # <<>> /\ c.kind \notin Reads /\ disk' = Written(disk, c)
      /\ UNCHANGED <<log, dropped>>
  BY DEF WriteEntries, Written, serverVars
<1>2. /\ TabOK(tabs[t], MadeIds, OverIds, FrontIds) /\ tabs[t].chain \in Seq(StorageCall)
      /\ disk \in Seq(Stored) /\ log \in Seq(OpIds)
  BY TabOf DEF QueueInv, Shapes
<1>3. c = tabs[t].chain[1] /\ 1 \in DOMAIN tabs[t].chain /\ c \in StorageCall
  <2>1. c = tabs[t].chain[1] /\ c \in StorageCall /\ Len(tabs[t].chain) >= 1
    BY <1>1, <1>2, TailFollows
  <2> QED BY <1>2, <2>1
<1>4. /\ CallOK(c, tabs[t], MadeIds, OverIds)
      /\ c.kind = "add" => c.id \notin TouchedIds
  BY <1>2, <1>3 DEF TabOK, QueueInv, AddsAreNew
<1> HIDE DEF c
<1>5. /\ c.kind \in {"add", "remove", "setOp", "setSent"} /\ c.id \in OpIds
      /\ c.kind \in {"add", "setOp"} => c.op \in UserOps
  BY <1>1, <1>3 DEF StorageCall, Reads
<1> PICK id \in OpIds : id = c.id
  BY <1>5
<1>6. \A q : Promise!ToSet(q) = ToSet(q)
  BY DEF Promise!ToSet, ToSet
<1>7. ToSet(IdsOf(disk)) = Ids(disk)
  BY <1>2, IdsOfStored
<1>8. CASE c.kind = "add"
  <2> DEFINE e == Entry(c.id, c.op)
  <2>1. e \in Stored /\ e.id = id
    BY <1>5, <1>8 DEF Entry, Stored
  <2>2. disk' = Append(disk, e)
    BY <1>1, <1>8 DEF Written
  <2> HIDE DEF e
  <2>3. IdsOf(disk') = Append(IdsOf(disk), id)
    BY <1>2, <2>1, <2>2, IdsOfAppend
  <2>4. id \notin ToSet(IdsOf(disk)) \cup ToSet(log)
    BY <1>4, <1>7, <1>8 DEF TouchedIds
  <2>5. Promise!Store(id)
    <3>1. id \notin Promise!ToSet([k \in DOMAIN disk |-> disk[k].id]) \cup Promise!ToSet(log)
      BY <1>6, <2>4 DEF IdsOf
    <3>2. [k \in DOMAIN disk' |-> disk'[k].id] = Append([k \in DOMAIN disk |-> disk[k].id], id)
      BY <2>3 DEF IdsOf
    <3> QED BY <1>1, <3>1, <3>2 DEF Promise!Store
  <2> QED BY <2>5 DEF Promise!Next
<1>9. CASE c.kind = "remove"
  <2>1. disk' = Without(disk, id)
    BY <1>1, <1>9 DEF Written
  <2>2. IdsOf(disk')
           = Picked(IdsOf(disk), {k \in DOMAIN IdsOf(disk) : IdsOf(disk)[k] # id})
    BY <1>2, <2>1, IdsOfPicked DEF Without
  <2>3. id \in ToSet(log) \cup dropped
    BY <1>4, <1>9 DEF CallOK, OverIds
  <2>4. \A q, places : Promise!Picked(q, places) = Picked(q, places)
    BY Zenon DEF Promise!Picked, Picked, Promise!Nth, Nth, Promise!Rank, Rank,
                 Promise!Cardinality, Cardinality, Promise!IsFiniteSet, IsFiniteSet
  <2>5. Promise!Leave(id)
    <3> DEFINE w == [k \in DOMAIN disk |-> disk[k].id]
    <3>1. id \in Promise!ToSet(log) \cup dropped
      BY <1>6, <2>3
    <3>2. [k \in DOMAIN disk' |-> disk'[k].id] = Picked(w, {k \in DOMAIN w : w[k] # id})
      BY <2>2 DEF IdsOf
    <3>3. Promise!Picked(w, {k \in DOMAIN w : w[k] # id})
             = Picked(w, {k \in DOMAIN w : w[k] # id})
      BY <2>4
    <3>4. [k \in DOMAIN disk' |-> disk'[k].id]
             = Promise!Picked(w, {k \in DOMAIN w : w[k] # id})
      BY <3>2, <3>3
    <3> QED BY <1>1, <3>1, <3>4 DEF Promise!Leave
  <2> QED BY <2>5 DEF Promise!Next
<1>10. CASE c.kind \in {"setOp", "setSent"}
  <2>1. \A k \in DOMAIN disk : disk[k] \in Stored
    BY <1>2, ElementsOf
  <2>2. /\ DOMAIN disk' = DOMAIN disk
        /\ \A k \in DOMAIN disk : disk'[k].id = disk[k].id
    <3>1. CASE c.kind = "setOp"
      <4>1. disk' = WithOp(disk, c.id, c.op)
        BY <1>1, <3>1 DEF Written
      <4> QED BY <2>1, <4>1 DEF WithOp, Stored
    <3>2. CASE c.kind = "setSent"
      <4>1. disk' = WithSent(disk, c.id)
        BY <1>1, <3>2 DEF Written
      <4> QED BY <2>1, <4>1 DEF WithSent, Stored
    <3> QED BY <1>10, <3>1, <3>2
  <2>3. IdsOf(disk') = IdsOf(disk)
    BY <2>2 DEF IdsOf
  <2> QED BY <1>1, <2>3 DEF IdsOf
<1> QED BY <1>5, <1>8, <1>9, <1>10

LEMMA ServeIsPromised ==
    ASSUME QueueInv, NEW r \in net, Serve(r)
    PROVE  Promise!Next \/ UNCHANGED <<disk, log, dropped>>
<1>1. /\ r.id \in OpIds /\ r.id \in FrontIds /\ disk \in Seq(Stored)
      /\ processed[r.id] # None <=> r.id \in ToSet(log)
  BY DEF QueueInv, Shapes, Requests, LogIsProcessed
<1>2. UNCHANGED <<disk, dropped>>
  BY DEF Serve, deviceVars
<1>3. CASE processed[r.id] = None /\ log' = Append(log, r.id)
  <2>1. r.id \notin ToSet(log)
    BY <1>1, <1>3
  <2>2. r.id \in dropped \/ (IdsOf(disk) # <<>> /\ r.id = Head(IdsOf(disk)))
    <3>1. CASE r.id \in dropped
      BY <3>1
    <3>2. CASE 1 \in DOMAIN disk /\ r.id = disk[1].id
      <4>1. IdsOf(disk) \in Seq(OpIds) /\ DOMAIN IdsOf(disk) = DOMAIN disk
        BY <1>1, IdsOfStored
      <4>2. IdsOf(disk)[1] = r.id
        BY <3>2 DEF IdsOf
      <4>3. IdsOf(disk) # <<>> /\ Head(IdsOf(disk)) = IdsOf(disk)[1]
        BY <3>2, <4>1
      <4> QED BY <4>2, <4>3
    <3> QED BY <1>1, <2>1, <3>1, <3>2 DEF FrontIds, OverIds
  <2>3. \A q : Promise!ToSet(q) = ToSet(q)
    BY DEF Promise!ToSet, ToSet
  <2>4. Promise!Run(r.id)
    BY <1>2, <1>3, <2>1, <2>2, <2>3 DEF Promise!Run, IdsOf
  <2> QED BY <1>1, <2>4 DEF Promise!Next
<1>4. CASE UNCHANGED log
  BY <1>2, <1>4
<1> QED BY <1>3, <1>4 DEF Serve, serverVars

\* An op is given up.
LEMMA GivenUpIsPromised ==
    ASSUME NEW id \in OpIds, dropped' = dropped \cup {id}, UNCHANGED <<disk, log>>
    PROVE  Promise!Next
<1>1. Promise!GiveUp(id)
  BY DEF Promise!GiveUp
<1> QED BY <1>1 DEF Promise!Next

LEMMA StepIsPromised ==
    ASSUME QueueInv, [Next]_vars
    PROVE  [Promise!Next]_<<IdsOf(disk), log, dropped>>
<1>1. UNCHANGED <<disk, log, dropped>> => UNCHANGED <<IdsOf(disk), log, dropped>>
  BY DEF IdsOf
<1>2. ASSUME NEW t \in Tabs, Page(t)
      PROVE  Promise!Next \/ UNCHANGED <<disk, log, dropped>>
  <2>1. CASE Discard(t)
    <3>1. PICK id \in Ids(tabs[t].mem) : dropped' = dropped \cup {id}
      BY <2>1 DEF Discard
    <3>2. UNCHANGED <<disk, log>>
      BY <2>1 DEF Discard, serverVars, deviceVars
    <3>3. TabOK(tabs[t], MadeIds, OverIds, FrontIds)
      BY TabOf
    <3>4. id \in OpIds
      BY <3>3 DEF TabOK, EntriesOK, MadeIds
    <3> QED BY <3>1, <3>2, <3>4, GivenUpIsPromised
  <2>2. CASE Open(t) \/ Close(t) \/ Send(t) \/ Pause(t) \/ SignedOut(t)
    BY <2>2 DEF Open, Close, Send, Pause, SignedOut, serverVars, deviceVars
  <2>3. CASE AskFeed(t) \/ AnswerFeed(t) \/ TakeFeed(t) \/ NoAnswer(t) \/ Unauthorized(t)
    BY <2>3 DEF AskFeed, AnswerFeed, TakeFeed, NoAnswer, Unauthorized, serverVars, deviceVars
  <2> QED BY <1>2, <2>1, <2>2, <2>3 DEF Page
<1>3. ASSUME NEW t \in Tabs, Loop(t)
      PROVE  [Promise!Next]_<<IdsOf(disk), log, dropped>>
  <2>1. CASE Fail(t)
    <3>1. /\ dropped' = dropped \cup {tabs[t].cur.id} /\ tabs[t].pc = "call"
          /\ UNCHANGED <<disk, log>>
      BY <2>1 DEF Fail, serverVars, deviceVars
    <3>2. tabs[t].cur.id \in OpIds
      BY <3>1, CurIs
    <3> QED BY <3>1, <3>2, GivenUpIsPromised
  <2>2. CASE WriteEntries(t)
    BY <2>2, WriteIsPromised
  <2>3. CASE TakeLock(t) \/ ReadEntries(t) \/ Settle(t) \/ Wake(t)
    <3>1. UNCHANGED <<disk, log, dropped>>
      BY <2>3 DEF TakeLock, ReadEntries, Settle, Wake, serverVars, deviceVars
    <3> QED BY <1>1, <3>1
  <2> QED BY <1>3, <2>1, <2>2, <2>3 DEF Loop
<1>4. ASSUME Server
      PROVE  Promise!Next \/ UNCHANGED <<disk, log, dropped>>
  <2>1. PICK r \in net : Serve(r) \/ Refuse(r)
    BY <1>4 DEF Server
  <2>2. CASE Serve(r)
    BY <2>2, ServeIsPromised
  <2>3. CASE Refuse(r)
    BY <2>3 DEF Refuse, serverVars, deviceVars
  <2> QED BY <2>1, <2>2, <2>3
<1>5. CASE Foreign
  <2>1. UNCHANGED <<disk, log, dropped>>
    BY <1>5 DEF Foreign, deviceVars
  <2> QED BY <1>1, <2>1
<1>6. CASE UNCHANGED vars
  <2>1. UNCHANGED <<disk, log, dropped>>
    BY <1>6 DEF vars
  <2> QED BY <1>1, <2>1
<1> QED BY <1>1, <1>2, <1>3, <1>4, <1>5, <1>6 DEF Next

\* KeepsPromise: with any number of tabs, closed pages, lost answers, discards and
\* refusals, every stored change runs at most once, in the order the changes were
\* made, and leaves storage only when it ran or was given up (write-queue.ts,
\* queue-storage.ts, run_once_locked).
THEOREM ChangesAreKept == Spec => KeepsPromise
<1>1. Init => Promise!Init
  BY DEF Init, Promise!Init
<1>2. QueueInv /\ [Next]_vars => [Promise!Next]_<<[k \in DOMAIN disk |-> disk[k].id], log, dropped>>
  BY StepIsPromised DEF IdsOf
<1>3. Spec => []QueueInv
  BY QueueInvariant
<1> QED BY <1>1, <1>2, <1>3, PTL DEF Spec, KeepsPromise, Promise!Spec

-----------------------------------------------------------------------------
(* An op_id keeps its body.  While no fault but a 401 takes away a tab's   *)
(* right to send, a tab that sends is not paused, so between the answer    *)
(* that moves the base of other ops and the next request it reads storage  *)
(* again, behind the calls that rewrite them.                              *)

\* What the server was told or will be: op_ids with the body they were sent with.
Told ==
    {[id |-> r.id, op |-> r.op] : r \in net}
      \cup {[id |-> id, op |-> processed[id].op] : id \in {i \in OpIds : processed[i] # None}}

Untold(id, told) == \A b \in told : b.id # id

\* A rewrite that waits is of an op never sent, and the next read waits behind it.
RewritesOK(s, told) ==
    \A k \in DOMAIN s.chain : s.chain[k].kind = "setOp" =>
       /\ s.pc = "read"
       /\ \E l \in DOMAIN s.chain : k < l /\ s.chain[l].kind = "pump"
       /\ Untold(s.chain[k].id, told)

\* The entry that is being marked as sent has the body it will be sent with.
Marking(s, told, entries) ==
    s.pc = "mark" =>
       /\ Untold(s.cur.id, told)
       /\ \A e \in entries : e.id = s.cur.id => e.op = s.cur.op

\* A tab knows which of its entries were sent, and so does storage.
SentKnown(s, told, entries) ==
    /\ s.pc \in {"mark", "call", "sleep"} =>
          \A e \in ToSet(s.mem) : e.id \in s.sent \/ Untold(e.id, told)
    /\ \A e \in entries :
          e.id \in s.sent => e.sent \/ (s.pc = "mark" /\ s.cur.id = e.id)

SenderOK(s, told, entries) ==
    /\ Sends(s) => ~s.paused
    /\ RewritesOK(s, told)
    /\ Marking(s, told, entries)
    /\ SentKnown(s, told, entries)

\* One body per op_id, the one that is stored.
BodiesOK(told, entries) ==
    /\ \A a, b \in told : a.id = b.id => a = b
    /\ \A e \in entries, b \in told : b.id = e.id => b.op = e.op /\ e.sent

OneSends == \A t, u \in Tabs : Sends(tabs[t]) /\ Sends(tabs[u]) => t = u

BodyInv ==
    /\ OneSends
    /\ BodiesOK(Told, ToSet(disk))
    /\ \A t \in Tabs : SenderOK(tabs[t], Told, ToSet(disk))

LEMMA ToldIs ==
    ASSUME QueueInv
    PROVE  /\ \A b \in Told : b.id \in TouchedIds /\ b.id \in MadeIds
           /\ \A r \in net : [id |-> r.id, op |-> r.op] \in Told
           /\ \A id \in OpIds : processed[id] # None =>
                 [id |-> id, op |-> processed[id].op] \in Told
<1>1. ASSUME NEW r \in net PROVE r.id \in TouchedIds /\ r.id \in MadeIds
  BY DEF QueueInv, Requests, TouchedIds
<1>2. ASSUME NEW id \in OpIds, processed[id] # None
      PROVE  id \in TouchedIds /\ id \in MadeIds
  BY <1>2 DEF QueueInv, LogIsProcessed, TouchedIds, OverIds
<1>3. ASSUME NEW b \in Told PROVE b.id \in TouchedIds /\ b.id \in MadeIds
  <2>1. CASE \E r \in net : b = [id |-> r.id, op |-> r.op]
    BY <1>1, <2>1
  <2>2. CASE \E id \in OpIds : processed[id] # None /\ b = [id |-> id, op |-> processed[id].op]
    BY <1>2, <2>2
  <2> QED BY <2>1, <2>2 DEF Told
<1>4. /\ \A r \in net : [id |-> r.id, op |-> r.op] \in Told
      /\ \A id \in OpIds : processed[id] # None => [id |-> id, op |-> processed[id].op] \in Told
  BY DEF Told
<1> QED BY <1>3, <1>4

LEMMA SenderStays ==
    ASSUME NEW s, NEW told, NEW told2 \in SUBSET told, NEW entries, NEW entries2 \in SUBSET entries,
           SenderOK(s, told, entries)
    PROVE  SenderOK(s, told2, entries2)
BY DEF SenderOK, RewritesOK, Marking, SentKnown, Untold

\* A tab that does not send only has to know what is stored.
LEMMA SenderWaits ==
    ASSUME NEW s, NEW told, NEW entries, SenderOK(s, told, entries), ~Sends(s),
           NEW told2, NEW entries2,
           \A f \in entries2 : f.id \in s.sent =>
              \E e \in entries : e.id = f.id /\ (e.sent => f.sent)
    PROVE  SenderOK(s, told2, entries2)
BY DEF SenderOK, RewritesOK, Marking, SentKnown, Sends

\* The step of one tab, when no op_id is told anew and storage stays.
LEMMA BodyStep ==
    ASSUME QueueInv, BodyInv, NEW t \in Tabs, NEW s, tabs' = [tabs EXCEPT ![t] = s],
           UNCHANGED disk, Told' \subseteq Told,
           SenderOK(s, Told, ToSet(disk)),
           Sends(s) => (Sends(tabs[t]) \/ (\A u \in Tabs \ {t} : ~Sends(tabs[u])))
    PROVE  BodyInv'
<1>1. tabs'[t] = s /\ \A u \in Tabs \ {t} : tabs'[u] = tabs[u]
  BY DEF QueueInv, Shapes
<1>2. OneSends'
  <2>1. \A u, v \in Tabs : Sends(tabs[u]) /\ Sends(tabs[v]) => u = v
    BY DEF BodyInv, OneSends
  <2>2. \A u, v \in Tabs : Sends(tabs'[u]) /\ Sends(tabs'[v]) => u = v
    BY <1>1, <2>1
  <2> QED BY <2>2 DEF OneSends, Sends
<1>3. ToSet(disk') = ToSet(disk)
  OBVIOUS
<1>4. BodiesOK(Told', ToSet(disk'))
  BY <1>3 DEF BodyInv, BodiesOK
<1>5. ASSUME NEW u \in Tabs PROVE SenderOK(tabs'[u], Told', ToSet(disk'))
  <2>1. SenderOK(tabs'[u], Told, ToSet(disk))
    BY <1>1 DEF BodyInv
  <2> QED BY <1>3, <2>1, SenderStays
<1> QED BY <1>2, <1>4, <1>5 DEF BodyInv

\* The first d calls are done, and none of the new ones rewrites an entry.
CallsMoveOn(p, q, d) ==
    /\ d <= Len(q)
    /\ Follows(p, q, d)
    /\ \A k \in DOMAIN p : k > Len(q) - d => p[k].kind # "setOp"

\* The rest of a queue that moves on: it learns only what is true.
MovesOn(s, s0, told, entries) ==
    /\ s.pc = s0.pc \/ (s0.pc = "idle" /\ s.pc = "lock")
    /\ s.cur = s0.cur
    /\ s.paused => s0.paused
    /\ \A e \in entries : e.id \in s.sent => e.id \in s0.sent \/ e.sent
    /\ \A e \in ToSet(s.mem) :
          \/ e \in ToSet(s0.mem) /\ (e.id \in s0.sent => e.id \in s.sent)
          \/ e.id \in s.sent
          \/ Untold(e.id, told)

LEMMA OneCallMovesOn ==
    ASSUME NEW q \in Seq(StorageCall), NEW p \in Seq(StorageCall), NEW d \in {0, 1}, d <= Len(q),
           Follows(p, q, d), Len(p) = Len(q) - d, NEW c \in StorageCall, c.kind # "setOp"
    PROVE  CallsMoveOn(Append(p, c), q, d)
<1>1. /\ Follows(Append(p, c), q, d)
      /\ \A k \in DOMAIN Append(p, c) : k > Len(q) - d => Append(p, c)[k] = c
  BY OneNewCall
<1> QED BY <1>1 DEF CallsMoveOn

LEMMA SenderFollows ==
    ASSUME NEW s0 \in TabRecord, NEW s \in TabRecord, NEW told, NEW entries,
           SenderOK(s0, told, entries),
           NEW d \in {0, 1}, CallsMoveOn(s.chain, s0.chain, d), MovesOn(s, s0, told, entries)
    PROVE  SenderOK(s, told, entries)
<1> DEFINE p == s.chain
           q == s0.chain
<1>1. /\ p \in Seq(StorageCall) /\ DOMAIN p = 1..Len(p) /\ Len(p) \in Nat
      /\ q \in Seq(StorageCall) /\ DOMAIN q = 1..Len(q) /\ Len(q) \in Nat
      /\ d <= Len(q) /\ Follows(p, q, d)
  BY DEF TabRecord, CallsMoveOn
<1>2. Sends(s) => Sends(s0) /\ s.pc = s0.pc
  BY DEF Sends, MovesOn
<1>3. RewritesOK(s, told)
  <2> SUFFICES ASSUME NEW k \in DOMAIN p, p[k].kind = "setOp"
               PROVE  /\ s.pc = "read"
                      /\ \E l \in DOMAIN p : k < l /\ p[l].kind = "pump"
                      /\ Untold(p[k].id, told)
    BY DEF RewritesOK
  <2>1. k \in 1..(Len(q) - d) /\ k + d \in DOMAIN q
    BY <1>1 DEF CallsMoveOn
  <2>2. q[k + d].kind = "setOp" /\ q[k + d].id = p[k].id
    BY <1>1, <2>1 DEF Follows
  <2>3. PICK l \in DOMAIN q : k + d < l /\ q[l].kind = "pump"
    BY <2>1, <2>2 DEF SenderOK, RewritesOK
  <2>4. /\ l - d \in 1..(Len(q) - d) /\ (l - d) + d = l /\ k < l - d
        /\ l - d \in DOMAIN p
    BY <1>1, <2>3 DEF Follows
  <2>5. p[l - d].kind = "pump"
    BY <1>1, <2>3, <2>4 DEF Follows
  <2>6. s0.pc = "read" /\ Untold(q[k + d].id, told)
    BY <2>1, <2>2 DEF SenderOK, RewritesOK
  <2> QED BY <1>2, <2>2, <2>4, <2>5, <2>6 DEF MovesOn
<1>4. Marking(s, told, entries)
  BY DEF SenderOK, Marking, MovesOn
<1>5. SentKnown(s, told, entries)
  BY DEF SenderOK, SentKnown, MovesOn
<1> QED BY <1>2, <1>3, <1>4, <1>5 DEF SenderOK, MovesOn

\* What tells the server nothing new.
LEMMA ToldStays ==
    ASSUME UNCHANGED processed,
           \A r \in net' : \E q \in net : r.id = q.id /\ r.op = q.op
    PROVE  Told' \subseteq Told
BY DEF Told

\* A step of what the page shows, or of its answers.
LEMMA BodyUnmoved ==
    ASSUME QueueInv, BodyInv, NEW t \in Tabs, NEW s, tabs' = [tabs EXCEPT ![t] = s],
           UNCHANGED disk, Told' \subseteq Told,
           s.mem = tabs[t].mem, s.sent = tabs[t].sent, s.chain = tabs[t].chain,
           s.pc \in {tabs[t].pc, "sleep"}, s.pc = "sleep" => tabs[t].pc \in {"call", "sleep"},
           s.cur = tabs[t].cur, s.paused => tabs[t].paused
    PROVE  BodyInv'
<1>1. SenderOK(tabs[t], Told, ToSet(disk))
  BY DEF BodyInv
<1>2. SenderOK(s, Told, ToSet(disk))
  BY <1>1 DEF SenderOK, RewritesOK, Marking, SentKnown, Sends
<1>3. Sends(s) => Sends(tabs[t])
  BY DEF Sends
<1> QED BY <1>2, <1>3, BodyStep

\* A closed tab knows nothing.
LEMMA SenderIdle ==
    ASSUME NEW s, NEW told, NEW entries, s.pc = "idle", s.sent = {},
           \A k \in DOMAIN s.chain : s.chain[k].kind # "setOp"
    PROVE  SenderOK(s, told, entries)
BY DEF SenderOK, RewritesOK, Marking, SentKnown, Sends

LEMMA OpenKeepsBodies ==
    ASSUME QueueInv, BodyInv, NEW t \in Tabs, Open(t)
    PROVE  BodyInv'
<1> DEFINE o == [ClosedTab EXCEPT !.up = TRUE]
           c == ReadFor("init")
           s == Enqueue(o, c)
<1>1. tabs' = [tabs EXCEPT ![t] = s] /\ UNCHANGED <<processed, net, disk>>
  BY DEF Open, serverVars, deviceVars
<1>2. o \in TabRecord /\ o.sent = {} /\ o.chain = <<>> /\ o.pc = "idle"
  BY ClosedTabIs DEF TabRecord
<1>3. c \in StorageCall /\ c.kind = "init"
  BY ReadForIs DEF Reads
<1> HIDE DEF o, c
<1>4. SameButChain(s, o) /\ s.chain = Append(<<>>, c)
  BY <1>2, <1>3, EnqueueIs
<1> HIDE DEF s
<1>5. s.pc = "idle" /\ s.sent = {}
  BY <1>2, <1>4 DEF SameButChain
<1>6. \A k \in DOMAIN s.chain : s.chain[k].kind # "setOp"
  <2>1. \A k \in DOMAIN Append(<<>>, c) : Append(<<>>, c)[k] = c
    OBVIOUS
  <2> QED BY <1>3, <1>4, <2>1
<1>7. SenderOK(s, Told, ToSet(disk)) /\ ~Sends(s)
  BY <1>5, <1>6, SenderIdle DEF Sends
<1>8. Told' \subseteq Told
  BY <1>1, ToldStays
<1> QED BY <1>1, <1>7, <1>8, BodyStep

LEMMA CloseKeepsBodies ==
    ASSUME QueueInv, BodyInv, NEW t \in Tabs, Close(t)
    PROVE  BodyInv'
<1> DEFINE s == ClosedTab
<1>1. /\ tabs' = [tabs EXCEPT ![t] = s]
      /\ net' = {[r EXCEPT !.tab = IF @ = t THEN None ELSE @] : r \in net}
      /\ UNCHANGED <<processed, disk>>
  BY DEF Close, serverVars, deviceVars
<1>2. s.sent = {} /\ s.chain = <<>> /\ s.pc = "idle"
  BY ClosedTabIs
<1> HIDE DEF s
<1>3. SenderOK(s, Told, ToSet(disk)) /\ ~Sends(s)
  BY <1>2, SenderIdle DEF Sends
<1>4. Told' \subseteq Told
  <2>1. net \subseteq [id : OpIds, op : UserOps, tab : Tabs \cup {None}]
    BY DEF QueueInv, Shapes
  <2>2. \A r \in net' : \E q \in net : r.id = q.id /\ r.op = q.op
    BY <1>1, <2>1
  <2> QED BY <1>1, <2>2, ToldStays
<1> QED BY <1>1, <1>3, <1>4, BodyStep

LEMMA FeedKeepsBodies ==
    ASSUME QueueInv, BodyInv, NEW t \in Tabs, AskFeed(t) \/ AnswerFeed(t)
    PROVE  BodyInv'
<1>1. UNCHANGED <<processed, net, disk>>
  BY DEF AskFeed, AnswerFeed, serverVars, deviceVars
<1>2. PICK feed : tabs' = [tabs EXCEPT ![t] = [tabs[t] EXCEPT !.feed = feed]]
  BY DEF AskFeed, AnswerFeed
<1> DEFINE s == [tabs[t] EXCEPT !.feed = feed]
<1>3. /\ s.mem = tabs[t].mem /\ s.sent = tabs[t].sent /\ s.chain = tabs[t].chain
      /\ s.pc = tabs[t].pc /\ s.cur = tabs[t].cur /\ s.paused = tabs[t].paused
  <2>1. tabs[t] \in TabRecord
    BY TabOf
  <2> QED BY <2>1 DEF TabRecord
<1>4. Told' \subseteq Told
  BY <1>1, ToldStays
<1>5. tabs[t] \in TabRecord /\ tabs' = [tabs EXCEPT ![t] = s]
  BY <1>2, TabOf
<1> HIDE DEF s
<1>6. tabs[t].pc # "sleep" \/ tabs[t].pc \in {"call", "sleep"}
  OBVIOUS
<1> QED BY <1>1, <1>3, <1>4, <1>5, <1>6, BodyUnmoved

\* The queue of one tab moves on, storage and the server stay.
LEMMA BodyFollows ==
    ASSUME QueueInv, BodyInv, NEW t \in Tabs, NEW s \in TabRecord, tabs' = [tabs EXCEPT ![t] = s],
           UNCHANGED <<processed, net, disk>>,
           NEW d \in {0, 1}, CallsMoveOn(s.chain, tabs[t].chain, d),
           MovesOn(s, tabs[t], Told, ToSet(disk))
    PROVE  BodyInv'
<1>1. tabs[t] \in TabRecord /\ SenderOK(tabs[t], Told, ToSet(disk))
  BY TabOf DEF BodyInv
<1>2. Sends(s) => Sends(tabs[t])
  BY DEF Sends, MovesOn
<1>3. SenderOK(s, Told, ToSet(disk))
  BY <1>1, SenderFollows
<1>4. Told' \subseteq Told
  BY ToldStays
<1> QED BY <1>2, <1>3, <1>4, BodyStep

LEMMA SendKeepsBodies ==
    ASSUME QueueInv, BodyInv, NEW t \in Tabs, Send(t)
    PROVE  BodyInv'
<1> DEFINE s0 == tabs[t]
<1>1. PICK id \in {i \in OpIds : seen[i] = None}, op \in OpsOnShown(s0) :
         tabs' = [tabs EXCEPT ![t] =
               Pump(Show(Enqueue(Mutated([s0 EXCEPT !.mem = Append(@, Entry(id, op))]),
                                 Call("add", id, op)), Entry(id, op)))]
  BY DEF Send
<1>2. s0.copy.row # None /\ UNCHANGED <<processed, net, disk>>
  BY DEF Send, serverVars, deviceVars
<1>3. s0 \in TabRecord /\ s0.chain \in Seq(StorageCall) /\ Len(s0.chain) \in Nat
  BY TabOf
<1>4. op \in UserOps /\ id \in OpIds
  BY <1>2, <1>3, OpsOnShownAre
<1> DEFINE e == Entry(id, op)
           c == Call("add", id, op)
           a == [s0 EXCEPT !.mem = Append(@, e)]
           m == Mutated(a)
           n == Enqueue(m, c)
           w == Show(n, e)
           s == Pump(w)
<1>5. e \in Stored /\ e.id = id /\ c \in StorageCall /\ c.kind = "add"
  BY <1>4, CallIs DEF Entry, Stored
<1>6. tabs' = [tabs EXCEPT ![t] = s]
  BY <1>1
<1> HIDE DEF e, c
<1>7. /\ a \in TabRecord /\ ToSet(a.mem) = ToSet(s0.mem) \cup {e}
      /\ a.sent = s0.sent /\ a.chain = s0.chain /\ a.pc = s0.pc /\ a.cur = s0.cur
      /\ a.paused = s0.paused
  <2>1. s0.mem \in Seq(Stored)
    BY <1>3 DEF TabRecord
  <2>2. Append(s0.mem, e) \in Seq(Stored) /\ ToSet(Append(s0.mem, e)) = ToSet(s0.mem) \cup {e}
    BY <1>5, <2>1, AppendProperties, AppendElements
  <2>3. /\ a \in TabRecord /\ a.mem = Append(s0.mem, e)
        /\ a.sent = s0.sent /\ a.chain = s0.chain /\ a.pc = s0.pc /\ a.cur = s0.cur
        /\ a.paused = s0.paused
    BY <1>3, <2>2 DEF TabRecord
  <2> QED BY <2>2, <2>3
<1> HIDE DEF a
<1>8. SameButChain(m, a) /\ Follows(m.chain, s0.chain, 0) /\ Len(m.chain) = Len(s0.chain)
  BY <1>7, MutatedIs
<1> HIDE DEF m
<1>9. m \in TabRecord /\ m.chain \in Seq(StorageCall)
  BY <1>8 DEF SameButChain, TabRecord
<1>10. SameButChain(n, m) /\ n.chain = Append(m.chain, c) /\ n \in TabRecord
  BY <1>5, <1>9, EnqueueIs DEF SameButChain
<1> HIDE DEF n
<1>11. SameQueue(w, n) /\ w \in TabRecord
  BY <1>5, <1>10, ShowIs DEF SameQueue
<1> HIDE DEF w
<1>12. /\ s \in TabRecord
       /\ s.mem = w.mem /\ s.sent = w.sent /\ s.cur = w.cur /\ s.paused = w.paused
       /\ s.chain = w.chain /\ s.pc = IF w.pc = "idle" THEN "lock" ELSE w.pc
  BY <1>11, PumpIs
<1> HIDE DEF s
<1>13. /\ ToSet(s.mem) = ToSet(s0.mem) \cup {e} /\ s.sent = s0.sent
       /\ s.cur = s0.cur /\ s.paused = s0.paused /\ s.chain = Append(m.chain, c)
       /\ s.pc = IF s0.pc = "idle" THEN "lock" ELSE s0.pc
  BY <1>7, <1>8, <1>10, <1>11, <1>12 DEF SameButChain, SameQueue
<1>14. Untold(id, Told)
  <2>1. id \notin MadeIds
    BY DEF MadeIds
  <2> QED BY <2>1, ToldIs DEF Untold
<1>15. MovesOn(s, s0, Told, ToSet(disk))
  BY <1>5, <1>13, <1>14 DEF MovesOn
<1>16. 0 <= Len(s0.chain) /\ Len(m.chain) = Len(s0.chain) - 0
  BY <1>3, <1>8
<1>17. CallsMoveOn(s.chain, s0.chain, 0)
  <2>1. c.kind # "setOp" /\ c \in StorageCall
    BY <1>5
  <2>2. CallsMoveOn(Append(m.chain, c), s0.chain, 0)
    BY <1>3, <1>8, <1>9, <1>16, <2>1, OneCallMovesOn
  <2> QED BY <1>13, <2>2
<1> HIDE DEF s0
<1> QED BY <1>2, <1>6, <1>12, <1>15, <1>17, BodyFollows DEF s0

LEMMA DiscardKeepsBodies ==
    ASSUME QueueInv, BodyInv, NEW t \in Tabs, Discard(t)
    PROVE  BodyInv'
<1> DEFINE s0 == tabs[t]
<1>1. PICK id \in Ids(s0.mem) :
         /\ ~(s0.pc \in {"mark", "call"} /\ s0.cur.id = id)
         /\ tabs' = [tabs EXCEPT ![t] = Pump(Drop(RemoveEntry(s0, id), id))]
  BY DEF Discard
<1>2. UNCHANGED <<processed, net, disk>>
  BY DEF Discard, serverVars, deviceVars
<1>3. /\ s0 \in TabRecord /\ s0.chain \in Seq(StorageCall) /\ Len(s0.chain) \in Nat
      /\ TabOK(s0, MadeIds, OverIds, FrontIds)
  BY TabOf
<1>4. id \in OpIds
  BY <1>3 DEF TabOK, EntriesOK, MadeIds
<1> DEFINE c == Call("remove", id, None)
           g == RemoveEntry(s0, id)
           w == Drop(g, id)
           s == Pump(w)
<1>5. c \in StorageCall /\ c.kind = "remove"
  BY <1>4, CallIs
<1>6. tabs' = [tabs EXCEPT ![t] = s]
  BY <1>1
<1>7. /\ g \in TabRecord
      /\ g.pc = s0.pc /\ g.cur = s0.cur /\ g.paused = s0.paused
      /\ g.sent = s0.sent \ {id}
      /\ ToSet(g.mem) = {e \in ToSet(s0.mem) : e.id # id}
      /\ Follows(g.chain, s0.chain, 0)
      /\ Len(g.chain) = Len(s0.chain) + 1
      /\ g.chain[Len(s0.chain) + 1] = c
  BY <1>3, <1>4, RemoveEntryIs
<1> HIDE DEF c, g
<1>8. SameQueue(w, g) /\ w \in TabRecord
  BY <1>7, DropIs DEF SameQueue
<1> HIDE DEF w
<1>9. /\ s \in TabRecord
      /\ s.mem = w.mem /\ s.sent = w.sent /\ s.cur = w.cur /\ s.paused = w.paused
      /\ s.chain = w.chain /\ s.pc = IF w.pc = "idle" THEN "lock" ELSE w.pc
  BY <1>8, PumpIs
<1> HIDE DEF s
<1>10. /\ ToSet(s.mem) = {e \in ToSet(s0.mem) : e.id # id} /\ s.sent = s0.sent \ {id}
       /\ s.cur = s0.cur /\ s.paused = s0.paused /\ s.chain = g.chain
       /\ s.pc = IF s0.pc = "idle" THEN "lock" ELSE s0.pc
  BY <1>7, <1>8, <1>9 DEF SameQueue
<1>11. \A k \in DOMAIN s.chain : k > Len(s0.chain) - 0 => s.chain[k].kind # "setOp"
  <2>1. s.chain \in Seq(StorageCall) /\ DOMAIN s.chain = 1..(Len(s0.chain) + 1)
    BY <1>7, <1>9, <1>10 DEF TabRecord
  <2>2. \A k \in DOMAIN s.chain : k > Len(s0.chain) - 0 => k = Len(s0.chain) + 1
    BY <1>3, <2>1
  <2> QED BY <1>5, <1>7, <1>10, <2>2
<1>12. CallsMoveOn(s.chain, s0.chain, 0)
  BY <1>3, <1>7, <1>10, <1>11 DEF CallsMoveOn
<1>13. MovesOn(s, s0, Told, ToSet(disk))
  BY <1>10 DEF MovesOn
<1> HIDE DEF s0
<1> QED BY <1>2, <1>6, <1>9, <1>12, <1>13, BodyFollows DEF s0

LEMMA TakeFeedKeepsBodies ==
    ASSUME QueueInv, BodyInv, NEW t \in Tabs, TakeFeed(t)
    PROVE  BodyInv'
<1> DEFINE s0       == tabs[t]
           pending  == Picked(s0.pending, {k \in DOMAIN s0.pending :
                          \/ s0.pending[k].appliedSeq = None
                          \/ s0.pending[k].appliedSeq > s0.feed.seq})
           answered == IF s0.answered # None /\ s0.answered.seq > s0.feed.seq
                       THEN s0.answered ELSE None
           later    == [s0 EXCEPT !.feed = None]
           fresh    == [later EXCEPT !.copy = s0.feed, !.pending = pending, !.answered = answered]
           Quiet(s) == /\ s \in TabRecord
                       /\ s.mem = s0.mem /\ s.sent = s0.sent /\ s.chain = s0.chain
                       /\ s.pc = s0.pc /\ s.cur = s0.cur /\ s.paused = s0.paused
<1>1. /\ s0.feed \notin {None, Asked}
      /\ UNCHANGED <<processed, net, disk>>
      /\ \/ tabs' = [tabs EXCEPT ![t] = later]
         \/ tabs' = [tabs EXCEPT ![t] = fresh]
         \/ tabs' = [tabs EXCEPT ![t] = Enqueue(fresh, ReadFor("load"))]
  BY DEF TakeFeed, serverVars
<1>2. s0 \in TabRecord /\ s0.chain \in Seq(StorageCall) /\ Len(s0.chain) \in Nat
  BY TabOf
<1>3. s0.feed \in Copy /\ s0.pending \in Seq(Projection)
  BY <1>1, <1>2 DEF TabRecord
<1>4. pending \in Seq(Projection)
  BY <1>3, PickedAreThere
<1>5. answered \in [cseq : Nat, seq : Nat] \cup {None}
  BY <1>2 DEF TabRecord
<1> HIDE DEF pending, answered
<1>6. Quiet(later)
  BY <1>2 DEF TabRecord
<1>7. Quiet(fresh)
  BY <1>3, <1>4, <1>5, <1>6 DEF TabRecord
<1> HIDE DEF later, fresh
<1>8. ASSUME NEW s, Quiet(s), tabs' = [tabs EXCEPT ![t] = s]
      PROVE  BodyInv'
  <2>1. Told' \subseteq Told
    BY <1>1, ToldStays
  <2> QED BY <1>1, <1>8, <2>1, BodyUnmoved
<1>9. ASSUME tabs' = [tabs EXCEPT ![t] = Enqueue(fresh, ReadFor("load"))]
      PROVE  BodyInv'
  <2> DEFINE c == ReadFor("load")
             s == Enqueue(fresh, c)
  <2>1. c \in StorageCall /\ c.kind = "load" /\ tabs' = [tabs EXCEPT ![t] = s]
    BY <1>9, ReadForIs DEF Reads
  <2> HIDE DEF c
  <2>2. SameButChain(s, fresh) /\ s.chain = Append(s0.chain, c)
    BY <1>7, <2>1, EnqueueIs
  <2> HIDE DEF s
  <2>3. /\ s \in TabRecord
        /\ s.mem = s0.mem /\ s.sent = s0.sent /\ s.pc = s0.pc /\ s.cur = s0.cur
        /\ s.paused = s0.paused
    BY <1>7, <2>2 DEF SameButChain
  <2>4. MovesOn(s, s0, Told, ToSet(disk))
    BY <2>3 DEF MovesOn
  <2>5. CallsMoveOn(s.chain, s0.chain, 0)
    <3>1. /\ Follows(s0.chain, s0.chain, 0) /\ 0 <= Len(s0.chain)
          /\ Len(s0.chain) = Len(s0.chain) - 0
      BY <1>2 DEF Follows
    <3>2. c.kind # "setOp" /\ c \in StorageCall
      BY <2>1
    <3>3. CallsMoveOn(Append(s0.chain, c), s0.chain, 0)
      BY <1>2, <3>1, <3>2, OneCallMovesOn
    <3> QED BY <2>2, <3>3
  <2> HIDE DEF s0
  <2> QED BY <1>1, <2>1, <2>3, <2>4, <2>5, BodyFollows DEF s0
<1> HIDE DEF Quiet
<1> QED BY <1>1, <1>6, <1>7, <1>8, <1>9

\* The top of the loop: what rewrites entries is in front of the next read.
LEMMA BodyRound ==
    ASSUME QueueInv, BodyInv, NEW t \in Tabs, NEW g \in TabRecord,
           tabs' = [tabs EXCEPT ![t] = NextRound(g)], UNCHANGED disk, Told' \subseteq Told,
           tabs[t].pc \in {"lock", "call", "sleep"},
           tabs[t].pc = "lock" => \A u \in Tabs : ~Sends(tabs[u]),
           g.sent \subseteq tabs[t].sent, Follows(g.chain, tabs[t].chain, 0),
           \A k \in DOMAIN g.chain : k > Len(tabs[t].chain) /\ g.chain[k].kind = "setOp" =>
              ~g.paused /\ Untold(g.chain[k].id, Told)
    PROVE  BodyInv'
<1> DEFINE s0 == tabs[t]
           s  == NextRound(g)
           n  == ReadFor("pump")
<1>1. /\ s0 \in TabRecord /\ s0.chain \in Seq(StorageCall) /\ Len(s0.chain) \in Nat
      /\ DOMAIN s0.chain = 1..Len(s0.chain)
      /\ SenderOK(s0, Told, ToSet(disk))
  BY TabOf DEF BodyInv
<1>2. g.chain \in Seq(StorageCall) /\ Len(g.chain) \in Nat /\ DOMAIN g.chain = 1..Len(g.chain)
  BY DEF TabRecord
<1>3. /\ s.sent = g.sent /\ s.paused = g.paused
      /\ g.paused => s.pc = "idle" /\ s.chain = g.chain
      /\ ~g.paused => s.pc = "read" /\ s.chain = Append(g.chain, n)
  BY NextRoundIs
<1>4. n \in StorageCall /\ n.kind = "pump"
  BY ReadForIs DEF Reads
<1> HIDE DEF s, n
<1>5. ASSUME NEW k \in DOMAIN g.chain, g.chain[k].kind = "setOp"
      PROVE  ~g.paused /\ Untold(g.chain[k].id, Told)
  <2>1. CASE k > Len(s0.chain)
    BY <1>5, <2>1
  <2>2. CASE ~(k > Len(s0.chain))
    <3>1. k \in 1..(Len(s0.chain) - 0) /\ k + 0 = k /\ k \in DOMAIN s0.chain
      BY <1>1, <1>2, <2>2
    <3>2. s0.chain[k].kind = "setOp"
      BY <1>5, <3>1 DEF Follows
    <3> QED BY <1>1, <3>1, <3>2 DEF SenderOK, RewritesOK
  <2> QED BY <2>1, <2>2
<1>6. RewritesOK(s, Told)
  <2>1. CASE g.paused
    BY <1>3, <1>5, <2>1 DEF RewritesOK
  <2>2. CASE ~g.paused
    <3> DEFINE p == Append(g.chain, n)
    <3>1. /\ \A k \in 1..Len(g.chain) : p[k] = g.chain[k]
          /\ p[Len(g.chain) + 1] = n
          /\ p \in Seq(StorageCall) /\ Len(p) = Len(g.chain) + 1
      BY <1>2, <1>4, AppendProperties
    <3>2. s.chain = p /\ s.pc = "read"
      BY <1>3, <2>2
    <3> HIDE DEF p
    <3>3. DOMAIN p = 1..(Len(g.chain) + 1)
      BY <3>1
    <3> SUFFICES ASSUME NEW k \in DOMAIN p, p[k].kind = "setOp"
                 PROVE  /\ \E l \in DOMAIN p : k < l /\ p[l].kind = "pump"
                        /\ Untold(p[k].id, Told)
      BY <3>2 DEF RewritesOK
    <3>4. k \in DOMAIN g.chain /\ p[k] = g.chain[k] /\ k < Len(g.chain) + 1
      BY <1>2, <1>4, <3>1, <3>3
    <3>5. Len(g.chain) + 1 \in DOMAIN p /\ p[Len(g.chain) + 1].kind = "pump"
      BY <1>2, <1>4, <3>1, <3>3
    <3> QED BY <1>5, <3>4, <3>5
  <2> QED BY <2>1, <2>2
<1>7. s.pc \in {"idle", "read"} /\ (Sends(s) => ~s.paused)
  BY <1>3 DEF Sends
<1>8. Marking(s, Told, ToSet(disk))
  BY <1>7 DEF Marking
<1>9. SentKnown(s, Told, ToSet(disk))
  BY <1>1, <1>3, <1>7 DEF SentKnown, SenderOK
<1>10. SenderOK(s, Told, ToSet(disk))
  BY <1>6, <1>7, <1>8, <1>9 DEF SenderOK
<1>11. tabs[t].pc # "lock" => Sends(tabs[t])
  BY DEF Sends
<1>12. tabs' = [tabs EXCEPT ![t] = s]
  BY DEF s
<1> HIDE DEF s0
<1> QED BY <1>10, <1>11, <1>12, BodyStep

LEMMA TakeLockKeepsBodies ==
    ASSUME QueueInv, BodyInv, NEW t \in Tabs, TakeLock(t) \/ Wake(t)
    PROVE  BodyInv'
<1>1. /\ tabs[t].pc \in {"lock", "sleep"}
      /\ tabs[t].pc = "lock" => \A u \in Tabs : ~Sends(tabs[u])
      /\ tabs' = [tabs EXCEPT ![t] = NextRound(tabs[t])]
      /\ UNCHANGED <<processed, net, disk>>
  BY DEF TakeLock, Wake, serverVars, deviceVars
<1>2. tabs[t] \in TabRecord /\ tabs[t].chain \in Seq(StorageCall) /\ Len(tabs[t].chain) \in Nat
  BY TabOf
<1>3. Told' \subseteq Told
  BY <1>1, ToldStays
<1>4. /\ Follows(tabs[t].chain, tabs[t].chain, 0)
      /\ \A k \in DOMAIN tabs[t].chain : ~(k > Len(tabs[t].chain))
  BY <1>2 DEF Follows
<1> QED BY <1>1, <1>2, <1>3, <1>4, BodyRound

LEMMA SettleKeepsBodies ==
    ASSUME QueueInv, BodyInv, NEW t \in Tabs, Settle(t)
    PROVE  BodyInv'
<1> DEFINE s0     == tabs[t]
           id     == s0.cur.id
           answer == s0.reply
           gone   == RemoveEntry(s0, id)
           told   == IF ~s0.current THEN gone ELSE OpSettled(gone, id, answer)
           ids    == Rebased(gone, s0.cur.op, answer)
           g      == ApplyRewrites(told, ids, answer.cseq)
<1>1. /\ s0.pc = "call" /\ answer # None
      /\ tabs' = [tabs EXCEPT ![t] = NextRound(g)]
      /\ UNCHANGED <<processed, net, disk>>
  BY DEF Settle, serverVars, deviceVars
<1>2. /\ s0 \in TabRecord /\ s0.chain \in Seq(StorageCall) /\ Len(s0.chain) \in Nat
      /\ SenderOK(s0, Told, ToSet(disk))
  BY TabOf DEF BodyInv
<1>3. id \in OpIds /\ answer \in Answer /\ answer.cseq \in Nat
  BY <1>1, CurIs DEF Answer
<1>4. ids \subseteq {e.id : e \in {f \in ToSet(gone.mem) : f.id \notin gone.sent}}
  BY DEF Rebased
<1>5. /\ gone \in TabRecord
      /\ gone.sent = s0.sent \ {id} /\ gone.paused = s0.paused
      /\ ToSet(gone.mem) = {e \in ToSet(s0.mem) : e.id # id}
      /\ Follows(gone.chain, s0.chain, 0)
      /\ Len(gone.chain) = Len(s0.chain) + 1
      /\ gone.chain[Len(s0.chain) + 1] = Call("remove", id, None)
  BY <1>2, <1>3, RemoveEntryIs
<1> HIDE DEF gone, id, answer, ids
<1>6. \A i \in ids : Untold(i, Told)
  <2>1. \A e \in ToSet(s0.mem) : e.id \in s0.sent \/ Untold(e.id, Told)
    BY <1>1, <1>2 DEF SenderOK, SentKnown
  <2> QED BY <1>4, <1>5, <2>1
<1>7. /\ told \in TabRecord
      /\ told.sent = gone.sent /\ told.paused = gone.paused /\ told.chain = gone.chain
  BY <1>3, <1>5, OpSettledIs DEF SameQueue
<1> HIDE DEF told
<1>8. /\ g \in TabRecord /\ g.sent = told.sent /\ g.paused = told.paused
      /\ Follows(g.chain, told.chain, 0)
      /\ \A k \in DOMAIN g.chain : k > Len(told.chain) =>
            g.chain[k].kind = "setOp" /\ g.chain[k].id \in ids
  BY <1>3, <1>7, ApplyRewritesIs
<1> HIDE DEF g
<1>9. /\ gone.chain \in Seq(StorageCall) /\ g.chain \in Seq(StorageCall)
      /\ DOMAIN g.chain = 1..Len(g.chain) /\ Len(g.chain) \in Nat
  BY <1>5, <1>8 DEF TabRecord
<1>10. Follows(g.chain, s0.chain, 0)
  BY <1>2, <1>5, <1>7, <1>8, <1>9, FollowsAgain
<1>11. ~g.paused
  BY <1>1, <1>2, <1>5, <1>7, <1>8 DEF SenderOK, Sends
<1>12. \A k \in DOMAIN g.chain : k > Len(s0.chain) /\ g.chain[k].kind = "setOp" =>
          Untold(g.chain[k].id, Told)
  <2> SUFFICES ASSUME NEW k \in DOMAIN g.chain, k > Len(s0.chain), g.chain[k].kind = "setOp"
               PROVE  g.chain[k].id \in ids
    BY <1>6
  <2>1. CASE k = Len(s0.chain) + 1
    <3>1. k \in 1..(Len(gone.chain) - 0) /\ k + 0 = k
      BY <1>2, <1>5, <2>1
    <3>2. g.chain[k].kind = gone.chain[k].kind
      BY <1>7, <1>8, <3>1 DEF Follows
    <3>3. gone.chain[k].kind = "remove"
      BY <1>5, <2>1, CallIs
    <3> QED BY <3>2, <3>3
  <2>2. CASE k # Len(s0.chain) + 1
    BY <1>2, <1>5, <1>7, <1>8, <1>9, <2>2
  <2> QED BY <2>1, <2>2
<1>13. Told' \subseteq Told
  BY <1>1, ToldStays
<1>14. g.sent \subseteq s0.sent /\ s0.pc \in {"lock", "call", "sleep"} /\ s0.pc # "lock"
  BY <1>1, <1>5, <1>7, <1>8
<1> HIDE DEF s0
<1> QED BY <1>1, <1>8, <1>10, <1>11, <1>12, <1>13, <1>14, BodyRound DEF s0

LEMMA FailKeepsBodies ==
    ASSUME QueueInv, BodyInv, NEW t \in Tabs, Fail(t)
    PROVE  BodyInv'
<1> DEFINE s0   == tabs[t]
           id   == s0.cur.id
           gone == RemoveEntry(s0, id)
           d    == Drop(gone, id)
           told == [d EXCEPT !.sending = None]
           g    == IF s0.current THEN told ELSE gone
<1>1. /\ s0.pc = "call"
      /\ tabs' = [tabs EXCEPT ![t] = NextRound(g)]
      /\ UNCHANGED <<processed, net, disk>>
  BY DEF Fail, serverVars, deviceVars
<1>2. s0 \in TabRecord /\ s0.chain \in Seq(StorageCall) /\ Len(s0.chain) \in Nat
  BY TabOf
<1>3. id \in OpIds
  BY <1>1, CurIs
<1>4. /\ gone \in TabRecord
      /\ gone.sent = s0.sent \ {id}
      /\ Follows(gone.chain, s0.chain, 0)
      /\ Len(gone.chain) = Len(s0.chain) + 1
      /\ gone.chain[Len(s0.chain) + 1] = Call("remove", id, None)
  BY <1>2, <1>3, RemoveEntryIs
<1> HIDE DEF gone, id
<1>5. SameQueue(d, gone)
  BY <1>4, DropIs
<1> HIDE DEF d
<1>6. told \in TabRecord /\ told.sent = gone.sent /\ told.chain = gone.chain
  BY <1>5 DEF SameQueue, TabRecord
<1> HIDE DEF told
<1>7. g \in TabRecord /\ g.sent = gone.sent /\ g.chain = gone.chain
  BY <1>4, <1>6
<1> HIDE DEF g
<1>8. g.chain \in Seq(StorageCall) /\ DOMAIN g.chain = 1..(Len(s0.chain) + 1)
  BY <1>4, <1>7 DEF TabRecord
<1>9. \A k \in DOMAIN g.chain : k > Len(s0.chain) => g.chain[k].kind # "setOp"
  <2>1. \A k \in DOMAIN g.chain : k > Len(s0.chain) => k = Len(s0.chain) + 1
    BY <1>2, <1>8
  <2> QED BY <1>4, <1>7, <2>1, CallIs
<1>10. Told' \subseteq Told
  BY <1>1, ToldStays
<1>11. /\ g.sent \subseteq s0.sent /\ s0.pc \in {"lock", "call", "sleep"} /\ s0.pc # "lock"
       /\ Follows(g.chain, s0.chain, 0)
  BY <1>1, <1>4, <1>7
<1> HIDE DEF s0
<1> QED BY <1>1, <1>7, <1>9, <1>10, <1>11, BodyRound DEF s0

LEMMA NoAnswerKeepsBodies ==
    ASSUME QueueInv, BodyInv, NEW t \in Tabs, NoAnswer(t)
    PROVE  BodyInv'
<1> DEFINE s0 == tabs[t]
           u  == Uncertain(s0, s0.cur.id)
           a  == IF s0.current THEN [u EXCEPT !.sending = None] ELSE s0
           s  == [a EXCEPT !.pc = "sleep", !.reply = None]
<1>1. /\ s0.pc = "call" /\ tabs' = [tabs EXCEPT ![t] = s]
      /\ \/ net' = {r \in net : r.tab # t}
         \/ net' = {[r EXCEPT !.tab = IF @ = t THEN None ELSE @] : r \in net}
      /\ UNCHANGED <<processed, disk>>
  BY DEF NoAnswer, serverVars, deviceVars
<1>2. s0 \in TabRecord
  BY TabOf
<1>3. SameQueue(u, s0)
  BY <1>2, UncertainIs
<1> HIDE DEF u
<1>4. SameQueue(a, s0)
  <2>1. CASE s0.current
    <3>1. a = [u EXCEPT !.sending = None]
      BY <2>1
    <3> QED BY <1>3, <3>1 DEF SameQueue, TabRecord
  <2>2. CASE ~s0.current
    <3>1. a = s0
      BY <2>2
    <3> QED BY <1>2, <3>1 DEF SameQueue
  <2> QED BY <2>1, <2>2
<1> HIDE DEF a
<1>5. /\ s.mem = s0.mem /\ s.sent = s0.sent /\ s.chain = s0.chain
      /\ s.cur = s0.cur /\ s.pc = "sleep" /\ s.paused = s0.paused
  BY <1>4 DEF SameQueue, TabRecord
<1> HIDE DEF s
<1>6. Told' \subseteq Told
  <2>1. net \subseteq [id : OpIds, op : UserOps, tab : Tabs \cup {None}]
    BY DEF QueueInv, Shapes
  <2>2. \A r \in net' : \E q \in net : r.id = q.id /\ r.op = q.op
    BY <1>1, <2>1
  <2> QED BY <1>1, <2>2, ToldStays
<1> HIDE DEF s0
<1> QED BY <1>1, <1>5, <1>6, BodyUnmoved DEF s0

LEMMA UnauthorizedKeepsBodies ==
    ASSUME QueueInv, BodyInv, NEW t \in Tabs, Unauthorized(t)
    PROVE  BodyInv'
<1> DEFINE s0 == tabs[t]
           a  == [s0 EXCEPT !.paused = TRUE]
           g  == Clear(a)
<1>1. /\ s0.pc = "call" /\ tabs' = [tabs EXCEPT ![t] = NextRound(g)]
      /\ net' = {r \in net : r.tab # t}
      /\ UNCHANGED <<processed, disk>>
  BY DEF Unauthorized, serverVars
<1>2. s0 \in TabRecord /\ s0.chain \in Seq(StorageCall) /\ Len(s0.chain) \in Nat
  BY TabOf
<1>3. a \in TabRecord /\ a.sent = s0.sent /\ a.chain = s0.chain
  BY <1>2 DEF TabRecord
<1> HIDE DEF a
<1>4. g \in TabRecord /\ g.sent = s0.sent /\ g.chain = s0.chain
  BY <1>3, ClearIs DEF SameQueue
<1> HIDE DEF g
<1>5. /\ Follows(g.chain, s0.chain, 0) /\ g.sent \subseteq s0.sent
      /\ \A k \in DOMAIN g.chain : ~(k > Len(s0.chain))
  BY <1>2, <1>4, FollowsItself
<1>6. Told' \subseteq Told
  BY <1>1, ToldStays
<1>7. s0.pc \in {"lock", "call", "sleep"} /\ s0.pc # "lock"
  BY <1>1
<1> HIDE DEF s0
<1> QED BY <1>1, <1>4, <1>5, <1>6, <1>7, BodyRound DEF s0

LEMMA ReadAgainKeepsBodies ==
    ASSUME QueueInv, BodyInv, NEW t \in Tabs, ReadEntries(t), ~Head(tabs[t].chain).clean
    PROVE  BodyInv'
<1> DEFINE s0 == tabs[t]
           c  == Head(s0.chain)
           n  == ReadFor(c.kind)
           r  == [s0 EXCEPT !.chain = Tail(s0.chain)]
           s  == Enqueue(r, n)
<1>1. /\ s0.chain # <<>> /\ c.kind \in Reads
      /\ tabs' = [tabs EXCEPT ![t] = s]
      /\ UNCHANGED <<processed, net, disk>>
  BY DEF ReadEntries, serverVars, deviceVars
<1>2. s0 \in TabRecord /\ s0.chain \in Seq(StorageCall) /\ Len(s0.chain) \in Nat
  BY TabOf
<1>3. /\ Follows(Tail(s0.chain), s0.chain, 1)
      /\ Tail(s0.chain) \in Seq(StorageCall)
      /\ Len(Tail(s0.chain)) = Len(s0.chain) - 1 /\ 1 <= Len(s0.chain)
  BY <1>1, <1>2, TailFollows
<1>4. n \in StorageCall /\ n.kind # "setOp"
  BY <1>1, ReadForIs DEF Reads
<1>5. /\ r \in TabRecord /\ r.chain = Tail(s0.chain)
      /\ r.mem = s0.mem /\ r.sent = s0.sent /\ r.pc = s0.pc /\ r.cur = s0.cur
      /\ r.paused = s0.paused
  BY <1>2, <1>3 DEF TabRecord
<1> HIDE DEF c, n, r
<1>6. /\ s \in TabRecord /\ s.chain = Append(Tail(s0.chain), n)
      /\ s.mem = s0.mem /\ s.sent = s0.sent /\ s.pc = s0.pc /\ s.cur = s0.cur
      /\ s.paused = s0.paused
  <2>1. SameButChain(s, r) /\ s.chain = Append(r.chain, n)
    BY <1>4, <1>5, EnqueueIs
  <2> HIDE DEF s
  <2> QED BY <1>5, <2>1 DEF SameButChain
<1> HIDE DEF s
<1>7. CallsMoveOn(s.chain, s0.chain, 1)
  <2>1. CallsMoveOn(Append(Tail(s0.chain), n), s0.chain, 1)
    BY <1>2, <1>3, <1>4, OneCallMovesOn
  <2> QED BY <1>6, <2>1
<1>8. MovesOn(s, s0, Told, ToSet(disk))
  BY <1>6 DEF MovesOn
<1> HIDE DEF s0
<1> QED BY <1>1, <1>6, <1>7, <1>8, BodyFollows DEF s0

\* What a tab that has read the entries knows of them.
LEMMA ReadSentIs ==
    ASSUME QueueInv, BodyInv, NEW t \in Tabs, tabs[t].chain # <<>>
    PROVE  LET l == Loaded([tabs[t] EXCEPT !.chain = Tail(@)])
           IN  /\ \A e \in ToSet(disk) : e.id \in l.sent \/ Untold(e.id, Told)
               /\ \A e \in ToSet(disk) : e.sent => e.id \in l.sent
               /\ \A e \in ToSet(disk) : e.id \in l.sent => e.id \in tabs[t].sent \/ e.sent
<1> DEFINE r == [tabs[t] EXCEPT !.chain = Tail(@)]
<1>1. /\ tabs[t] \in TabRecord /\ tabs[t].chain \in Seq(StorageCall)
      /\ disk \in Seq(Stored)
  BY TabOf DEF QueueInv, Shapes
<1>2. Tail(tabs[t].chain) \in Seq(StorageCall)
  BY <1>1, TailFollows
<1>3. r \in TabRecord /\ r.sent = tabs[t].sent
  BY <1>1, <1>2 DEF TabRecord
<1> HIDE DEF r
<1>4. Loaded(r).sent = tabs[t].sent \cup {e.id : e \in {f \in ToSet(disk) : f.sent}}
  BY <1>1, <1>3, LoadedIs
<1>5. \A e \in ToSet(disk) : e.sent => e.id \in Loaded(r).sent
  BY <1>4
<1>6. \A e \in ToSet(disk) : e.sent \/ Untold(e.id, Told)
  BY DEF BodyInv, BodiesOK, Untold
<1>7. ASSUME NEW e \in ToSet(disk), e.id \in Loaded(r).sent
      PROVE  e.id \in tabs[t].sent \/ e.sent
  <2>1. CASE e.id \in tabs[t].sent
    BY <2>1
  <2>2. CASE \E f \in ToSet(disk) : f.sent /\ f.id = e.id
    <3>1. PICK f \in ToSet(disk) : f.sent /\ f.id = e.id
      BY <2>2
    <3>2. f = e
      BY <1>1, <3>1, ElementsOf DEF QueueInv, EntriesDiffer
    <3> QED BY <3>1, <3>2
  <2> QED BY <1>4, <1>7, <2>1, <2>2
<1>8. \A e \in ToSet(disk) : e.id \in Loaded(r).sent \/ Untold(e.id, Told)
  BY <1>5, <1>6
<1> QED BY <1>5, <1>7, <1>8 DEF r

LEMMA ReadToShowKeepsBodies ==
    ASSUME QueueInv, BodyInv, NEW t \in Tabs, ReadEntries(t), Head(tabs[t].chain).clean,
           Head(tabs[t].chain).kind # "pump"
    PROVE  BodyInv'
<1> DEFINE s0 == tabs[t]
           c  == Head(s0.chain)
           l  == Loaded([s0 EXCEPT !.chain = Tail(@)])
           w  == ShowAll(l, disk)
           a  == [w EXCEPT !.copy = saved]
           b  == [w EXCEPT !.paused = FALSE]
<1>1. /\ s0.chain # <<>>
      /\ tabs' = [tabs EXCEPT ![t] = a] \/ tabs' = [tabs EXCEPT ![t] = Pump(b)]
      /\ UNCHANGED <<processed, net, disk>>
  BY DEF ReadEntries, AfterRead, Reads, serverVars, deviceVars
<1>2. s0 \in TabRecord /\ s0.chain \in Seq(StorageCall) /\ Len(s0.chain) \in Nat
  BY TabOf
<1>3. /\ l \in TabRecord
      /\ l.pc = s0.pc /\ l.cur = s0.cur /\ l.paused = s0.paused
      /\ l.chain = Tail(s0.chain) /\ l.mem = disk
      /\ Follows(Tail(s0.chain), s0.chain, 1) /\ Tail(s0.chain) \in Seq(StorageCall)
      /\ Len(Tail(s0.chain)) = Len(s0.chain) - 1 /\ 1 <= Len(s0.chain)
  BY <1>1, ReadIs
<1>4. /\ \A e \in ToSet(disk) : e.id \in l.sent \/ Untold(e.id, Told)
      /\ \A e \in ToSet(disk) : e.id \in l.sent => e.id \in s0.sent \/ e.sent
  BY <1>1, ReadSentIs
<1> HIDE DEF l
<1>5. disk \in Seq(Stored) /\ saved \in Copy
  BY DEF QueueInv, Shapes
<1>6. SameQueue(w, l)
  BY <1>3, <1>5, ShowAllIs
<1> HIDE DEF w
<1>7. SameQueue(a, l)
  BY <1>5, <1>6 DEF SameQueue, TabRecord
<1>8. /\ b \in TabRecord
      /\ b.mem = l.mem /\ b.sent = l.sent /\ b.chain = l.chain
      /\ b.pc = l.pc /\ b.cur = l.cur /\ b.paused = FALSE
  BY <1>6 DEF SameQueue, TabRecord
<1> HIDE DEF a, b
<1>9. /\ Pump(b) \in TabRecord
      /\ Pump(b).mem = b.mem /\ Pump(b).sent = b.sent /\ Pump(b).cur = b.cur
      /\ Pump(b).paused = b.paused /\ Pump(b).chain = b.chain
      /\ Pump(b).pc = IF b.pc = "idle" THEN "lock" ELSE b.pc
  BY <1>8, PumpIs
<1>10. PICK s \in TabRecord :
          /\ tabs' = [tabs EXCEPT ![t] = s]
          /\ s.mem = disk /\ s.sent = l.sent /\ s.cur = s0.cur /\ s.chain = Tail(s0.chain)
          /\ s.paused => s0.paused
          /\ s.pc = s0.pc \/ (s0.pc = "idle" /\ s.pc = "lock")
  <2>1. CASE tabs' = [tabs EXCEPT ![t] = a]
    <3>1. a \in TabRecord /\ a.mem = disk /\ a.sent = l.sent /\ a.cur = s0.cur
          /\ a.chain = Tail(s0.chain) /\ (a.paused => s0.paused) /\ a.pc = s0.pc
      BY <1>3, <1>7 DEF SameQueue
    <3> QED BY <2>1, <3>1
  <2>2. CASE tabs' = [tabs EXCEPT ![t] = Pump(b)]
    BY <1>3, <1>8, <1>9, <2>2
  <2> QED BY <1>1, <2>1, <2>2
<1>11. \A k \in DOMAIN s.chain : ~(k > Len(s0.chain) - 1)
  BY <1>2, <1>3, <1>10
<1>12. CallsMoveOn(s.chain, s0.chain, 1)
  BY <1>3, <1>10, <1>11 DEF CallsMoveOn
<1>13. MovesOn(s, s0, Told, ToSet(disk))
  BY <1>4, <1>10 DEF MovesOn
<1> HIDE DEF s0
<1> QED BY <1>1, <1>10, <1>12, <1>13, BodyFollows DEF s0

\* The step of the tab that sends, which may tell the server something.
LEMMA BodyTells ==
    ASSUME QueueInv, BodyInv, NEW t \in Tabs, NEW s, tabs' = [tabs EXCEPT ![t] = s], Sends(tabs[t]),
           \A f \in ToSet(disk') : \E e \in ToSet(disk) : e.id = f.id /\ (e.sent => f.sent),
           BodiesOK(Told', ToSet(disk')), SenderOK(s, Told', ToSet(disk'))
    PROVE  BodyInv'
<1>1. tabs'[t] = s /\ \A u \in Tabs \ {t} : tabs'[u] = tabs[u]
  BY DEF QueueInv, Shapes
<1>2. \A u \in Tabs \ {t} : ~Sends(tabs[u])
  BY DEF BodyInv, OneSends
<1>3. OneSends'
  <2>1. \A u, v \in Tabs : Sends(tabs'[u]) /\ Sends(tabs'[v]) => u = v
    BY <1>1, <1>2
  <2> QED BY <2>1 DEF OneSends, Sends
<1>4. ASSUME NEW u \in Tabs PROVE SenderOK(tabs'[u], Told', ToSet(disk'))
  <2>1. CASE u = t
    BY <1>1, <2>1
  <2>2. CASE u # t
    <3>1. SenderOK(tabs[u], Told, ToSet(disk)) /\ ~Sends(tabs[u]) /\ tabs'[u] = tabs[u]
      BY <1>1, <1>2, <2>2 DEF BodyInv
    <3> QED BY <3>1, SenderWaits
  <2> QED BY <2>1, <2>2
<1> QED BY <1>3, <1>4 DEF BodyInv

\* No rewrite waits, and none comes when the first call is done.
LEMMA NoRewrites ==
    ASSUME NEW q \in Seq(StorageCall), q # <<>>, \A k \in DOMAIN q : q[k].kind # "setOp",
           NEW c \in StorageCall, c.kind # "setOp",
           NEW s, s.chain \in {Tail(q), Append(Tail(q), c)}, NEW told
    PROVE  RewritesOK(s, told)
<1>1. /\ Tail(q) \in Seq(StorageCall) /\ Len(Tail(q)) = Len(q) - 1
      /\ \A k \in 1..(Len(q) - 1) : Tail(q)[k] = q[k + 1] /\ k + 1 \in DOMAIN q
      /\ Len(q) \in Nat
  OBVIOUS
<1>2. \A k \in DOMAIN Tail(q) : Tail(q)[k].kind # "setOp"
  BY <1>1
<1> DEFINE p == Append(Tail(q), c)
<1>3. \A k \in DOMAIN p : (k \in 1..(Len(q) - 1) /\ p[k] = Tail(q)[k]) \/ p[k] = c
  BY <1>1
<1>4. DOMAIN Tail(q) = 1..(Len(q) - 1)
  BY <1>1
<1>5. \A k \in DOMAIN p : p[k].kind # "setOp"
  BY <1>2, <1>3, <1>4
<1>6. \A k \in DOMAIN s.chain : s.chain[k].kind # "setOp"
  BY <1>2, <1>5
<1> QED BY <1>6 DEF RewritesOK

LEMMA ReadToSendKeepsBodies ==
    ASSUME QueueInv, BodyInv, NEW t \in Tabs, ReadEntries(t), Head(tabs[t].chain).clean,
           Head(tabs[t].chain).kind = "pump"
    PROVE  BodyInv'
<1> DEFINE s0 == tabs[t]
           c  == Head(s0.chain)
           l  == Loaded([s0 EXCEPT !.chain = Tail(@)])
           n  == SendFirst(l, t)
<1>1. /\ s0.chain # <<>> /\ c.kind = "pump"
      /\ tabs' = [tabs EXCEPT ![t] = n.tab] /\ net' = net \cup n.out
      /\ UNCHANGED <<processed, disk>>
  BY DEF ReadEntries, AfterRead, Reads, serverVars, deviceVars
<1>2. /\ s0 \in TabRecord /\ s0.chain \in Seq(StorageCall) /\ Len(s0.chain) \in Nat
      /\ TabOK(s0, MadeIds, OverIds, FrontIds)
      /\ SenderOK(s0, Told, ToSet(disk))
  BY TabOf DEF BodyInv
<1>3. /\ l \in TabRecord
      /\ l.pc = s0.pc /\ l.paused = s0.paused
      /\ l.chain = Tail(s0.chain) /\ l.mem = disk
      /\ c = s0.chain[1] /\ 1 \in DOMAIN s0.chain
      /\ CallOK(c, s0, MadeIds, OverIds)
  BY <1>1, ReadIs
<1>4. /\ \A e \in ToSet(disk) : e.id \in l.sent \/ Untold(e.id, Told)
      /\ \A e \in ToSet(disk) : e.sent => e.id \in l.sent
      /\ \A e \in ToSet(disk) : e.id \in l.sent => e.id \in s0.sent \/ e.sent
  BY <1>1, ReadSentIs
<1>5. s0.pc = "read" /\ Sends(s0) /\ ~s0.paused
  BY <1>1, <1>2, <1>3 DEF CallOK, Sends, SenderOK
<1>6. \A k \in DOMAIN s0.chain : s0.chain[k].kind # "setOp"
  <2> SUFFICES ASSUME NEW k \in DOMAIN s0.chain, s0.chain[k].kind = "setOp"
               PROVE  FALSE
    OBVIOUS
  <2>1. PICK m \in DOMAIN s0.chain : k < m /\ s0.chain[m].kind = "pump"
    BY <1>2 DEF SenderOK, RewritesOK
  <2>2. m = 1
    BY <1>1, <1>2, <1>3, <2>1 DEF TabOK, OnePump
  <2> QED BY <1>2, <2>1, <2>2
<1>7. \A e \in ToSet(disk) : e.id \in l.sent => e.sent
  BY <1>2, <1>4, <1>5 DEF SenderOK, SentKnown
<1>8. /\ disk \in Seq(Stored) /\ BodiesOK(Told, ToSet(disk))
      /\ \A e, f \in ToSet(disk) : e.id = f.id => e = f
  <2>1. disk \in Seq(Stored)
    BY DEF QueueInv, Shapes
  <2> QED BY <2>1, ElementsOf DEF QueueInv, EntriesDiffer, BodyInv
<1> HIDE DEF l, c
<1>9. CASE disk = <<>>
  <2> DEFINE s == [l EXCEPT !.pc = "idle"]
  <2>1. tabs' = [tabs EXCEPT ![t] = s] /\ net' = net
    <3>1. n = [tab |-> s, out |-> {}]
      BY <1>3, <1>9 DEF SendFirst
    <3> HIDE DEF n, s
    <3> QED BY <1>1, <3>1
  <2>2. s.pc = "idle" /\ s.sent = l.sent /\ s.chain = Tail(s0.chain)
    BY <1>3 DEF TabRecord
  <2> HIDE DEF s
  <2>3. RewritesOK(s, Told)
    <3>2. s0.chain[1] \in StorageCall /\ s0.chain[1].kind # "setOp"
      BY <1>2, <1>3, <1>6
    <3>3. s.chain \in {Tail(s0.chain), Append(Tail(s0.chain), s0.chain[1])}
      BY <2>2
    <3>4. s0.chain # <<>> /\ s0.chain \in Seq(StorageCall)
      BY <1>1, <1>2
    <3> HIDE DEF s0
    <3> QED BY <1>6, <3>2, <3>3, <3>4, NoRewrites
  <2>4. SenderOK(s, Told, ToSet(disk)) /\ ~Sends(s)
    BY <1>7, <2>2, <2>3 DEF SenderOK, Marking, SentKnown, Sends
  <2>5. Told' \subseteq Told
    BY <1>1, <2>1, ToldStays
  <2> QED BY <1>1, <2>1, <2>4, <2>5, BodyStep
<1>10. CASE disk # <<>>
  <2> DEFINE e   == Head(disk)
             out == [l EXCEPT !.cur = e, !.sending = e.id, !.current = TRUE]
  <2>1. e \in ToSet(disk) /\ e \in Stored /\ e.id \in OpIds /\ e.op \in UserOps /\ e # None
    <3>1. 1 \in DOMAIN disk /\ e = disk[1]
      BY <1>8, <1>10
    <3>2. e \in ToSet(disk) /\ e \in Stored
      BY <1>8, <3>1, ElementsOf
    <3> HIDE DEF e
    <3> QED BY <3>2, NoneIsNoRecord DEF Stored
  <2> HIDE DEF e
  <2>2. /\ out \in TabRecord /\ out.mem = disk /\ out.sent = l.sent
        /\ out.chain = Tail(s0.chain) /\ out.pc = "read" /\ out.cur = e /\ ~out.paused
    BY <1>3, <1>5, <2>1 DEF TabRecord
  <2>3. n = IF e.id \in l.sent
            THEN [tab |-> [out EXCEPT !.pc = "call"], out |-> {Request(out, t)}]
            ELSE [tab |-> Enqueue([out EXCEPT !.pc = "mark", !.sent = @ \cup {e.id}],
                                  Call("setSent", e.id, None)),
                  out |-> {}]
    BY <1>3, <1>10 DEF SendFirst, e
  <2>4. \A f \in ToSet(disk') : \E g \in ToSet(disk) : g.id = f.id /\ (g.sent => f.sent)
    BY <1>1
  <2> HIDE DEF out, n
  <2>5. CASE e.id \in l.sent
    <3> DEFINE s == [out EXCEPT !.pc = "call"]
               q == Request(out, t)
               b == [id |-> e.id, op |-> e.op]
    <3>1. tabs' = [tabs EXCEPT ![t] = s] /\ net' = net \cup {q}
      BY <1>1, <2>3, <2>5
    <3>2. /\ s.mem = disk /\ s.sent = l.sent /\ s.chain = Tail(s0.chain)
          /\ s.pc = "call" /\ ~s.paused
      BY <2>2 DEF TabRecord
    <3>3. q.id = e.id /\ q.op = e.op
      BY <2>2 DEF Request
    <3> HIDE DEF s, q
    <3>4. \A a \in Told' : a \in Told \/ a = b
      BY <1>1, <3>1, <3>3 DEF Told
    <3>5. BodiesOK(Told', ToSet(disk'))
      <4>1. b.id = e.id /\ b.op = e.op /\ e.sent
        BY <1>7, <2>1, <2>5
      <4>2. \A a \in Told : a.id = e.id => a.op = e.op
        BY <1>8, <2>1 DEF BodiesOK
      <4>3. \A a \in Told : a.id = e.id => a = b
        <5>1. \A a \in Told : a = [id |-> a.id, op |-> a.op]
          BY DEF Told
        <5> QED BY <4>2, <5>1
      <4>4. \A a1, a2 \in Told' : a1.id = a2.id => a1 = a2
        BY <1>8, <3>4, <4>1, <4>3 DEF BodiesOK
      <4>5. \A f \in ToSet(disk), a \in Told' : a.id = f.id => a.op = f.op /\ f.sent
        BY <1>8, <2>1, <3>4, <4>1 DEF BodiesOK
      <4> QED BY <1>1, <4>4, <4>5 DEF BodiesOK
    <3>6. RewritesOK(s, Told')
      <4>1. s0.chain[1] \in StorageCall /\ s0.chain[1].kind # "setOp"
        BY <1>2, <1>3, <1>6
      <4>2. s.chain \in {Tail(s0.chain), Append(Tail(s0.chain), s0.chain[1])}
        BY <3>2
      <4>3. s0.chain # <<>> /\ s0.chain \in Seq(StorageCall)
        BY <1>1, <1>2
      <4> HIDE DEF s0
      <4> QED BY <1>6, <4>1, <4>2, <4>3, NoRewrites
    <3>7. SentKnown(s, Told', ToSet(disk'))
      <4>1. \A f \in ToSet(disk) : f.id \in l.sent \/ Untold(f.id, Told')
        BY <1>4, <2>5, <3>4 DEF Untold
      <4> QED BY <1>1, <1>7, <3>2, <4>1 DEF SentKnown
    <3>8. SenderOK(s, Told', ToSet(disk'))
      BY <3>2, <3>6, <3>7 DEF SenderOK, Marking
    <3> HIDE DEF s0
    <3> QED BY <1>5, <2>4, <3>1, <3>5, <3>8, BodyTells DEF s0
  <2>6. CASE e.id \notin l.sent
    <3> DEFINE u == l.sent \cup {e.id}
               m == [out EXCEPT !.pc = "mark", !.sent = u]
               k == Call("setSent", e.id, None)
               s == Enqueue(m, k)
    <3>1. tabs' = [tabs EXCEPT ![t] = s] /\ net' = net
      <4>1. n = [tab |-> Enqueue([out EXCEPT !.pc = "mark", !.sent = out.sent \cup {e.id}], k),
                 out |-> {}]
        <5>1. [out EXCEPT !.pc = "mark", !.sent = @ \cup {e.id}]
                = [out EXCEPT !.pc = "mark", !.sent = out.sent \cup {e.id}]
          BY <2>2 DEF TabRecord
        <5> QED BY <2>3, <2>6, <5>1
      <4>2. out.sent \cup {e.id} = u
        BY <2>2
      <4> QED BY <1>1, <4>1, <4>2
    <3>2. /\ m \in TabRecord /\ m.mem = disk /\ m.sent = u
          /\ m.chain = Tail(s0.chain) /\ m.pc = "mark" /\ m.cur = e /\ ~m.paused
      <4>1. u \in SUBSET OpIds
        BY <1>3, <2>1 DEF TabRecord
      <4> HIDE DEF u
      <4> QED BY <2>2, <4>1 DEF TabRecord
    <3>3. k \in StorageCall /\ k.kind = "setSent"
      BY <2>1, CallIs
    <3> HIDE DEF m, k
    <3>4. SameButChain(s, m) /\ s.chain = Append(Tail(s0.chain), k)
      BY <3>2, <3>3, EnqueueIs
    <3> HIDE DEF s
    <3>5. /\ s.mem = disk /\ s.sent = u /\ s.pc = "mark" /\ s.cur = e /\ ~s.paused
      BY <3>2, <3>4 DEF SameButChain
    <3>6. Told' = Told
      BY <1>1, <3>1 DEF Told
    <3>7. RewritesOK(s, Told)
      <4> HIDE DEF s0
      <4> QED BY <1>1, <1>2, <1>6, <3>3, <3>4, NoRewrites
    <3>8. Marking(s, Told, ToSet(disk))
      BY <1>4, <1>8, <2>1, <2>6, <3>5 DEF Marking
    <3>9. SentKnown(s, Told, ToSet(disk))
      BY <1>4, <1>7, <3>5 DEF SentKnown
    <3>10. SenderOK(s, Told', ToSet(disk'))
      BY <1>1, <3>5, <3>6, <3>7, <3>8, <3>9 DEF SenderOK
    <3>11. BodiesOK(Told', ToSet(disk'))
      BY <1>1, <1>8, <3>6
    <3> HIDE DEF s0
    <3> QED BY <1>5, <2>4, <3>1, <3>10, <3>11, BodyTells DEF s0
  <2> QED BY <2>5, <2>6
<1> QED BY <1>9, <1>10

\* What a write leaves of the entries, one by one.
LEMMA WrittenElements ==
    ASSUME NEW q \in Seq(Stored), NEW c \in StorageCall, c.kind \notin Reads
    PROVE  \A f \in ToSet(Written(q, c)) :
              \/ c.kind = "add" /\ f.id = c.id
              \/ \E e \in ToSet(q) :
                    /\ e.id = f.id /\ (e.sent => f.sent)
                    /\ f.op = e.op \/ (c.kind = "setOp" /\ f.id = c.id)
                    /\ c.kind = "setSent" /\ f.id = c.id => f.sent
<1>1. /\ c.kind \in {"add", "remove", "setOp", "setSent"} /\ c.id \in OpIds
      /\ c.kind \in {"add", "setOp"} => c.op \in UserOps
  BY DEF StorageCall, Reads
<1>2. /\ \A k \in DOMAIN q : q[k] \in Stored /\ q[k] \in ToSet(q)
  BY ElementsOf
<1>3. CASE c.kind = "add"
  <2> DEFINE e == Entry(c.id, c.op)
  <2>1. e \in Stored /\ e.id = c.id
    BY <1>1, <1>3 DEF Entry, Stored
  <2>2. Written(q, c) = Append(q, e)
    BY <1>3 DEF Written
  <2> HIDE DEF e
  <2>3. ToSet(Written(q, c)) = ToSet(q) \cup {e}
    BY <2>1, <2>2, AppendElements
  <2> QED BY <1>3, <2>1, <2>3
<1>4. CASE c.kind = "remove"
  <2>1. Written(q, c) = Without(q, c.id)
    BY <1>4 DEF Written
  <2>2. ToSet(Without(q, c.id)) = {q[k] : k \in {i \in DOMAIN q : q[i].id # c.id}}
    BY PickedAreThere DEF Without
  <2>3. ToSet(Written(q, c)) \subseteq ToSet(q)
    BY <1>2, <2>1, <2>2
  <2> QED BY <1>4, <2>3
<1>5. CASE c.kind = "setOp"
  <2>1. Written(q, c) = WithOp(q, c.id, c.op)
    BY <1>5 DEF Written
  <2>2. \A k \in DOMAIN q : LET f == WithOp(q, c.id, c.op)[k]
                            IN  /\ q[k].id = f.id /\ q[k].sent = f.sent
                                /\ f.op = q[k].op \/ f.id = c.id
    BY <1>2 DEF WithOp, Stored
  <2>3. \A f \in ToSet(WithOp(q, c.id, c.op)) : \E k \in DOMAIN q : f = WithOp(q, c.id, c.op)[k]
    BY DEF WithOp, ToSet
  <2> QED BY <1>2, <1>5, <2>1, <2>2, <2>3
<1>6. CASE c.kind = "setSent"
  <2>1. Written(q, c) = WithSent(q, c.id)
    BY <1>6 DEF Written
  <2>2. \A k \in DOMAIN q : LET f == WithSent(q, c.id)[k]
                            IN  /\ q[k].id = f.id /\ (q[k].sent => f.sent) /\ f.op = q[k].op
                                /\ f.id = c.id => f.sent
    BY <1>2 DEF WithSent, Stored
  <2>3. \A f \in ToSet(WithSent(q, c.id)) : \E k \in DOMAIN q : f = WithSent(q, c.id)[k]
    BY DEF WithSent, ToSet
  <2> QED BY <1>2, <1>6, <2>1, <2>2, <2>3
<1> QED BY <1>1, <1>3, <1>4, <1>5, <1>6

\* What is written agrees with what was told and with what each tab knows.
LEMMA WrittenAgrees ==
    ASSUME QueueInv, BodyInv, NEW t \in Tabs, WriteEntries(t)
    PROVE  /\ BodiesOK(Told, ToSet(disk'))
           /\ \A u \in Tabs : SenderOK(tabs[u], Told, ToSet(disk'))
<1> DEFINE c == Head(tabs[t].chain)
<1>1. tabs[t].chain # <<>> /\ c.kind \notin Reads /\ disk' = Written(disk, c)
  BY DEF WriteEntries, Written
<1>2. /\ tabs[t].chain \in Seq(StorageCall) /\ disk \in Seq(Stored)
      /\ SenderOK(tabs[t], Told, ToSet(disk)) /\ BodiesOK(Told, ToSet(disk))
  BY TabOf DEF QueueInv, Shapes, BodyInv
<1>3. 1 \in DOMAIN tabs[t].chain /\ c = tabs[t].chain[1] /\ c \in StorageCall
  BY <1>1, <1>2
<1>4. c.kind = "add" => c.id \notin TouchedIds
  BY <1>3 DEF QueueInv, AddsAreNew
<1>5. c.kind = "setOp" => tabs[t].pc = "read" /\ Untold(c.id, Told)
  BY <1>2, <1>3 DEF SenderOK, RewritesOK
<1> HIDE DEF c
<1>6. \A f \in ToSet(disk') :
         \/ c.kind = "add" /\ f.id = c.id
         \/ \E e \in ToSet(disk) :
               /\ e.id = f.id /\ (e.sent => f.sent)
               /\ f.op = e.op \/ (c.kind = "setOp" /\ f.id = c.id)
  BY <1>1, <1>2, <1>3, WrittenElements
<1>7. BodiesOK(Told, ToSet(disk'))
  <2>1. \A b \in Told : b.id \in TouchedIds
    BY ToldIs
  <2>2. ASSUME NEW f \in ToSet(disk'), NEW b \in Told, b.id = f.id
        PROVE  b.op = f.op /\ f.sent
    <3>1. ~(c.kind = "add" /\ f.id = c.id) /\ ~(c.kind = "setOp" /\ f.id = c.id)
      BY <1>4, <1>5, <2>1, <2>2 DEF Untold
    <3>2. PICK e \in ToSet(disk) : e.id = f.id /\ (e.sent => f.sent) /\ f.op = e.op
      BY <1>6, <3>1
    <3> QED BY <1>2, <2>2, <3>2 DEF BodiesOK
  <2> QED BY <1>2, <2>2 DEF BodiesOK
<1>8. ASSUME NEW u \in Tabs PROVE SenderOK(tabs[u], Told, ToSet(disk'))
  <2> DEFINE s == tabs[u]
  <2>1. /\ SenderOK(s, Told, ToSet(disk)) /\ s.sent \subseteq TouchedIds
        /\ s.pc = "mark" => s.cur.id \in s.sent
    BY TabOf DEF BodyInv, TabOK, EntriesOK
  <2>2. s.pc = "mark" => c.kind # "setOp"
    <3>1. s.pc = "mark" /\ c.kind = "setOp" => u = t
      BY <1>5 DEF BodyInv, OneSends, Sends
    <3> QED BY <1>5, <3>1
  <2> HIDE DEF s
  <2>3. Marking(s, Told, ToSet(disk'))
    BY <1>4, <1>6, <2>1, <2>2 DEF SenderOK, Marking
  <2>4. SentKnown(s, Told, ToSet(disk'))
    BY <1>4, <1>6, <2>1 DEF SenderOK, SentKnown
  <2>5. SenderOK(s, Told, ToSet(disk'))
    BY <2>1, <2>3, <2>4 DEF SenderOK
  <2> QED BY <2>5 DEF s
<1> QED BY <1>7, <1>8

LEMMA WriteKeepsBodies ==
    ASSUME QueueInv, BodyInv, NEW t \in Tabs, WriteEntries(t)
    PROVE  BodyInv'
<1> DEFINE s0 == tabs[t]
           c  == Head(s0.chain)
           r  == [s0 EXCEPT !.chain = Tail(@)]
           m  == [r EXCEPT !.pc = "call"]
           q  == Request(s0, t)
<1>1. /\ s0.chain # <<>> /\ c.kind \notin Reads /\ disk' = Written(disk, c)
      /\ \/ /\ tabs' = [tabs EXCEPT ![t] = r] /\ net' = net
         \/ /\ Marked(s0, c)
            /\ tabs' = [tabs EXCEPT ![t] = m] /\ net' = net \cup {q}
      /\ UNCHANGED processed
  BY DEF WriteEntries, Written, serverVars
<1>2. /\ s0 \in TabRecord /\ s0.chain \in Seq(StorageCall) /\ Len(s0.chain) \in Nat
      /\ TabOK(s0, MadeIds, OverIds, FrontIds)
      /\ disk \in Seq(Stored)
  BY TabOf DEF QueueInv, Shapes
<1>3. /\ Follows(Tail(s0.chain), s0.chain, 1) /\ Tail(s0.chain) \in Seq(StorageCall)
      /\ Len(Tail(s0.chain)) = Len(s0.chain) - 1 /\ 1 <= Len(s0.chain)
      /\ c = s0.chain[1] /\ 1 \in DOMAIN s0.chain /\ c \in StorageCall
  BY <1>1, <1>2, TailFollows
<1>4. /\ BodiesOK(Told, ToSet(disk'))
      /\ \A u \in Tabs : SenderOK(tabs[u], Told, ToSet(disk'))
  BY WrittenAgrees
<1>5. /\ r \in TabRecord /\ r.chain = Tail(s0.chain)
      /\ r.mem = s0.mem /\ r.sent = s0.sent /\ r.pc = s0.pc /\ r.cur = s0.cur
      /\ r.paused = s0.paused
  BY <1>2, <1>3 DEF TabRecord
<1> HIDE DEF r, c
<1>6. /\ m \in TabRecord /\ m.chain = Tail(s0.chain)
      /\ m.mem = s0.mem /\ m.sent = s0.sent /\ m.pc = "call" /\ m.paused = s0.paused
  BY <1>5 DEF TabRecord
<1> HIDE DEF m
<1>7. CASE tabs' = [tabs EXCEPT ![t] = r] /\ net' = net
  <2>1. Told' = Told
    BY <1>1, <1>7 DEF Told
  <2>2. \A k \in DOMAIN r.chain : ~(k > Len(s0.chain) - 1)
    BY <1>2, <1>3, <1>5
  <2>3. /\ SenderOK(s0, Told, ToSet(disk')) /\ CallsMoveOn(r.chain, s0.chain, 1)
        /\ MovesOn(r, s0, Told, ToSet(disk'))
    BY <1>3, <1>4, <1>5, <2>2 DEF CallsMoveOn, MovesOn
  <2>4. SenderOK(r, Told, ToSet(disk'))
    <3> HIDE DEF s0
    <3> QED BY <1>2, <1>5, <2>3, SenderFollows
  <2>5. tabs'[t] = r /\ \A u \in Tabs \ {t} : tabs'[u] = tabs[u]
    BY <1>7 DEF QueueInv, Shapes
  <2>6. OneSends'
    <3>1. \A u \in Tabs : Sends(tabs'[u]) <=> Sends(tabs[u])
      BY <1>5, <2>5 DEF Sends
    <3>2. \A u, v \in Tabs : Sends(tabs'[u]) /\ Sends(tabs'[v]) => u = v
      BY <3>1 DEF BodyInv, OneSends
    <3> QED BY <3>2 DEF OneSends, Sends
  <2>7. \A u \in Tabs : SenderOK(tabs'[u], Told', ToSet(disk'))
    BY <1>4, <2>1, <2>4, <2>5
  <2>8. BodiesOK(Told', ToSet(disk'))
    BY <1>4, <2>1
  <2> QED BY <2>6, <2>7, <2>8 DEF BodyInv
<1>8. CASE Marked(s0, c) /\ tabs' = [tabs EXCEPT ![t] = m] /\ net' = net \cup {q}
  <2> DEFINE id == s0.cur.id
             b  == [id |-> id, op |-> s0.cur.op]
  <2>1. s0.pc = "mark" /\ c.kind = "setSent" /\ id = c.id /\ id \in s0.sent
    BY <1>2, <1>8 DEF Marked, TabOK, EntriesOK
  <2>2. q.id = id /\ q.op = s0.cur.op /\ b.id = id /\ b.op = s0.cur.op
    BY DEF Request
  <2> HIDE DEF q, b
  <2>3. \A a \in Told' : a \in Told \/ a = b
    BY <1>1, <1>8, <2>2 DEF Told, b
  <2>4. /\ SenderOK(s0, Told, ToSet(disk')) /\ SenderOK(s0, Told, ToSet(disk))
        /\ Untold(id, Told) /\ ~s0.paused
        /\ \A f \in ToSet(disk') : f.id = id => f.op = s0.cur.op
    <3>1. SenderOK(s0, Told, ToSet(disk')) /\ SenderOK(s0, Told, ToSet(disk))
      BY <1>4 DEF BodyInv
    <3> QED BY <2>1, <3>1 DEF SenderOK, Marking, Sends
  <2>5. \A f \in ToSet(disk') :
           \E e \in ToSet(disk) : e.id = f.id /\ (e.sent => f.sent) /\ (f.id = id => f.sent)
    BY <1>1, <1>2, <1>3, <2>1, WrittenElements
  <2>6. BodiesOK(Told', ToSet(disk'))
    <3>1. \A a1, a2 \in Told' : a1.id = a2.id => a1 = a2
      BY <1>4, <2>2, <2>3, <2>4 DEF BodiesOK, Untold
    <3>2. \A f \in ToSet(disk'), a \in Told' : a.id = f.id => a.op = f.op /\ f.sent
      BY <1>4, <2>2, <2>3, <2>4, <2>5 DEF BodiesOK
    <3> QED BY <3>1, <3>2 DEF BodiesOK
  <2>7. RewritesOK(m, Told')
    <3>1. \A k \in DOMAIN s0.chain : s0.chain[k].kind # "setOp"
      BY <2>1, <2>4 DEF SenderOK, RewritesOK
    <3>2. s0.chain[1] \in StorageCall /\ s0.chain[1].kind # "setOp"
      BY <1>3, <3>1
    <3>3. m.chain \in {Tail(s0.chain), Append(Tail(s0.chain), s0.chain[1])}
      BY <1>6
    <3> HIDE DEF s0
    <3> QED BY <1>1, <1>2, <3>1, <3>2, <3>3, NoRewrites
  <2>8. SentKnown(m, Told', ToSet(disk'))
    <3>1. \A e \in ToSet(s0.mem) : e.id \in s0.sent \/ Untold(e.id, Told')
      BY <2>1, <2>2, <2>3, <2>4 DEF SenderOK, SentKnown, Untold
    <3>2. \A e \in ToSet(disk') : e.id \in s0.sent => e.sent
      BY <2>4, <2>5 DEF SenderOK, SentKnown
    <3> QED BY <1>6, <3>1, <3>2 DEF SentKnown
  <2>9. SenderOK(m, Told', ToSet(disk'))
    BY <1>6, <2>4, <2>7, <2>8 DEF SenderOK, Marking
  <2>10. Sends(tabs[t]) /\ tabs' = [tabs EXCEPT ![t] = m]
    BY <1>8, <2>1 DEF Sends
  <2>11. \A f \in ToSet(disk') : \E e \in ToSet(disk) : e.id = f.id /\ (e.sent => f.sent)
    BY <2>5
  <2> HIDE DEF s0
  <2> QED BY <2>6, <2>9, <2>10, <2>11, BodyTells
<1> QED BY <1>1, <1>7, <1>8

\* An answer tells nothing new.
LEMMA DeliverKeepsBodies ==
    ASSUME QueueInv, BodyInv, NEW r \in net, NEW answer, Deliver(r, answer), UNCHANGED disk,
           Told' \subseteq Told
    PROVE  BodyInv'
<1>1. tabs \in [Tabs -> TabRecord]
  BY DEF QueueInv, Shapes
<1>2. ASSUME NEW t \in Tabs
      PROVE  /\ tabs'[t].mem = tabs[t].mem /\ tabs'[t].paused = tabs[t].paused
             /\ tabs'[t].sent = tabs[t].sent /\ tabs'[t].chain = tabs[t].chain
             /\ tabs'[t].pc = tabs[t].pc /\ tabs'[t].cur = tabs[t].cur
  <2>1. CASE r.tab = None \/ t # r.tab
    <3>1. tabs'[t] = tabs[t]
      BY <1>1, <2>1 DEF Deliver
    <3> QED BY <3>1
  <2>2. CASE r.tab # None /\ t = r.tab
    <3>1. tabs'[t] = [tabs[t] EXCEPT !.reply = answer] /\ tabs[t] \in TabRecord
      BY <1>1, <2>2 DEF Deliver
    <3> QED BY <3>1 DEF TabRecord
  <2> QED BY <2>1, <2>2
<1>3. OneSends'
  <2>1. \A u, v \in Tabs : Sends(tabs'[u]) /\ Sends(tabs'[v]) => u = v
    BY <1>2 DEF BodyInv, OneSends, Sends
  <2> QED BY <2>1 DEF OneSends, Sends
<1>4. BodiesOK(Told', ToSet(disk'))
  BY DEF BodyInv, BodiesOK
<1>5. ASSUME NEW u \in Tabs PROVE SenderOK(tabs'[u], Told', ToSet(disk'))
  <2>1. SenderOK(tabs[u], Told, ToSet(disk))
    BY DEF BodyInv
  <2>2. SenderOK(tabs'[u], Told, ToSet(disk))
    BY <1>2, <2>1 DEF SenderOK, RewritesOK, Marking, SentKnown, Sends
  <2>3. ToSet(disk') = ToSet(disk)
    OBVIOUS
  <2> QED BY <2>2, <2>3, SenderStays
<1> QED BY <1>3, <1>4, <1>5 DEF BodyInv

LEMMA ServeKeepsBodies ==
    ASSUME QueueInv, BodyInv, NEW r \in net, Serve(r)
    PROVE  BodyInv'
<1> DEFINE outcome == Outcome(room, r.op)
           answer  == AnswerOf(outcome)
           reused  == AnswerOf(HttpError(room, "op_id_reused"))
           once    == [op |-> r.op, answer |-> answer, wrote |-> outcome.room # room]
           given   == IF processed[r.id].op = r.op THEN processed[r.id].answer ELSE reused
<1>1. UNCHANGED disk /\ net' = net \ {r}
  BY DEF Serve, Deliver, deviceVars
<1>2. /\ processed \in [OpIds -> RunOnce \cup {None}]
      /\ net \subseteq [id : OpIds, op : UserOps, tab : Tabs \cup {None}]
  BY DEF QueueInv, Shapes
<1>3. \/ processed' = [processed EXCEPT ![r.id] = once] /\ Deliver(r, answer)
      \/ UNCHANGED processed /\ Deliver(r, given)
  BY DEF Serve, serverVars
<1>4. once.op = r.op
  OBVIOUS
<1> HIDE DEF once
<1>5. Told' \subseteq Told
  <2>1. CASE processed' = [processed EXCEPT ![r.id] = once]
    <3>1. \A id \in OpIds : processed'[id] = processed[id] \/ (id = r.id /\ processed'[id] = once)
      BY <1>2, <2>1
    <3> QED BY <1>1, <1>4, <3>1 DEF Told
  <2>2. CASE UNCHANGED processed
    BY <1>1, <2>2 DEF Told
  <2> QED BY <1>3, <2>1, <2>2
<1> HIDE DEF answer, given
<1> QED BY <1>1, <1>3, <1>5, DeliverKeepsBodies

LEMMA RefuseKeepsBodies ==
    ASSUME QueueInv, BodyInv, NEW r \in net, Refuse(r)
    PROVE  BodyInv'
<1> DEFINE answer == AnswerOf(HttpError(room, "refused"))
<1>1. UNCHANGED <<processed, disk>> /\ Deliver(r, answer)
  BY DEF Refuse, serverVars, deviceVars
<1>2. Told' \subseteq Told
  BY <1>1 DEF Told, Deliver
<1> HIDE DEF answer
<1> QED BY <1>1, <1>2, DeliverKeepsBodies

\* Nothing that the bodies depend on moves.
LEMMA BodiesSame ==
    ASSUME BodyInv, UNCHANGED <<processed, net, disk, tabs>>
    PROVE  BodyInv'
<1>1. Told' = Told
  BY DEF Told
<1> QED BY <1>1 DEF BodyInv, OneSends

LEMMA BodyStart ==
    ASSUME Init
    PROVE  BodyInv
<1>1. /\ processed = [id \in OpIds |-> None] /\ net = {} /\ disk = <<>>
      /\ tabs = [t \in Tabs |-> ClosedTab]
  BY DEF Init
<1>2. Told = {} /\ ToSet(disk) = {}
  BY <1>1 DEF Told, ToSet
<1>3. ASSUME NEW t \in Tabs
      PROVE  ~Sends(tabs[t]) /\ SenderOK(tabs[t], Told, ToSet(disk))
  <2>1. tabs[t] = ClosedTab
    BY <1>1
  <2>2. ClosedTab.pc = "idle" /\ ClosedTab.sent = {} /\ ClosedTab.chain = <<>>
    BY ClosedTabIs
  <2> QED BY <2>1, <2>2, SenderIdle DEF Sends
<1> QED BY <1>2, <1>3 DEF BodyInv, OneSends, BodiesOK

LEMMA BodyNext ==
    ASSUME QueueInv, BodyInv, [Next]_vars, Faults \cap {"pause", "signOut"} = {}
    PROVE  BodyInv'
<1>1. ASSUME NEW t \in Tabs, Page(t) PROVE BodyInv'
  <2>1. CASE Open(t) BY <2>1, OpenKeepsBodies
  <2>2. CASE Close(t) BY <2>2, CloseKeepsBodies
  <2>3. CASE Send(t) BY <2>3, SendKeepsBodies
  <2>4. CASE Discard(t) BY <2>4, DiscardKeepsBodies
  <2>5. ~Pause(t) /\ ~SignedOut(t)
    BY DEF Pause, SignedOut, MayFail
  <2>6. CASE AskFeed(t) \/ AnswerFeed(t) BY <2>6, FeedKeepsBodies
  <2>7. CASE TakeFeed(t) BY <2>7, TakeFeedKeepsBodies
  <2>8. CASE NoAnswer(t) BY <2>8, NoAnswerKeepsBodies
  <2>9. CASE Unauthorized(t) BY <2>9, UnauthorizedKeepsBodies
  <2> QED BY <1>1, <2>1, <2>2, <2>3, <2>4, <2>5, <2>6, <2>7, <2>8, <2>9 DEF Page
<1>2. ASSUME NEW t \in Tabs, Loop(t) PROVE BodyInv'
  <2>1. CASE TakeLock(t) \/ Wake(t) BY <2>1, TakeLockKeepsBodies
  <2>2. CASE ReadEntries(t)
    <3>1. CASE ~Head(tabs[t].chain).clean BY <2>2, <3>1, ReadAgainKeepsBodies
    <3>2. CASE Head(tabs[t].chain).clean /\ Head(tabs[t].chain).kind # "pump"
      BY <2>2, <3>2, ReadToShowKeepsBodies
    <3>3. CASE Head(tabs[t].chain).clean /\ Head(tabs[t].chain).kind = "pump"
      BY <2>2, <3>3, ReadToSendKeepsBodies
    <3> QED BY <3>1, <3>2, <3>3
  <2>3. CASE WriteEntries(t) BY <2>3, WriteKeepsBodies
  <2>4. CASE Settle(t) BY <2>4, SettleKeepsBodies
  <2>5. CASE Fail(t) BY <2>5, FailKeepsBodies
  <2> QED BY <1>2, <2>1, <2>2, <2>3, <2>4, <2>5 DEF Loop
<1>3. ASSUME Server PROVE BodyInv'
  BY <1>3, ServeKeepsBodies, RefuseKeepsBodies DEF Server
<1>4. CASE Foreign
  BY <1>4, BodiesSame DEF Foreign, deviceVars
<1>5. CASE UNCHANGED vars
  BY <1>5, BodiesSame DEF vars
<1> QED BY <1>1, <1>2, <1>3, <1>4, <1>5 DEF Next

\* OpIdMeansOneBody: as long as nothing but a 401 pauses a tab that sends, a
\* request never brings a body other than the one its op_id ran with, whatever
\* tabs close, answers are lost and rewrites wait (rebase.ts, #sendOne).  With
\* the other pauses it is false of the code.
THEOREM BodiesAreKept ==
    ASSUME Faults \cap {"pause", "signOut"} = {}
    PROVE  Spec => []OpIdMeansOneBody
<1>1. Init => BodyInv
  BY BodyStart
<1>2. QueueInv /\ BodyInv /\ [Next]_vars => BodyInv'
  BY BodyNext
<1>3. QueueInv /\ BodyInv => OpIdMeansOneBody
  <2> SUFFICES ASSUME QueueInv, BodyInv, NEW r \in net, processed[r.id] # None
               PROVE  processed[r.id].op = r.op
    BY DEF OpIdMeansOneBody
  <2>1. r.id \in OpIds
    BY DEF QueueInv, Shapes
  <2> DEFINE a == [id |-> r.id, op |-> r.op]
             b == [id |-> r.id, op |-> processed[r.id].op]
  <2>2. a \in Told /\ b \in Told
    BY <2>1, ToldIs
  <2>3. a = b
    BY <2>2 DEF BodyInv, BodiesOK
  <2> QED BY <2>3
<1> QED BY <1>1, <1>2, <1>3, QueueInvariant, PTL DEF Spec

-----------------------------------------------------------------------------
(* What a step leaves alone of what the page shows, and the storage calls  *)
(* that wait, in their order.                                              *)

\* A step of the queue leaves what the page shows alone.
SameView(p, s) ==
    /\ p.copy = s.copy /\ p.feed = s.feed /\ p.pending = s.pending
    /\ p.sending = s.sending /\ p.current = s.current /\ p.settled = s.settled

\* The kinds and op_ids of the calls that wait.
CallsIn(q) == {<<q[k].kind, q[k].id>> : k \in DOMAIN q}

\* No entry comes or goes behind a read that counts.
ReadsInOrder(q) ==
    \A k, l \in DOMAIN q :
       k < l /\ q[k].clean /\ q[k].kind \in Reads => q[l].kind \notin {"add", "remove"}

\* No read that waits counts.
Repeats(q) == \A k \in DOMAIN q : ~q[k].clean

LEMMA CallBehind ==
    ASSUME NEW q \in Seq(StorageCall), NEW c \in StorageCall
    PROVE  LET p == Append(q, c)
           IN  /\ CallsIn(p) = CallsIn(q) \cup {<<c.kind, c.id>>}
               /\ Repeats(q) => ReadsInOrder(p)
               /\ ReadsInOrder(q) /\ c.kind \notin {"add", "remove"} => ReadsInOrder(p)
               /\ q = <<>> => ReadsInOrder(p)
<1> DEFINE p == Append(q, c)
<1>1. /\ p \in Seq(StorageCall) /\ Len(p) = Len(q) + 1 /\ Len(q) \in Nat
      /\ \A k \in 1..Len(q) : p[k] = q[k]
      /\ p[Len(q) + 1] = c
  BY AppendProperties
<1> HIDE DEF p
<1>2. DOMAIN q = 1..Len(q) /\ DOMAIN p = 1..(Len(q) + 1)
  BY <1>1
<1>3. \A k \in DOMAIN p : k \in DOMAIN q \/ k = Len(q) + 1
  BY <1>1, <1>2
<1>4. \A k \in DOMAIN q : k \in DOMAIN p /\ p[k] = q[k]
  BY <1>1, <1>2
<1>5. Len(q) + 1 \in DOMAIN p
  BY <1>1, <1>2
<1>6. CallsIn(p) = CallsIn(q) \cup {<<c.kind, c.id>>}
  BY <1>1, <1>3, <1>4, <1>5 DEF CallsIn
<1>7. ASSUME NEW k \in DOMAIN p, NEW l \in DOMAIN p, k < l
      PROVE  k \in DOMAIN q
  BY <1>1, <1>2, <1>7
<1>8. Repeats(q) => ReadsInOrder(p)
  BY <1>4, <1>7 DEF Repeats, ReadsInOrder
<1>9. ReadsInOrder(q) /\ c.kind \notin {"add", "remove"} => ReadsInOrder(p)
  BY <1>1, <1>3, <1>4, <1>7 DEF ReadsInOrder
<1>10. q = <<>> => Repeats(q)
  BY DEF Repeats
<1> QED BY <1>6, <1>8, <1>9, <1>10 DEF p

LEMMA CallDone ==
    ASSUME NEW q \in Seq(StorageCall), q # <<>>
    PROVE  /\ Tail(q) \in Seq(StorageCall) /\ Head(q) \in StorageCall
           /\ CallsIn(q) = CallsIn(Tail(q)) \cup {<<Head(q).kind, Head(q).id>>}
           /\ ReadsInOrder(q) => ReadsInOrder(Tail(q))
           /\ ReadsInOrder(q) /\ Head(q).clean /\ Head(q).kind \in Reads =>
                 \A id : <<"add", id>> \notin CallsIn(Tail(q)) /\ <<"remove", id>> \notin CallsIn(Tail(q))
<1> DEFINE p == Tail(q)
<1>1. /\ p \in Seq(StorageCall) /\ Len(p) = Len(q) - 1 /\ Len(q) \in Nat /\ Len(q) >= 1
      /\ \A k \in 1..Len(p) : p[k] = q[k + 1]
      /\ Head(q) = q[1] /\ q[1] \in StorageCall
  BY HeadTailProperties
<1> HIDE DEF p
<1>2. DOMAIN q = 1..Len(q) /\ DOMAIN p = 1..(Len(q) - 1)
  BY <1>1
<1>3. \A k \in DOMAIN q : k = 1 \/ (k - 1 \in DOMAIN p /\ p[k - 1] = q[k])
  BY <1>1, <1>2
<1>4. \A k \in DOMAIN p : k + 1 \in DOMAIN q /\ p[k] = q[k + 1] /\ 1 < k + 1
  BY <1>1, <1>2
<1>5. 1 \in DOMAIN q
  BY <1>1, <1>2
<1>6. CallsIn(q) = CallsIn(p) \cup {<<q[1].kind, q[1].id>>}
  BY <1>3, <1>4, <1>5 DEF CallsIn
<1>7. ASSUME ReadsInOrder(q) PROVE ReadsInOrder(p)
  <2>1. \A k, l \in DOMAIN p : k < l => k + 1 < l + 1
    BY <1>2
  <2> QED BY <1>4, <1>7, <2>1 DEF ReadsInOrder
<1>8. ASSUME ReadsInOrder(q), q[1].clean, q[1].kind \in Reads
      PROVE  \A id : <<"add", id>> \notin CallsIn(p) /\ <<"remove", id>> \notin CallsIn(p)
  <2>1. \A k \in DOMAIN p : p[k].kind \notin {"add", "remove"}
    BY <1>4, <1>5, <1>8 DEF ReadsInOrder
  <2> QED BY <2>1 DEF CallsIn
<1> QED BY <1>1, <1>6, <1>7, <1>8 DEF p

LEMMA ViewsSame ==
    ASSUME NEW s \in TabRecord, NEW c
    PROVE  SameView(Enqueue(s, c), s) /\ SameView(Mutated(s), s) /\ SameView(Pump(s), s)
           /\ SameView(Loaded(s), s)
BY DEF SameView, Enqueue, Mutated, Pump, Loaded, TabRecord

LEMMA MutatedCalls ==
    ASSUME NEW s \in TabRecord
    PROVE  CallsIn(Mutated(s).chain) = CallsIn(s.chain) /\ Repeats(Mutated(s).chain)
<1> DEFINE p == [k \in DOMAIN s.chain |-> [s.chain[k] EXCEPT !.clean = FALSE]]
<1>1. s.chain \in Seq(StorageCall)
  BY DEF TabRecord
<1>2. \A k \in DOMAIN s.chain : s.chain[k] \in StorageCall
  BY <1>1, ElementsOf
<1>3. \A k \in DOMAIN s.chain :
         ~p[k].clean /\ p[k].kind = s.chain[k].kind /\ p[k].id = s.chain[k].id
  BY <1>2 DEF StorageCall
<1>4. DOMAIN p = DOMAIN s.chain
  OBVIOUS
<1>5. Mutated(s).chain = p
  BY DEF Mutated, TabRecord
<1> HIDE DEF p
<1> QED BY <1>3, <1>4, <1>5 DEF CallsIn, Repeats

LEMMA RemoveEntryView ==
    ASSUME NEW s \in TabRecord, NEW id \in OpIds
    PROVE  LET p == RemoveEntry(s, id)
           IN  /\ p \in TabRecord
               /\ SameView(p, s)
               /\ CallsIn(p.chain) = CallsIn(s.chain) \cup {<<"remove", id>>}
               /\ ReadsInOrder(p.chain)
               /\ Ids(p.mem) = Ids(s.mem) \ {id}
<1> DEFINE t == [s EXCEPT !.sent = s.sent \ {id}, !.mem = Without(s.mem, id)]
           c == Call("remove", id, None)
<1>1. s.mem \in Seq(Stored) /\ s.sent \in SUBSET OpIds /\ s.chain \in Seq(StorageCall)
  BY DEF TabRecord
<1>2. Without(s.mem, id) \in Seq(Stored) /\ Ids(Without(s.mem, id)) = Ids(s.mem) \ {id}
  BY <1>1, WithoutIs
<1>3. t \in TabRecord /\ SameView(t, s) /\ t.chain = s.chain /\ t.mem = Without(s.mem, id)
  BY <1>1, <1>2 DEF TabRecord, SameView
<1>4. RemoveEntry(s, id) = Enqueue(Mutated(t), c)
  BY DEF RemoveEntry
<1>5. c \in StorageCall /\ c.kind = "remove" /\ c.id = id
  BY CallIs
<1> HIDE DEF t, c
<1> DEFINE m == Mutated(t)
<1>6. SameButChain(m, t)
  BY <1>3, MutatedIs
<1>7. SameView(m, t) /\ CallsIn(m.chain) = CallsIn(s.chain) /\ Repeats(m.chain)
  BY <1>3, MutatedCalls, ViewsSame
<1> HIDE DEF m
<1>8. m \in TabRecord /\ m.chain \in Seq(StorageCall)
  BY <1>6 DEF SameButChain, TabRecord
<1>9. SameButChain(Enqueue(m, c), m) /\ Enqueue(m, c).chain = Append(m.chain, c)
  BY <1>5, <1>8, EnqueueIs
<1>10. SameView(Enqueue(m, c), m)
  BY <1>8, ViewsSame
<1>11. /\ CallsIn(Append(m.chain, c)) = CallsIn(s.chain) \cup {<<"remove", id>>}
       /\ ReadsInOrder(Append(m.chain, c))
  BY <1>5, <1>7, <1>8, CallBehind
<1> QED BY <1>2, <1>3, <1>4, <1>6, <1>7, <1>9, <1>10, <1>11 DEF SameButChain, SameView, m

LEMMA NextRoundView ==
    ASSUME NEW s \in TabRecord
    PROVE  LET p == NextRound(s)
           IN  /\ p.copy = s.copy /\ p.feed = s.feed /\ p.pending = s.pending
               /\ p.sending = s.sending /\ p.current /\ p.settled = s.settled
               /\ CallsIn(p.chain) \subseteq CallsIn(s.chain) \cup {<<"pump", None>>}
               /\ CallsIn(s.chain) \subseteq CallsIn(p.chain)
               /\ ReadsInOrder(s.chain) => ReadsInOrder(p.chain)
<1> DEFINE c == ReadFor("pump")
<1>1. /\ NextRound(s).copy = s.copy /\ NextRound(s).feed = s.feed
      /\ NextRound(s).pending = s.pending /\ NextRound(s).sending = s.sending
      /\ NextRound(s).current /\ NextRound(s).settled = s.settled
  BY DEF NextRound, Enqueue, TabRecord
<1>2. NextRound(s).chain = s.chain \/ NextRound(s).chain = Append(s.chain, c)
  BY NextRoundIs
<1>3. c \in StorageCall /\ c.kind = "pump" /\ c.id = None /\ s.chain \in Seq(StorageCall)
  BY CallIs DEF ReadFor, TabRecord
<1> HIDE DEF c
<1>4. /\ CallsIn(Append(s.chain, c)) = CallsIn(s.chain) \cup {<<"pump", None>>}
      /\ ReadsInOrder(s.chain) => ReadsInOrder(Append(s.chain, c))
  BY <1>3, CallBehind
<1> QED BY <1>1, <1>2, <1>4

LEMMA CallsBehind ==
    ASSUME NEW q \in Seq(StorageCall), NEW r \in Seq(StorageCall), Repeats(q),
           \A k \in DOMAIN r : r[k].kind = "setOp"
    PROVE  /\ CallsIn(q) \subseteq CallsIn(q \o r)
           /\ \A x \in CallsIn(q \o r) : x \in CallsIn(q) \/ x[1] = "setOp"
           /\ ReadsInOrder(q \o r)
<1> DEFINE p == q \o r
<1>1. /\ p \in Seq(StorageCall) /\ Len(q) <= Len(p)
      /\ \A k \in 1..Len(q) : p[k] = q[k]
      /\ \A k \in DOMAIN p : k > Len(q) => k - Len(q) \in DOMAIN r /\ p[k] = r[k - Len(q)]
      /\ Len(q) \in Nat
  BY ConcatIs
<1> HIDE DEF p
<1>2. DOMAIN q = 1..Len(q) /\ DOMAIN p = 1..Len(p) /\ Len(p) \in Nat
  BY <1>1
<1>3. \A k \in DOMAIN q : k \in DOMAIN p /\ p[k] = q[k]
  BY <1>1, <1>2
<1>4. \A k \in DOMAIN p : k \in DOMAIN q \/ p[k].kind = "setOp"
  BY <1>1, <1>2
<1>5. CallsIn(q) \subseteq CallsIn(p) /\ \A x \in CallsIn(p) : x \in CallsIn(q) \/ x[1] = "setOp"
  BY <1>3, <1>4 DEF CallsIn
<1>6. ReadsInOrder(p)
  BY <1>3, <1>4 DEF ReadsInOrder, Repeats, Reads
<1> QED BY <1>5, <1>6 DEF p

LEMMA ApplyRewritesView ==
    ASSUME NEW s \in TabRecord, NEW ids, NEW cseq \in Nat
    PROVE  LET p == ApplyRewrites(s, ids, cseq)
           IN  /\ SameView(p, s)
               /\ CallsIn(s.chain) \subseteq CallsIn(p.chain)
               /\ \A x \in CallsIn(p.chain) : x \in CallsIn(s.chain) \/ x[1] = "setOp"
               /\ ReadsInOrder(s.chain) => ReadsInOrder(p.chain)
<1> DEFINE move(e) == IF e.id \in ids THEN [e EXCEPT !.op.base = cseq] ELSE e
           mem     == [k \in DOMAIN s.mem |-> move(s.mem[k])]
           places  == {k \in DOMAIN mem : mem[k].id \in ids}
           changed == Picked(mem, places)
           calls   == [k \in DOMAIN changed |-> Call("setOp", changed[k].id, changed[k].op)]
           t       == [s EXCEPT !.mem = mem]
           m       == Mutated(t)
           p       == [m EXCEPT !.chain = @ \o calls]
<1>1. s.mem \in Seq(Stored) /\ s.chain \in Seq(StorageCall)
  BY DEF TabRecord
<1>2. \A k \in DOMAIN s.mem : s.mem[k] \in Stored
  BY <1>1, ElementsOf
<1>3. ASSUME NEW e \in Stored PROVE move(e) \in Stored
  <2>1. CASE e.id \in ids
    BY <2>1, NewBaseIs
  <2>2. CASE e.id \notin ids
    BY <2>2
  <2> QED BY <2>1, <2>2
<1>4. \A k \in DOMAIN s.mem : mem[k] \in Stored
  <2> SUFFICES ASSUME NEW k \in DOMAIN s.mem
               PROVE  mem[k] \in Stored
    OBVIOUS
  <2>1. mem[k] = move(s.mem[k]) /\ s.mem[k] \in Stored
    BY <1>2
  <2> HIDE DEF move, mem
  <2> QED BY <1>3, <2>1
<1>5. mem = [k \in DOMAIN s.mem |-> mem[k]]
  OBVIOUS
<1>6. ApplyRewrites(s, ids, cseq) = IF ids = {} THEN s ELSE p
  BY DEF ApplyRewrites
<1> HIDE DEF move, mem
<1>7. mem \in Seq(Stored)
  BY <1>1, <1>4, <1>5, EachIsTyped
<1>8. changed \in Seq(Stored)
  BY <1>7, PickedAreThere
<1> HIDE DEF changed, places
<1>9. \A k \in DOMAIN changed : calls[k] \in StorageCall /\ calls[k].kind = "setOp"
  <2>1. \A k \in DOMAIN changed : changed[k] \in Stored
    BY <1>8, ElementsOf
  <2> QED BY <2>1, CallIs DEF Stored
<1>10. calls = [k \in DOMAIN changed |-> calls[k]]
  OBVIOUS
<1> HIDE DEF calls
<1>11. calls \in Seq(StorageCall) /\ DOMAIN calls = DOMAIN changed
  BY <1>8, <1>9, <1>10, EachIsTyped
<1>12. t \in TabRecord /\ t.chain = s.chain /\ SameView(t, s)
  BY <1>7 DEF TabRecord, SameView
<1> HIDE DEF t
<1>13. /\ m \in TabRecord /\ SameView(m, t)
       /\ CallsIn(m.chain) = CallsIn(s.chain) /\ Repeats(m.chain)
  BY <1>12, MutatedIs, MutatedCalls, ViewsSame DEF SameButChain
<1> HIDE DEF m
<1>14. m.chain \in Seq(StorageCall) /\ p.chain = m.chain \o calls /\ SameView(p, m)
  BY <1>13 DEF TabRecord, SameView
<1> HIDE DEF p
<1>15. /\ CallsIn(m.chain) \subseteq CallsIn(p.chain)
       /\ \A x \in CallsIn(p.chain) : x \in CallsIn(m.chain) \/ x[1] = "setOp"
       /\ ReadsInOrder(p.chain)
  <2>1. \A k \in DOMAIN calls : calls[k].kind = "setOp"
    BY <1>9, <1>11
  <2> QED BY <1>11, <1>13, <1>14, <2>1, CallsBehind
<1>16. CASE ids # {}
  BY <1>6, <1>12, <1>13, <1>14, <1>15, <1>16 DEF SameView
<1>17. CASE ids = {}
  BY <1>6, <1>17 DEF SameView
<1> QED BY <1>16, <1>17

\* The rest of what the page shows.
SameButPending(p, s) ==
    /\ p.copy = s.copy /\ p.feed = s.feed
    /\ p.sending = s.sending /\ p.current = s.current /\ p.settled = s.settled

LEMMA ShowView ==
    ASSUME NEW s \in TabRecord, NEW e \in Stored
    PROVE  LET p == Show(s, e)
           IN  /\ SameButPending(p, s)
               /\ ToSet(s.pending) \subseteq ToSet(p.pending)
               /\ \A x \in ToSet(p.pending) :
                     x \in ToSet(s.pending) \/ x = Shown(e.id, e.op, e.sent)
<1>1. CASE e.id \in Ids(s.pending)
  <2>1. Show(s, e) = s
    BY <1>1 DEF Show
  <2> QED BY <2>1 DEF SameButPending
<1>2. CASE e.id \notin Ids(s.pending)
  <2> DEFINE x == Shown(e.id, e.op, e.sent)
  <2>1. s.pending \in Seq(Projection) /\ x \in Projection
    BY ShownIs DEF TabRecord, Stored
  <2>2. Show(s, e) = [s EXCEPT !.pending = Append(s.pending, x)]
    BY <1>2 DEF Show
  <2> HIDE DEF x
  <2>3. /\ SameButPending(Show(s, e), s)
        /\ Show(s, e).pending = Append(s.pending, x)
    BY <2>2 DEF SameButPending, TabRecord
  <2>4. ToSet(Append(s.pending, x)) = ToSet(s.pending) \cup {x}
    BY <2>1, AppendElements
  <2> QED BY <2>3, <2>4 DEF x
<1> QED BY <1>1, <1>2

LEMMA ShowAllView ==
    ASSUME NEW s \in TabRecord, NEW q \in Seq(Stored)
    PROVE  LET p == ShowAll(s, q)
           IN  /\ SameButPending(p, s)
               /\ ToSet(s.pending) \subseteq ToSet(p.pending)
               /\ \A x \in ToSet(p.pending) :
                     \/ x \in ToSet(s.pending)
                     \/ \E e \in ToSet(q) : x = Shown(e.id, e.op, e.sent)
<1> DEFINE new   == NotShown(s, q)
           shown == [k \in DOMAIN new |-> Shown(new[k].id, new[k].op, new[k].sent)]
<1>1. new \in Seq(Stored) /\ ToSet(new) \subseteq ToSet(q)
  <2> DEFINE places == {k \in DOMAIN q : q[k].id \notin Ids(s.pending)}
  <2>1. new \in Seq(Stored) /\ ToSet(new) = {q[k] : k \in places}
    BY PickedAreThere DEF NotShown
  <2> QED BY <2>1 DEF ToSet
<1>2. \A k \in DOMAIN new : new[k] \in Stored /\ new[k] \in ToSet(q)
  BY <1>1, ElementsOf
<1> HIDE DEF new
<1>3. \A k \in DOMAIN new : shown[k] \in Projection
  BY <1>2, ShownIs DEF Stored
<1>4. shown = [k \in DOMAIN new |-> shown[k]]
  OBVIOUS
<1>5. \A x \in ToSet(shown) : \E e \in ToSet(q) : x = Shown(e.id, e.op, e.sent)
  BY <1>2 DEF ToSet
<1>6. ShowAll(s, q) = [s EXCEPT !.pending = s.pending \o shown]
  BY DEF ShowAll, new, shown
<1> HIDE DEF shown
<1>7. shown \in Seq(Projection)
  BY <1>1, <1>3, <1>4, EachIsTyped
<1>8. s.pending \in Seq(Projection)
  BY DEF TabRecord
<1>9. ToSet(s.pending \o shown) = ToSet(s.pending) \cup ToSet(shown)
  BY <1>7, <1>8, ConcatElements
<1>10. ShowAll(s, q).pending = s.pending \o shown /\ SameButPending(ShowAll(s, q), s)
  BY <1>6 DEF SameButPending, TabRecord
<1> QED BY <1>5, <1>9, <1>10

LEMMA DropView ==
    ASSUME NEW s \in TabRecord, NEW id
    PROVE  LET p == Drop(s, id)
           IN  /\ SameButPending(p, s)
               /\ ToSet(p.pending) = {x \in ToSet(s.pending) : x.id # id}
<1>1. s.pending \in Seq(Projection)
  BY DEF TabRecord
<1>2. Drop(s, id).pending = Without(s.pending, id) /\ SameButPending(Drop(s, id), s)
  BY DEF Drop, SameButPending, TabRecord
<1> DEFINE places == {k \in DOMAIN s.pending : s.pending[k].id # id}
<1>3. ToSet(Without(s.pending, id)) = {s.pending[k] : k \in places}
  BY <1>1, PickedAreThere DEF Without
<1>4. {s.pending[k] : k \in places} = {x \in ToSet(s.pending) : x.id # id}
  BY DEF ToSet
<1> QED BY <1>2, <1>3, <1>4

LEMMA UncertainView ==
    ASSUME NEW s \in TabRecord, NEW id
    PROVE  LET p == Uncertain(s, id)
           IN  /\ SameButPending(p, s)
               /\ \A x \in ToSet(s.pending) : x.id # id => x \in ToSet(p.pending)
               /\ \A x \in ToSet(p.pending) :
                     \/ x \in ToSet(s.pending) /\ x.id # id
                     \/ /\ x.uncertain
                        /\ \E y \in ToSet(s.pending) : x.id = y.id /\ x.appliedSeq = y.appliedSeq
<1> DEFINE q == [k \in DOMAIN s.pending |->
                   IF s.pending[k].id = id THEN [s.pending[k] EXCEPT !.uncertain = TRUE]
                   ELSE s.pending[k]]
<1>1. s.pending \in Seq(Projection)
  BY DEF TabRecord
<1>2. Uncertain(s, id).pending = q /\ SameButPending(Uncertain(s, id), s)
  BY DEF Uncertain, SameButPending, TabRecord
<1>3. \A k \in DOMAIN s.pending : s.pending[k] \in Projection
  BY <1>1, ElementsOf
<1>4. \A x \in ToSet(s.pending) : x.id # id => x \in ToSet(q)
  BY DEF ToSet
<1>5. \A k \in DOMAIN s.pending :
         IF s.pending[k].id # id THEN q[k] = s.pending[k]
         ELSE /\ q[k].uncertain
              /\ q[k].id = s.pending[k].id /\ q[k].appliedSeq = s.pending[k].appliedSeq
  BY <1>3 DEF Projection
<1>6. DOMAIN q = DOMAIN s.pending
  OBVIOUS
<1> HIDE DEF q
<1>7. \A x \in ToSet(q) :
         \/ x \in ToSet(s.pending) /\ x.id # id
         \/ /\ x.uncertain
            /\ \E y \in ToSet(s.pending) : x.id = y.id /\ x.appliedSeq = y.appliedSeq
  BY <1>5, <1>6 DEF ToSet
<1> QED BY <1>2, <1>4, <1>7

\* What the view does with an answer.
Heard(p, s, id, answer) ==
    /\ p.copy = s.copy /\ p.feed = s.feed /\ p.sending = None
    /\ p.settled = IF answer.status = "applied"
                   THEN s.settled \cup ({id} \cap Ids(s.pending)) ELSE s.settled
    /\ \A x \in ToSet(s.pending) : x.id # id => x \in ToSet(p.pending)
    /\ \A x \in ToSet(p.pending) :
          \/ x \in ToSet(s.pending) /\ x.id # id
          \/ /\ answer.status = "applied" /\ answer.seq > s.copy.seq
             /\ x.id = id /\ x.appliedSeq = answer.seq
    /\ answer.status = "applied" /\ answer.seq > s.copy.seq /\ id \in Ids(s.pending) =>
          \E x \in ToSet(p.pending) : x.id = id /\ x.appliedSeq = answer.seq /\ ~x.uncertain

LEMMA OpSettledView ==
    ASSUME NEW s \in TabRecord, NEW id \in OpIds, NEW answer \in Answer
    PROVE  Heard(OpSettled(s, id, answer), s, id, answer)
<1> DEFINE settled  == IF answer.status = "applied" THEN s.settled \cup ({id} \cap Ids(s.pending))
                       ELSE s.settled
           answered == IF answer.status = "applied" /\ answer.cseq # 0
                       THEN [cseq |-> answer.cseq, seq |-> answer.seq] ELSE s.answered
           t == [s EXCEPT !.sending = None, !.settled = settled, !.answered = answered]
           q == [k \in DOMAIN t.pending |->
                   IF t.pending[k].id = id
                   THEN [t.pending[k] EXCEPT !.appliedSeq = answer.seq, !.uncertain = FALSE]
                   ELSE t.pending[k]]
           counts == answer.status = "applied" /\ answer.seq > s.copy.seq
           p      == OpSettled(s, id, answer)
<1>1. settled \in SUBSET OpIds /\ answered \in [cseq : Nat, seq : Nat] \cup {None}
  BY DEF TabRecord, Answer
<1>2. s.pending \in Seq(Projection) /\ s.copy.seq \in Int /\ answer.seq \in Nat
  BY DEF TabRecord, Copy, Answer
<1>3. p = IF counts THEN [t EXCEPT !.pending = q] ELSE Drop(t, id)
  <2>1. p = IF answer.status # "applied" THEN Drop(t, id)
            ELSE IF answer.seq <= s.copy.seq THEN Drop(t, id)
            ELSE [t EXCEPT !.pending = q]
    BY DEF OpSettled
  <2>2. counts <=> ~(answer.status # "applied") /\ ~(answer.seq <= s.copy.seq)
    BY <1>2
  <2> HIDE DEF p, t, q, counts
  <2> QED BY <2>1, <2>2
<1> HIDE DEF settled, answered, p, counts
<1>4. /\ t \in TabRecord /\ t.pending = s.pending /\ t.settled = settled
      /\ t.copy = s.copy /\ t.feed = s.feed /\ t.sending = None /\ t.current = s.current
  BY <1>1 DEF TabRecord
<1> HIDE DEF t
<1>5. \A k \in DOMAIN s.pending :
         IF s.pending[k].id # id THEN q[k] = s.pending[k]
         ELSE q[k].id = id /\ q[k].appliedSeq = answer.seq /\ ~q[k].uncertain
  <2>1. \A k \in DOMAIN s.pending : s.pending[k] \in Projection
    BY <1>2, ElementsOf
  <2> QED BY <1>4, <2>1 DEF Projection
<1>6. DOMAIN q = DOMAIN s.pending
  BY <1>4
<1> HIDE DEF q
<1>7. CASE counts
  <2>1. SameButPending(p, t) /\ p.pending = q
    BY <1>3, <1>4, <1>7 DEF SameButPending, TabRecord
  <2>2. \A x \in ToSet(s.pending) : x.id # id => x \in ToSet(q)
    BY <1>5, <1>6 DEF ToSet
  <2>3. \A x \in ToSet(q) : \/ x \in ToSet(s.pending) /\ x.id # id
                            \/ x.id = id /\ x.appliedSeq = answer.seq
    BY <1>5, <1>6 DEF ToSet
  <2>4. ASSUME id \in Ids(s.pending)
        PROVE  \E x \in ToSet(q) : x.id = id /\ x.appliedSeq = answer.seq /\ ~x.uncertain
    <3>1. PICK k \in DOMAIN s.pending : s.pending[k].id = id
      BY <2>4 DEF Ids, ToSet
    <3>2. q[k] \in ToSet(q) /\ q[k].id = id /\ q[k].appliedSeq = answer.seq /\ ~q[k].uncertain
      BY <1>5, <1>6, <3>1 DEF ToSet
    <3> QED BY <3>2
  <2>5. p.copy = s.copy /\ p.feed = s.feed /\ p.sending = None
    BY <1>4, <2>1 DEF SameButPending
  <2>6. p.settled = settled
    BY <1>4, <2>1 DEF SameButPending
  <2>7. answer.status = "applied" /\ answer.seq > s.copy.seq
    BY <1>7 DEF counts
  <2>8. \A x \in ToSet(p.pending) : \/ x \in ToSet(s.pending) /\ x.id # id
                                    \/ x.id = id /\ x.appliedSeq = answer.seq
    BY <2>1, <2>3
  <2>9. \A x \in ToSet(s.pending) : x.id # id => x \in ToSet(p.pending)
    BY <2>1, <2>2
  <2>10. id \in Ids(s.pending) =>
           \E x \in ToSet(p.pending) : x.id = id /\ x.appliedSeq = answer.seq /\ ~x.uncertain
    BY <2>1, <2>4
  <2> QED BY <2>5, <2>6, <2>7, <2>8, <2>9, <2>10 DEF Heard, settled, p
<1>8. CASE ~counts
  <2>1. SameButPending(p, t) /\ ToSet(p.pending) = {x \in ToSet(s.pending) : x.id # id}
    BY <1>3, <1>4, <1>8, DropView
  <2> QED BY <1>4, <1>8, <2>1 DEF Heard, SameButPending, settled, counts, p
<1> QED BY <1>7, <1>8

-----------------------------------------------------------------------------
(* The data that pages hold and the answers they hear: DataInv.  A copy of *)
(* the room has every change written up to its seq and none answered after *)
(* it, whichever way it came to the page, and an answer that says applied  *)
(* is the stored one.                                                      *)

\* The copies of the data: saved, shown, and on their way.
Copies ==
    {saved} \cup {tabs[t].copy : t \in Tabs}
      \cup ({tabs[t].feed : t \in Tabs} \ {None, Asked})

\* A copy has what was written up to its seq, and nothing answered after it.
CopyOK(c, r, done) ==
    /\ c.seq <= r.seq
    /\ \A id \in c.has : done[id] # None /\ done[id].answer.seq <= c.seq
    /\ \A id \in OpIds :
          done[id] # None /\ done[id].wrote /\ done[id].answer.seq <= c.seq => id \in c.has

RanOK(r, done) ==
    \A id \in OpIds : done[id] # None =>
       /\ done[id].answer.seq <= r.seq
       /\ done[id].wrote => done[id].answer.status = "applied" /\ done[id].answer.seq > 0

\* An answer that says applied is the one that is stored.
ReplyOK(s, done) ==
    s.reply # None /\ s.reply.status = "applied" =>
       done[s.cur.id] # None /\ s.reply = done[s.cur.id].answer

DataInv ==
    /\ \A c \in Copies : CopyOK(c, room, processed)
    /\ RanOK(room, processed)
    /\ \A t \in Tabs : ReplyOK(tabs[t], processed)

LEMMA TypesAre ==
    ASSUME QueueInv
    PROVE  /\ room.seq \in Nat /\ RoomOK(room)
           /\ processed \in [OpIds -> RunOnce \cup {None}]
           /\ \A id \in OpIds : processed[id] # None =>
                 /\ processed[id] \in RunOnce /\ processed[id].answer \in Answer
                 /\ processed[id].answer.seq \in Nat
           /\ saved \in Copy /\ saved.seq \in Int /\ saved.has \subseteq OpIds
           /\ \A t \in Tabs : /\ tabs[t] \in TabRecord /\ tabs[t].copy \in Copy
                              /\ tabs[t].copy.seq \in Int /\ tabs[t].copy.has \subseteq OpIds
                              /\ tabs[t].feed \in Copy \cup {None}
           /\ \A c \in Copies : c \in Copy /\ c.seq \in Int /\ c.has \subseteq OpIds
<1>1. Shapes
  BY DEF QueueInv
<1>2. room.seq \in Nat /\ RoomOK(room)
  BY <1>1 DEF Shapes, RoomOK, Room
<1>3. \A id \in OpIds : processed[id] # None =>
         /\ processed[id] \in RunOnce /\ processed[id].answer \in Answer
         /\ processed[id].answer.seq \in Nat
  BY <1>1 DEF Shapes, RunOnce, Answer
<1>4. \A c \in Copy : c.seq \in Int /\ c.has \subseteq OpIds
  BY DEF Copy
<1>5. \A t \in Tabs : /\ tabs[t] \in TabRecord /\ tabs[t].copy \in Copy
                      /\ tabs[t].feed \in Copy \cup {None}
  BY <1>1 DEF Shapes, TabRecord
<1>6. saved \in Copy /\ processed \in [OpIds -> RunOnce \cup {None}]
  BY <1>1 DEF Shapes
<1>7. Copies \subseteq Copy
  BY <1>5, <1>6 DEF Copies
<1> QED BY <1>2, <1>3, <1>4, <1>5, <1>6, <1>7

LEMMA NoCopyHasAll ==
    ASSUME QueueInv, DataInv
    PROVE  CopyOK(NoCopy, room, processed)
<1>1. NoCopy.seq = 0 /\ NoCopy.has = {}
  BY DEF NoCopy
<1>2. room.seq \in Nat
  BY TypesAre
<1>3. \A id \in OpIds : processed[id] # None /\ processed[id].wrote =>
         processed[id].answer.seq > 0 /\ processed[id].answer.seq \in Nat
  BY TypesAre DEF DataInv, RanOK
<1> QED BY <1>1, <1>2, <1>3 DEF CopyOK

LEMMA CopyNowHasAll ==
    ASSUME QueueInv, DataInv
    PROVE  CopyOK(CopyNow, room, processed)
<1>1. /\ CopyNow.seq = room.seq
      /\ CopyNow.has = {id \in OpIds : processed[id] # None /\ processed[id].answer.status = "applied"}
  BY DEF CopyNow
<1>2. room.seq \in Nat
  BY TypesAre
<1> QED BY <1>1, <1>2 DEF CopyOK, DataInv, RanOK

\* A step of one tab moves copies about.
LEMMA CopiesMove ==
    ASSUME QueueInv, DataInv, NEW t \in Tabs, NEW s, tabs' = [tabs EXCEPT ![t] = s],
           UNCHANGED <<room, processed>>,
           \/ s.copy \in {tabs[t].copy, saved, NoCopy}
           \/ s.copy = tabs[t].feed /\ tabs[t].feed \notin {None, Asked},
           s.feed \in {tabs[t].feed, None, Asked, CopyNow},
           \/ saved' \in {saved, NoCopy}
           \/ saved' = tabs[t].feed /\ tabs[t].feed \notin {None, Asked},
           s.reply = None \/ (s.reply = tabs[t].reply /\ s.cur = tabs[t].cur)
    PROVE  DataInv'
<1>1. tabs'[t] = s /\ \A u \in Tabs \ {t} : tabs'[u] = tabs[u]
  BY DEF QueueInv, Shapes
<1>2. /\ tabs[t].copy \in Copies /\ saved \in Copies
      /\ tabs[t].feed \notin {None, Asked} => tabs[t].feed \in Copies
      /\ \A u \in Tabs : tabs[u].copy \in Copies
      /\ \A u \in Tabs : tabs[u].feed \in Copies \cup {None, Asked}
  BY DEF Copies
<1>3. \A u \in Tabs : tabs'[u].copy \in Copies \cup {NoCopy}
  BY <1>1, <1>2
<1>4. \A u \in Tabs : tabs'[u].feed \in Copies \cup {None, Asked, CopyNow}
  BY <1>1, <1>2
<1>5. saved' \in Copies \cup {NoCopy}
  BY <1>2
<1>6. Copies' \subseteq Copies \cup {NoCopy, CopyNow}
  <2>1. ASSUME NEW c \in Copies'
        PROVE  c \in Copies \cup {NoCopy, CopyNow}
    <3>1. CASE c = saved'
      BY <1>5, <3>1
    <3>2. CASE \E u \in Tabs : c = tabs'[u].copy
      BY <1>3, <3>2
    <3>3. CASE \E u \in Tabs : c = tabs'[u].feed /\ c \notin {None, Asked}
      BY <1>4, <3>3
    <3>4. Asked' = Asked
      BY DEF Asked, NoCopy
    <3> QED BY <2>1, <3>1, <3>2, <3>3, <3>4 DEF Copies
  <2> QED BY <2>1
<1>7. \A c \in Copies' : CopyOK(c, room', processed')
  BY <1>6, NoCopyHasAll, CopyNowHasAll DEF DataInv
<1>8. \A u \in Tabs : ReplyOK(tabs'[u], processed')
  BY <1>1 DEF DataInv, ReplyOK
<1>9. RanOK(room', processed')
  BY DEF DataInv
<1> HIDE DEF DataInv
<1>10. DataInv' = (/\ \A c \in Copies' : CopyOK(c, room', processed')
                   /\ RanOK(room', processed')
                   /\ \A u \in Tabs : ReplyOK(tabs'[u], processed'))
  BY DEF DataInv, CopyOK, RanOK, ReplyOK
<1> QED BY <1>7, <1>8, <1>9, <1>10

-----------------------------------------------------------------------------
(* What the server does to the data.                                       *)

\* A handler that writes takes one seq and says applied.
Moves(o, r) == o.room = r \/ (o.status = "applied" /\ o.room.seq = r.seq + 1)

LEMMA ChangedMoves ==
    ASSUME NEW r, RoomOK(r), NEW row \in ItemRow
    PROVE  Moves(AppliedItem(PutItemIfChanged(r, TheItem, row), TheItem), r)
<1>1. PutItem(r, TheItem, row).seq = r.seq + 1
  BY DEF PutItem, RoomOK, Room
<1> DEFINE new == PutItemIfChanged(r, TheItem, row)
<1>2. new = r \/ new.seq = r.seq + 1
  BY <1>1 DEF PutItemIfChanged
<1> HIDE DEF new
<1>3. AppliedItem(new, TheItem).room = new /\ AppliedItem(new, TheItem).status = "applied"
  BY DEF AppliedItem, Applied
<1> QED BY <1>2, <1>3 DEF Moves, new

LEMMA RefusedMoves ==
    ASSUME NEW r, NEW code
    PROVE  Moves(Rejected(r, code, None), r) /\ Moves(HttpError(r, code), r)
BY DEF Moves, Rejected, HttpError

LEMMA OutcomeMoves ==
    ASSUME NEW r, RoomOK(r), NEW op \in UserOps
    PROVE  Moves(Outcome(r, op), r)
<1> DEFINE row == r.items[TheItem]
<1>1. /\ op.item = TheItem
      /\ op.type \in {"item.quantity_delta", "item.edit", "item.set_done"}
  BY OpTypesAreKnown DEF UserOps
<1>2. row \in ItemRow
  BY DEF RoomOK
<1>3. ASSUME op.type = "item.set_done"
      PROVE  Moves(ItemSetDone(r, op), r)
  <2>1. op.done \in BOOLEAN
    BY <1>3 DEF UserOps
  <2>2. [row EXCEPT !.done = op.done] \in ItemRow
    BY <1>2, <2>1 DEF ItemRow
  <2>3. Moves(AppliedItem(PutItemIfChanged(r, TheItem, [row EXCEPT !.done = op.done]), TheItem), r)
    BY <2>2, ChangedMoves
  <2>4. Moves(Rejected(r, "changed_meanwhile", None), r)
    BY RefusedMoves
  <2> QED BY <1>1, <2>3, <2>4 DEF ItemSetDone
<1>4. ASSUME op.type = "item.quantity_delta"
      PROVE  Moves(ItemQuantityDelta(r, op), r)
  <2>1. op.qty = 1
    BY <1>4 DEF UserOps
  <2>2. AddQuantity(row.qty, op.qty) \in Nat \ {0}
    BY <1>2, <2>1 DEF AddQuantity, ItemRow
  <2>3. [row EXCEPT !.qty = AddQuantity(row.qty, op.qty)] \in ItemRow
    BY <1>2, <2>2 DEF ItemRow
  <2>4. Moves(AppliedItem(PutItemIfChanged(r, TheItem,
                 [row EXCEPT !.qty = AddQuantity(row.qty, op.qty)]), TheItem), r)
    BY <2>3, ChangedMoves
  <2> QED BY <1>1, <2>4 DEF ItemQuantityDelta
<1>5. ASSUME op.type = "item.edit"
      PROVE  Moves(ItemEdit(r, op), r)
  <2> DEFINE qty    == IF op.qty = None THEN row.qty ELSE op.qty
             wanted == [row EXCEPT !.name = op.name, !.qty = qty]
  <2>1. op.name \in Names /\ op.qty \in {1, None}
    BY <1>5 DEF UserOps
  <2>2. qty \in Nat \ {0}
    BY <1>2, <2>1 DEF ItemRow
  <2> HIDE DEF qty
  <2>3. wanted \in ItemRow
    BY <1>2, <2>1, <2>2 DEF ItemRow
  <2>4. Moves(AppliedItem(PutItemIfChanged(r, TheItem, wanted), TheItem), r)
    BY <2>3, ChangedMoves
  <2>5. /\ Moves(Rejected(r, "changed_meanwhile", None), r)
        /\ Moves(Rejected(r, "duplicate_name", None), r)
    BY RefusedMoves
  <2>6. wanted = [row EXCEPT !.name = op.name,
                             !.qty = IF op.qty = None THEN @ ELSE op.qty]
    BY DEF qty
  <2> HIDE DEF wanted
  <2>7. ItemEdit(r, op) \in {Rejected(r, "changed_meanwhile", None),
                             Rejected(r, "duplicate_name", None),
                             AppliedItem(PutItemIfChanged(r, TheItem, wanted), TheItem)}
    BY <1>1, <2>6 DEF ItemEdit
  <2> QED BY <2>4, <2>5, <2>7
<1>6. Moves(Handler(r, op), r)
  <2>1. CASE op.type = "item.set_done"
    <3>1. Handler(r, op) = ItemSetDone(r, op)
      BY <2>1 DEF Handler, SettingsTypes
    <3> QED BY <1>3, <2>1, <3>1
  <2>2. CASE op.type = "item.quantity_delta"
    <3>1. Handler(r, op) = ItemQuantityDelta(r, op)
      BY <2>2 DEF Handler, SettingsTypes
    <3> QED BY <1>4, <2>2, <3>1
  <2>3. CASE op.type = "item.edit"
    <3>1. Handler(r, op) = ItemEdit(r, op)
      BY <2>3 DEF Handler, SettingsTypes
    <3> QED BY <1>5, <2>3, <3>1
  <2> QED BY <1>1, <2>1, <2>2, <2>3
<1>7. Outcome(r, op) \in {HttpError(r, "invalid_request"), Rejected(r, "list_unavailable", None),
                          Rejected(r, "item_not_found", None), Handler(r, op)}
  BY DEF Outcome
<1> QED BY <1>6, <1>7, RefusedMoves

\* An answer that arrives, and nothing else of a tab.
SameButReply(p, s) ==
    /\ p \in TabRecord
    /\ SameView(p, s)
    /\ p.mem = s.mem /\ p.sent = s.sent /\ p.chain = s.chain /\ p.pc = s.pc /\ p.cur = s.cur

LEMMA DeliverView ==
    ASSUME QueueInv, NEW r \in net, NEW answer \in Answer, Deliver(r, answer)
    PROVE  \A t \in Tabs :
              /\ SameButReply(tabs'[t], tabs[t])
              /\ \/ tabs'[t].reply = tabs[t].reply
                 \/ tabs'[t].reply = answer /\ tabs[t].cur.id = r.id
<1>1. /\ tabs \in [Tabs -> TabRecord]
      /\ tabs' = IF r.tab = None THEN tabs ELSE [tabs EXCEPT ![r.tab].reply = answer]
  BY DEF QueueInv, Shapes, Deliver
<1>2. Awaits(r, tabs)
  BY DEF QueueInv, Requests
<1> TAKE t \in Tabs
<1>3. CASE r.tab = None \/ t # r.tab
  <2>1. tabs'[t] = tabs[t]
    BY <1>1, <1>3
  <2> QED BY <1>1, <2>1 DEF SameButReply, SameView
<1>4. CASE r.tab # None /\ t = r.tab
  <2>1. tabs'[t] = [tabs[t] EXCEPT !.reply = answer]
    BY <1>1, <1>4
  <2>2. tabs[t] \in TabRecord
    BY <1>1
  <2>3. tabs[t].cur.id = r.id
    BY <1>2, <1>4 DEF Awaits
  <2> QED BY <2>1, <2>2, <2>3 DEF TabRecord, SameButReply, SameView
<1> QED BY <1>3, <1>4

\* What has run stays as it ran.
Grows(done, done2) == \A id \in OpIds : done[id] # None => done2[id] = done[id]

LEMMA ServeGrows ==
    ASSUME QueueInv, DataInv, NEW r \in net, Serve(r)
    PROVE  /\ r.id \in OpIds /\ Grows(processed, processed')
           /\ \A id \in OpIds \ {r.id} : processed'[id] = processed[id]
           /\ \E answer \in Answer :
                 /\ Deliver(r, answer)
                 /\ answer.status = "applied" =>
                       processed'[r.id] # None /\ answer = processed'[r.id].answer
           /\ room.seq <= room'.seq /\ room'.seq \in Nat
           /\ \/ UNCHANGED <<room, processed>>
              \/ /\ processed[r.id] = None /\ processed'[r.id] # None
                 /\ processed'[r.id].answer.seq = room'.seq
                 /\ processed'[r.id].wrote => /\ processed'[r.id].answer.status = "applied"
                                              /\ room'.seq = room.seq + 1
<1> DEFINE outcome == Outcome(room, r.op)
           answer  == AnswerOf(outcome)
           reused  == AnswerOf(HttpError(room, "op_id_reused"))
           once    == [op |-> r.op, answer |-> answer, wrote |-> outcome.room # room]
<1>1. /\ r.id \in OpIds /\ r.op \in UserOps /\ RoomOK(room) /\ room.seq \in Nat
      /\ processed \in [OpIds -> RunOnce \cup {None}]
  BY TypesAre DEF QueueInv, Shapes
<1>2. OutcomeOK(outcome) /\ Moves(outcome, room)
  BY <1>1, OutcomeIs, OutcomeMoves
<1>3. answer \in Answer /\ outcome.room.seq \in Nat /\ room.seq <= outcome.room.seq
  BY <1>1, <1>2, AnswerOfIs DEF OutcomeOK, RoomOK, Room, Moves
<1>4. reused \in Answer /\ reused.status = "error"
  <2>1. OutcomeOK(HttpError(room, "op_id_reused"))
    BY <1>1, RejectedIs DEF Codes
  <2>2. AnswerOf(HttpError(room, "op_id_reused")) \in Answer
    BY <2>1, AnswerOfIs
  <2>3. AnswerOf(HttpError(room, "op_id_reused")).status = "error"
    BY DEF AnswerOf, HttpError
  <2> QED BY <2>2, <2>3
<1>5. /\ once.answer = answer /\ answer.seq = outcome.room.seq /\ answer.status = outcome.status
      /\ once.wrote => outcome.room # room
  BY DEF AnswerOf
<1>6. once # None
  <2> DEFINE wrote == outcome.room # room
  <2>1. wrote \in BOOLEAN
    OBVIOUS
  <2> HIDE DEF outcome, answer, wrote
  <2>2. [op |-> r.op, answer |-> answer, wrote |-> wrote] \in RunOnce
    BY <1>1, <1>3, <2>1 DEF RunOnce
  <2>3. once = [op |-> r.op, answer |-> answer, wrote |-> wrote]
    BY DEF wrote
  <2> HIDE DEF once
  <2> QED BY <2>2, <2>3, NoneIsNoRecord
<1> HIDE DEF outcome, answer, once, reused
<1>7. CASE /\ processed[r.id] = None
           /\ room' = outcome.room
           /\ processed' = [processed EXCEPT ![r.id] = once]
           /\ Deliver(r, answer)
  <2>1. processed'[r.id] = once /\ \A id \in OpIds \ {r.id} : processed'[id] = processed[id]
    BY <1>1, <1>7
  <2>2. Grows(processed, processed')
    BY <1>7, <2>1 DEF Grows
  <2>3. once.wrote => answer.status = "applied" /\ room'.seq = room.seq + 1
    BY <1>2, <1>5, <1>7 DEF Moves
  <2>4. room.seq <= room'.seq /\ room'.seq \in Nat /\ once.answer.seq = room'.seq
    BY <1>3, <1>5, <1>7
  <2>5. /\ Deliver(r, answer)
        /\ answer.status = "applied" =>
              processed'[r.id] # None /\ answer = processed'[r.id].answer
    BY <1>5, <1>6, <1>7, <2>1
  <2> QED BY <1>1, <1>3, <1>5, <1>6, <1>7, <2>1, <2>2, <2>3, <2>4, <2>5
<1>8. CASE /\ processed[r.id] # None
           /\ Deliver(r, IF processed[r.id].op = r.op THEN processed[r.id].answer ELSE reused)
           /\ UNCHANGED <<room, processed, log>>
  <2> DEFINE given == IF processed[r.id].op = r.op THEN processed[r.id].answer ELSE reused
  <2>1. processed[r.id] \in RunOnce /\ processed[r.id].answer \in Answer
    BY <1>1, <1>8, TypesAre
  <2>2. given \in Answer /\ Deliver(r, given)
    BY <1>4, <1>8, <2>1
  <2>3. given.status = "applied" => given = processed[r.id].answer
    BY <1>4
  <2> HIDE DEF given
  <2>4. Grows(processed, processed') /\ room.seq <= room'.seq /\ room'.seq \in Nat
    BY <1>1, <1>8 DEF Grows
  <2> QED BY <1>1, <1>8, <2>2, <2>3, <2>4
<1> QED BY <1>7, <1>8 DEF Serve, serverVars, outcome, answer, once, reused

LEMMA CopiesStay ==
    ASSUME QueueInv, saved' = saved, \A t \in Tabs : SameView(tabs'[t], tabs[t])
    PROVE  Copies' = Copies
<1>1. Copies' = {saved'} \cup {tabs'[t].copy : t \in Tabs}
                  \cup ({tabs'[t].feed : t \in Tabs} \ {None, Asked})
  BY DEF Copies, Asked, NoCopy
<1>2. \A t \in Tabs : tabs'[t].copy = tabs[t].copy /\ tabs'[t].feed = tabs[t].feed
  BY DEF SameView
<1>3. {tabs'[t].copy : t \in Tabs} = {tabs[t].copy : t \in Tabs}
  BY <1>2
<1>4. {tabs'[t].feed : t \in Tabs} = {tabs[t].feed : t \in Tabs}
  BY <1>2
<1> QED BY <1>1, <1>3, <1>4 DEF Copies

LEMMA DataIs ==
    ASSUME \A c \in Copies' : CopyOK(c, room', processed'), RanOK(room', processed'),
           \A t \in Tabs : ReplyOK(tabs'[t], processed')
    PROVE  DataInv'
<1>1. DataInv' = (/\ \A c \in Copies' : CopyOK(c, room', processed')
                  /\ RanOK(room', processed')
                  /\ \A u \in Tabs : ReplyOK(tabs'[u], processed'))
  BY DEF DataInv, CopyOK, RanOK, ReplyOK
<1> QED BY <1>1

LEMMA ServeKeepsData ==
    ASSUME QueueInv, DataInv, NEW r \in net, Serve(r)
    PROVE  DataInv'
<1>1. /\ r.id \in OpIds /\ Grows(processed, processed')
      /\ \A id \in OpIds \ {r.id} : processed'[id] = processed[id]
      /\ room.seq <= room'.seq /\ room'.seq \in Nat
      /\ \/ UNCHANGED <<room, processed>>
         \/ /\ processed[r.id] = None /\ processed'[r.id] # None
            /\ processed'[r.id].answer.seq = room'.seq
            /\ processed'[r.id].wrote => /\ processed'[r.id].answer.status = "applied"
                                         /\ room'.seq = room.seq + 1
  BY ServeGrows
<1>2. PICK answer \in Answer :
         /\ Deliver(r, answer)
         /\ answer.status = "applied" =>
               processed'[r.id] # None /\ answer = processed'[r.id].answer
  BY ServeGrows
<1>3. \A t \in Tabs :
         /\ SameButReply(tabs'[t], tabs[t])
         /\ \/ tabs'[t].reply = tabs[t].reply
            \/ tabs'[t].reply = answer /\ tabs[t].cur.id = r.id
  BY <1>2, DeliverView
<1>4. Copies' = Copies
  BY <1>3, CopiesStay DEF SameButReply, Serve, deviceVars
<1>5. room.seq \in Nat /\ \A id \in OpIds : processed[id] # None => processed[id].answer.seq \in Nat
  BY TypesAre
<1>6. ASSUME NEW c \in Copies
      PROVE  CopyOK(c, room', processed')
  <2>1. CopyOK(c, room, processed) /\ c.seq \in Int /\ c.has \subseteq OpIds
    BY TypesAre DEF DataInv
  <2>2. c.seq <= room'.seq
    BY <1>1, <1>5, <2>1 DEF CopyOK
  <2>3. \A id \in c.has : processed'[id] # None /\ processed'[id].answer.seq <= c.seq
    BY <1>1, <2>1 DEF CopyOK, Grows
  <2>4. ASSUME NEW id \in OpIds, processed'[id] # None, processed'[id].wrote,
               processed'[id].answer.seq <= c.seq
        PROVE  id \in c.has
    <3>1. CASE processed'[id] = processed[id]
      BY <2>1, <2>4, <3>1 DEF CopyOK
    <3>2. CASE processed'[id] # processed[id]
      <4>1. id = r.id /\ processed'[id].answer.seq = room.seq + 1
        BY <1>1, <2>4, <3>2
      <4>2. c.seq <= room.seq
        BY <2>1 DEF CopyOK
      <4> QED BY <1>5, <2>1, <2>4, <4>1, <4>2
    <3> QED BY <3>1, <3>2
  <2> QED BY <2>2, <2>3, <2>4 DEF CopyOK
<1>7. RanOK(room', processed')
  <2> SUFFICES ASSUME NEW id \in OpIds, processed'[id] # None
               PROVE  /\ processed'[id].answer.seq <= room'.seq
                      /\ processed'[id].wrote =>
                           processed'[id].answer.status = "applied" /\ processed'[id].answer.seq > 0
    BY DEF RanOK
  <2>1. CASE processed'[id] = processed[id]
    <3>1. /\ processed[id].answer.seq <= room.seq
          /\ processed[id].wrote =>
                processed[id].answer.status = "applied" /\ processed[id].answer.seq > 0
      BY <2>1 DEF DataInv, RanOK
    <3> QED BY <1>1, <1>5, <2>1, <3>1
  <2>2. CASE processed'[id] # processed[id]
    <3>1. id = r.id
      BY <1>1, <2>2
    <3> QED BY <1>1, <1>5, <2>2, <3>1
  <2> QED BY <2>1, <2>2
<1>8. ASSUME NEW t \in Tabs
      PROVE  ReplyOK(tabs'[t], processed')
  <2>1. tabs'[t].cur = tabs[t].cur
    BY <1>3 DEF SameButReply
  <2>2. CASE tabs'[t].reply = tabs[t].reply
    <3>1. ReplyOK(tabs[t], processed)
      BY DEF DataInv
    <3>2. tabs[t].reply # None => tabs[t].cur.id \in OpIds
      <4>1. tabs[t].reply # None => tabs[t].pc = "call"
        BY TabOf DEF TabOK, EntriesOK
      <4> QED BY <4>1, CurIs
    <3> QED BY <1>1, <2>1, <2>2, <3>1, <3>2 DEF ReplyOK, Grows
  <2>3. CASE tabs'[t].reply = answer /\ tabs[t].cur.id = r.id
    BY <1>2, <2>1, <2>3 DEF ReplyOK
  <2> QED BY <1>3, <2>2, <2>3
<1> QED BY <1>4, <1>6, <1>7, <1>8, DataIs

LEMMA RefuseKeepsData ==
    ASSUME QueueInv, DataInv, NEW r \in net, Refuse(r)
    PROVE  /\ DataInv'
           /\ \A t \in Tabs : SameButReply(tabs'[t], tabs[t])
<1> DEFINE answer == AnswerOf(HttpError(room, "refused"))
<1>1. UNCHANGED <<room, processed, saved>> /\ Deliver(r, answer)
  BY DEF Refuse, serverVars, deviceVars
<1>2. answer \in Answer /\ answer.status = "error"
  <2>1. OutcomeOK(HttpError(room, "refused"))
    BY TypesAre, RejectedIs DEF Codes
  <2>2. AnswerOf(HttpError(room, "refused")) \in Answer
    BY <2>1, AnswerOfIs
  <2>3. AnswerOf(HttpError(room, "refused")).status = "error"
    BY DEF AnswerOf, HttpError
  <2> QED BY <2>2, <2>3
<1> HIDE DEF answer
<1>3. \A t \in Tabs :
         /\ SameButReply(tabs'[t], tabs[t])
         /\ \/ tabs'[t].reply = tabs[t].reply
            \/ tabs'[t].reply = answer /\ tabs[t].cur.id = r.id
  BY <1>1, <1>2, DeliverView
<1>4. Copies' = Copies
  BY <1>1, <1>3, CopiesStay DEF SameButReply
<1>5. \A t \in Tabs : ReplyOK(tabs'[t], processed')
  BY <1>1, <1>2, <1>3 DEF ReplyOK, DataInv, SameButReply
<1>6. \A c \in Copies' : CopyOK(c, room', processed')
  BY <1>1, <1>4 DEF DataInv
<1>7. RanOK(room', processed')
  BY <1>1 DEF DataInv
<1> QED BY <1>3, <1>5, <1>6, <1>7, DataIs

LEMMA ForeignKeepsData ==
    ASSUME QueueInv, DataInv, Foreign
    PROVE  DataInv'
<1>1. UNCHANGED <<processed, tabs, saved>>
  BY DEF Foreign, deviceVars
<1>2. room'.seq = room.seq + 1 /\ room.seq \in Nat
  <2>1. PICK n \in Names :
           room' = PutItem(room, TheItem, [room.items[TheItem] EXCEPT !.name = n])
    BY DEF Foreign
  <2>2. RoomOK(room) /\ room.seq \in Nat
    BY TypesAre
  <2> DEFINE row == [room.items[TheItem] EXCEPT !.name = n]
  <2> HIDE DEF row
  <2>3. PutItem(room, TheItem, row).seq = room.seq + 1
    BY <2>2 DEF PutItem, RoomOK, Room
  <2> QED BY <2>1, <2>2, <2>3 DEF row
<1>3. Copies' = Copies
  BY <1>1, CopiesStay DEF SameView
<1>4. \A c \in Copies : CopyOK(c, room', processed')
  <2>1. \A c \in Copies : c.seq \in Int /\ c.seq <= room.seq
    BY TypesAre DEF DataInv, CopyOK
  <2>2. \A c \in Copies : c.seq <= room'.seq
    BY <1>2, <2>1
  <2> QED BY <1>1, <2>2 DEF DataInv, CopyOK
<1>5. RanOK(room', processed')
  <2>1. \A id \in OpIds : processed[id] # None => processed[id].answer.seq \in Nat
    BY TypesAre
  <2> QED BY <1>1, <1>2, <2>1 DEF DataInv, RanOK
<1>6. \A t \in Tabs : ReplyOK(tabs'[t], processed')
  BY <1>1 DEF DataInv
<1> QED BY <1>3, <1>4, <1>5, <1>6, DataIs

-----------------------------------------------------------------------------
(* A change the page heard of stays shown: PageInv.  Its projection stays  *)
(* until the data reaches the answer's seq, and DataInv says that the data *)
(* has the change then.  No later answer takes the projection back: the    *)
(* entry is out of memory, and a read that counts waits for the removal    *)
(* from storage, since reads and removals keep their order (ReadsInOrder). *)

\* A page shows nothing before it has read what is stored.
Opening(s) == \E id : <<"init", id>> \in CallsIn(s.chain)
OpeningOK(s) ==
    Opening(s) =>
       /\ Len(s.chain) = 1 /\ s.mem = <<>> /\ s.pc = "idle" /\ s.feed = None
       /\ s.copy = NoCopy /\ s.pending = <<>> /\ s.settled = {}

Removes(s, id) == <<"remove", id>> \in CallsIn(s.chain)
Adds(s, id)    == <<"add", id>> \in CallsIn(s.chain)

\* A change the page heard of is shown, and the page will not send it again.
StaysShown(s, id, done) ==
    \/ ~done[id].wrote
    \/ id \in s.copy.has
    \/ \E p \in ToSet(s.pending) :
          p.id = id /\ p.appliedSeq = done[id].answer.seq /\ ~p.uncertain

SettledOK(s, done, stored) ==
    \A id \in s.settled :
       /\ done[id] # None
       /\ id \notin Ids(s.mem)
       /\ s.cur # None => s.cur.id # id
       /\ id \in stored => Removes(s, id)
       /\ StaysShown(s, id, done)

PageOK(s, done, stored) ==
    ReadsInOrder(s.chain) /\ OpeningOK(s) /\ SettledOK(s, done, stored)

PageInv == \A t \in Tabs : PageOK(tabs[t], processed, Ids(disk))

LEMMA NotOpening ==
    ASSUME NEW s0, NEW s, OpeningOK(s0),
           s0.mem # <<>> \/ s0.pc # "idle" \/ s0.feed # None \/ s0.copy # NoCopy,
           Opening(s) => Opening(s0)
    PROVE  ~Opening(s0) /\ ~Opening(s) /\ OpeningOK(s)
BY DEF OpeningOK, Opening

\* What was heard of stays shown if the step takes nothing away.
LEMMA SettledStays ==
    ASSUME NEW s0, NEW s, NEW done, NEW stored, NEW stored2, SettledOK(s0, done, stored),
           s.settled \subseteq s0.settled, s.copy = s0.copy,
           \A id \in s.settled :
              /\ s.cur = s0.cur \/ s.cur = None \/ s.cur.id # id
              /\ id \in stored2 /\ done[id] # None => id \in stored
              /\ id \in stored2 /\ Removes(s0, id) => Removes(s, id)
              /\ id \notin Ids(s0.mem) => id \notin Ids(s.mem)
              /\ \A p \in ToSet(s0.pending) : p.id = id => p \in ToSet(s.pending)
    PROVE  SettledOK(s, done, stored2)
<1> SUFFICES ASSUME NEW id \in s.settled
             PROVE  /\ done[id] # None
                    /\ id \notin Ids(s.mem)
                    /\ s.cur # None => s.cur.id # id
                    /\ id \in stored2 => Removes(s, id)
                    /\ StaysShown(s, id, done)
  BY DEF SettledOK
<1>1. /\ done[id] # None
      /\ id \notin Ids(s0.mem)
      /\ s0.cur # None => s0.cur.id # id
      /\ id \in stored => Removes(s0, id)
      /\ StaysShown(s0, id, done)
  BY DEF SettledOK
<1>2. id \in stored2 => Removes(s, id)
  BY <1>1
<1>3. StaysShown(s, id, done)
  BY <1>1 DEF StaysShown
<1> QED BY <1>1, <1>2, <1>3

\* The other tabs see ops run, and new ones stored.
LEMMA PageStays ==
    ASSUME NEW s, NEW done, NEW done2, NEW stored, NEW stored2, PageOK(s, done, stored),
           Grows(done, done2), s.settled \subseteq OpIds,
           \A id \in stored2 : id \in stored \/ done[id] = None
    PROVE  PageOK(s, done2, stored2)
<1>1. \A id \in s.settled : done[id] # None /\ done2[id] = done[id]
  BY DEF PageOK, SettledOK, Grows
<1>2. SettledOK(s, done2, stored2)
  BY <1>1 DEF PageOK, SettledOK, StaysShown
<1> QED BY <1>2 DEF PageOK

LEMMA PageTabStep ==
    ASSUME QueueInv, PageInv, NEW t \in Tabs, NEW s, tabs' = [tabs EXCEPT ![t] = s],
           Grows(processed, processed'),
           \A id \in Ids(disk') : id \in Ids(disk) \/ processed[id] = None,
           PageOK(s, processed', Ids(disk'))
    PROVE  PageInv'
<1>1. tabs'[t] = s /\ \A u \in Tabs \ {t} : tabs'[u] = tabs[u]
  BY DEF QueueInv, Shapes
<1>2. ASSUME NEW u \in Tabs PROVE PageOK(tabs'[u], processed', Ids(disk'))
  <2>1. CASE u = t
    BY <1>1, <2>1
  <2>2. CASE u # t
    <3>1. PageOK(tabs[u], processed, Ids(disk)) /\ tabs[u].settled \subseteq OpIds
      BY TypesAre DEF PageInv, TabRecord
    <3>2. PageOK(tabs[u], processed', Ids(disk'))
      BY <3>1, PageStays
    <3> QED BY <1>1, <2>2, <3>2
  <2> QED BY <2>1, <2>2
<1>3. PageInv' = \A u \in Tabs : PageOK(tabs'[u], processed', Ids(disk'))
  BY DEF PageInv, PageOK, ReadsInOrder, OpeningOK, Opening, SettledOK, Removes, StaysShown,
         CallsIn, Ids, NoCopy, Reads
<1> QED BY <1>2, <1>3

\* A step that stores nothing and runs nothing.
LEMMA PageQuietStep ==
    ASSUME QueueInv, PageInv, NEW t \in Tabs, NEW s, tabs' = [tabs EXCEPT ![t] = s],
           processed' = processed, disk' = disk, PageOK(s, processed, Ids(disk))
    PROVE  PageInv'
<1>1. Grows(processed, processed') /\ Ids(disk') = Ids(disk)
  BY DEF Grows, Ids
<1> QED BY <1>1, PageTabStep

LEMMA PageOf ==
    ASSUME QueueInv, PageInv, NEW t \in Tabs
    PROVE  /\ tabs[t] \in TabRecord /\ tabs[t].chain \in Seq(StorageCall)
           /\ TabOK(tabs[t], MadeIds, OverIds, FrontIds)
           /\ EntriesOK(tabs[t], MadeIds, OverIds, FrontIds)
           /\ PageOK(tabs[t], processed, Ids(disk))
           /\ ReadsInOrder(tabs[t].chain) /\ OpeningOK(tabs[t])
           /\ SettledOK(tabs[t], processed, Ids(disk))
           /\ \A id \in tabs[t].settled : id \in OpIds /\ id \in MadeIds
<1>1. /\ tabs[t] \in TabRecord /\ tabs[t].chain \in Seq(StorageCall)
      /\ TabOK(tabs[t], MadeIds, OverIds, FrontIds)
  BY TabOf
<1>2. PageOK(tabs[t], processed, Ids(disk))
  BY DEF PageInv
<1>3. ASSUME NEW id \in tabs[t].settled PROVE id \in OpIds /\ id \in MadeIds
  <2>1. id \in OpIds /\ processed[id] # None
    BY <1>1, <1>2 DEF PageOK, SettledOK, TabRecord
  <2>2. id \in ToSet(log)
    BY <2>1 DEF QueueInv, LogIsProcessed
  <2> QED BY <2>1, <2>2 DEF QueueInv, OverIds
<1> QED BY <1>1, <1>2, <1>3 DEF PageOK, TabOK

-----------------------------------------------------------------------------
(* Each step of a page, as what it does to the loop and to what is shown.  *)

\* What a step does to the queue's side of a tab, apart from its calls.
SameLoop(p, s) ==
    /\ p.mem = s.mem /\ p.sent = s.sent /\ p.pc = s.pc /\ p.cur = s.cur /\ p.reply = s.reply

LEMMA OpenView ==
    ASSUME QueueInv, NEW t \in Tabs, Open(t)
    PROVE  \E s \in TabRecord :
              /\ tabs' = [tabs EXCEPT ![t] = s]
              /\ SameLoop(s, ClosedTab) /\ SameView(s, ClosedTab)
              /\ Len(s.chain) = 1 /\ CallsIn(s.chain) = {<<"init", None>>}
              /\ ReadsInOrder(s.chain)
<1> DEFINE o == [ClosedTab EXCEPT !.up = TRUE]
           c == ReadFor("init")
           s == Enqueue(o, c)
<1>1. tabs' = [tabs EXCEPT ![t] = s]
  BY DEF Open
<1>2. /\ o \in TabRecord /\ SameLoop(o, ClosedTab) /\ SameView(o, ClosedTab)
      /\ o.chain = <<>>
  BY ClosedTabIs DEF TabRecord, SameLoop, SameView
<1>3. c \in StorageCall /\ c.kind = "init" /\ c.id = None
  BY CallIs DEF ReadFor
<1> HIDE DEF o, c
<1>4. /\ SameButChain(s, o) /\ s.chain = Append(<<>>, c) /\ SameView(s, o)
  BY <1>2, <1>3, EnqueueIs, ViewsSame
<1> HIDE DEF s
<1>5. <<>> \in Seq(StorageCall)
  OBVIOUS
<1>6. CallsIn(Append(<<>>, c)) = CallsIn(<<>>) \cup {<<c.kind, c.id>>} /\ ReadsInOrder(Append(<<>>, c))
  BY <1>3, <1>5, CallBehind
<1>7. CallsIn(<<>>) = {}
  BY DEF CallsIn
<1>8. Len(s.chain) = 1
  BY <1>3, <1>4, <1>5, AppendProperties
<1> QED BY <1>1, <1>2, <1>3, <1>4, <1>6, <1>7, <1>8 DEF SameButChain, SameLoop, SameView

LEMMA SendView ==
    ASSUME QueueInv, NEW t \in Tabs, Send(t)
    PROVE  \E id \in OpIds, op \in UserOps, s \in TabRecord :
              /\ tabs[t].copy.row # None /\ seen[id] = None
              /\ tabs' = [tabs EXCEPT ![t] = s]
              /\ Ids(s.mem) = Ids(tabs[t].mem) \cup {id} /\ s.sent = tabs[t].sent
              /\ s.cur = tabs[t].cur /\ s.reply = tabs[t].reply
              /\ s.pc = IF tabs[t].pc = "idle" THEN "lock" ELSE tabs[t].pc
              /\ CallsIn(s.chain) = CallsIn(tabs[t].chain) \cup {<<"add", id>>}
              /\ ReadsInOrder(s.chain)
              /\ SameButPending(s, tabs[t])
              /\ ToSet(tabs[t].pending) \subseteq ToSet(s.pending)
              /\ \A x \in ToSet(s.pending) :
                    x \in ToSet(tabs[t].pending) \/ x = Shown(id, op, FALSE)
<1> DEFINE s0 == tabs[t]
<1>1. PICK id \in {i \in OpIds : seen[i] = None}, op \in OpsOnShown(s0) :
         tabs' = [tabs EXCEPT ![t] =
                    Pump(Show(Enqueue(Mutated([s0 EXCEPT !.mem = Append(@, Entry(id, op))]),
                                      Call("add", id, op)), Entry(id, op)))]
  BY DEF Send
<1>2. s0.copy.row # None
  BY DEF Send
<1>3. s0 \in TabRecord
  BY TypesAre
<1>4. op \in UserOps
  BY <1>2, <1>3, OpsOnShownAre
<1> DEFINE e == Entry(id, op)
           c == Call("add", id, op)
           a == [s0 EXCEPT !.mem = Append(@, e)]
           m == Mutated(a)
           n == Enqueue(m, c)
           w == Show(n, e)
           s == Pump(w)
<1>5. /\ e \in Stored /\ e.id = id /\ e.op = op /\ e.sent = FALSE
      /\ c \in StorageCall /\ c.kind = "add" /\ c.id = id
  BY <1>4, CallIs DEF Entry, Stored
<1>6. tabs' = [tabs EXCEPT ![t] = s]
  BY <1>1
<1> HIDE DEF e, c
<1>7. /\ a \in TabRecord /\ Ids(a.mem) = Ids(s0.mem) \cup {id} /\ a.sent = s0.sent
      /\ a.chain = s0.chain /\ a.pc = s0.pc /\ a.cur = s0.cur /\ a.reply = s0.reply
      /\ SameView(a, s0)
  <2>1. s0.mem \in Seq(Stored)
    BY <1>3 DEF TabRecord
  <2>2. Append(s0.mem, e) \in Seq(Stored) /\ ToSet(Append(s0.mem, e)) = ToSet(s0.mem) \cup {e}
    BY <1>5, <2>1, AppendProperties, AppendElements
  <2>3. /\ a \in TabRecord /\ a.mem = Append(s0.mem, e)
        /\ a.sent = s0.sent /\ a.chain = s0.chain /\ a.pc = s0.pc
        /\ a.cur = s0.cur /\ a.reply = s0.reply /\ SameView(a, s0)
    BY <1>3, <2>2 DEF TabRecord, SameView
  <2> HIDE DEF a
  <2> QED BY <1>5, <2>2, <2>3 DEF Ids
<1> HIDE DEF a
<1>8. /\ SameButChain(m, a) /\ SameView(m, a)
      /\ CallsIn(m.chain) = CallsIn(a.chain) /\ Repeats(m.chain)
  BY <1>7, MutatedIs, MutatedCalls, ViewsSame
<1> HIDE DEF m
<1>9. m \in TabRecord /\ m.chain \in Seq(StorageCall)
  BY <1>8 DEF SameButChain, TabRecord
<1>10. SameButChain(n, m) /\ n.chain = Append(m.chain, c) /\ n \in TabRecord /\ SameView(n, m)
  BY <1>5, <1>9, EnqueueIs, ViewsSame DEF SameButChain
<1>11. /\ CallsIn(n.chain) = CallsIn(m.chain) \cup {<<"add", id>>} /\ ReadsInOrder(n.chain)
  BY <1>5, <1>8, <1>9, <1>10, CallBehind
<1> HIDE DEF n
<1>12. /\ SameQueue(w, n) /\ w \in TabRecord /\ SameButPending(w, n)
       /\ ToSet(n.pending) \subseteq ToSet(w.pending)
       /\ \A x \in ToSet(w.pending) :
             x \in ToSet(n.pending) \/ x = Shown(e.id, e.op, e.sent)
  BY <1>5, <1>10, ShowIs, ShowView DEF SameQueue
<1> HIDE DEF w
<1>13. /\ s \in TabRecord /\ SameView(s, w)
       /\ s.mem = w.mem /\ s.sent = w.sent /\ s.cur = w.cur
       /\ s.reply = w.reply /\ s.chain = w.chain
       /\ s.pc = IF w.pc = "idle" THEN "lock" ELSE w.pc
  BY <1>12, PumpIs, ViewsSame
<1> HIDE DEF s
<1>14. /\ Ids(s.mem) = Ids(s0.mem) \cup {id} /\ s.sent = s0.sent
       /\ s.cur = s0.cur /\ s.reply = s0.reply
       /\ s.pc = IF s0.pc = "idle" THEN "lock" ELSE s0.pc
       /\ CallsIn(s.chain) = CallsIn(s0.chain) \cup {<<"add", id>>}
       /\ ReadsInOrder(s.chain)
  BY <1>7, <1>8, <1>10, <1>11, <1>12, <1>13 DEF SameButChain, SameQueue
<1>15. /\ SameButPending(s, s0)
       /\ ToSet(s0.pending) \subseteq ToSet(s.pending)
       /\ \A x \in ToSet(s.pending) :
             x \in ToSet(s0.pending) \/ x = Shown(id, op, FALSE)
  BY <1>5, <1>7, <1>8, <1>10, <1>12, <1>13 DEF SameView, SameButPending
<1> HIDE DEF s0
<1> QED BY <1>1, <1>2, <1>4, <1>6, <1>13, <1>14, <1>15 DEF s0

LEMMA DiscardView ==
    ASSUME QueueInv, NEW t \in Tabs, Discard(t)
    PROVE  \E id \in OpIds, s \in TabRecord :
              /\ id \in Ids(tabs[t].mem)
              /\ ~(tabs[t].pc \in {"mark", "call"} /\ tabs[t].cur.id = id)
              /\ tabs' = [tabs EXCEPT ![t] = s]
              /\ Ids(s.mem) = Ids(tabs[t].mem) \ {id} /\ s.sent = tabs[t].sent \ {id}
              /\ s.cur = tabs[t].cur /\ s.reply = tabs[t].reply
              /\ s.pc = IF tabs[t].pc = "idle" THEN "lock" ELSE tabs[t].pc
              /\ CallsIn(s.chain) = CallsIn(tabs[t].chain) \cup {<<"remove", id>>}
              /\ ReadsInOrder(s.chain)
              /\ SameButPending(s, tabs[t])
              /\ ToSet(s.pending) = {x \in ToSet(tabs[t].pending) : x.id # id}
<1> DEFINE s0 == tabs[t]
<1>1. PICK id \in Ids(s0.mem) :
         /\ ~(s0.pc \in {"mark", "call"} /\ s0.cur.id = id)
         /\ tabs' = [tabs EXCEPT ![t] = Pump(Drop(RemoveEntry(s0, id), id))]
  BY DEF Discard
<1>2. s0 \in TabRecord
  BY TypesAre
<1>3. id \in OpIds
  BY TabOf DEF TabOK, EntriesOK, MadeIds
<1> DEFINE g == RemoveEntry(s0, id)
           w == Drop(g, id)
           s == Pump(w)
<1>4. tabs' = [tabs EXCEPT ![t] = s]
  BY <1>1
<1>5. /\ g \in TabRecord
      /\ g.pc = s0.pc /\ g.cur = s0.cur /\ g.reply = s0.reply
      /\ g.sent = s0.sent \ {id}
  BY <1>2, <1>3, RemoveEntryIs
<1>6. /\ SameView(g, s0)
      /\ CallsIn(g.chain) = CallsIn(s0.chain) \cup {<<"remove", id>>}
      /\ ReadsInOrder(g.chain)
      /\ Ids(g.mem) = Ids(s0.mem) \ {id}
  BY <1>2, <1>3, RemoveEntryView
<1> HIDE DEF g
<1>7. /\ SameQueue(w, g) /\ w \in TabRecord /\ SameButPending(w, g)
      /\ ToSet(w.pending) = {x \in ToSet(g.pending) : x.id # id}
  BY <1>5, DropIs, DropView DEF SameQueue
<1> HIDE DEF w
<1>8. /\ s \in TabRecord /\ SameView(s, w)
      /\ s.mem = w.mem /\ s.sent = w.sent /\ s.cur = w.cur
      /\ s.reply = w.reply /\ s.chain = w.chain
      /\ s.pc = IF w.pc = "idle" THEN "lock" ELSE w.pc
  BY <1>7, PumpIs, ViewsSame
<1> HIDE DEF s
<1>9. /\ Ids(s.mem) = Ids(s0.mem) \ {id} /\ s.sent = s0.sent \ {id}
      /\ s.cur = s0.cur /\ s.reply = s0.reply
      /\ s.pc = IF s0.pc = "idle" THEN "lock" ELSE s0.pc
      /\ CallsIn(s.chain) = CallsIn(s0.chain) \cup {<<"remove", id>>}
      /\ ReadsInOrder(s.chain)
  BY <1>5, <1>6, <1>7, <1>8 DEF SameQueue
<1>10. /\ SameButPending(s, s0)
       /\ ToSet(s.pending) = {x \in ToSet(s0.pending) : x.id # id}
  BY <1>6, <1>7, <1>8 DEF SameView, SameButPending
<1> HIDE DEF s0
<1> QED BY <1>1, <1>3, <1>4, <1>8, <1>9, <1>10 DEF s0

LEMMA PauseView ==
    ASSUME QueueInv, NEW t \in Tabs, Pause(t)
    PROVE  \E s \in TabRecord :
              /\ tabs' = [tabs EXCEPT ![t] = s]
              /\ SameLoop(s, tabs[t]) /\ SameView(s, tabs[t]) /\ s.chain = tabs[t].chain
<1> DEFINE s == [tabs[t] EXCEPT !.paused = TRUE]
<1>1. tabs' = [tabs EXCEPT ![t] = s]
  BY DEF Pause
<1>2. tabs[t] \in TabRecord
  BY TypesAre
<1>3. s \in TabRecord /\ SameLoop(s, tabs[t]) /\ SameView(s, tabs[t]) /\ s.chain = tabs[t].chain
  BY <1>2 DEF SameLoop, SameView, TabRecord
<1> QED BY <1>1, <1>3

\* clear()
Cleared(s) ==
    /\ s.copy = NoCopy /\ s.pending = <<>> /\ s.sending = None /\ s.settled = {} /\ s.feed = None

LEMMA ClearView ==
    ASSUME NEW s0 \in TabRecord
    PROVE  LET s == Clear([s0 EXCEPT !.paused = TRUE])
           IN  /\ s \in TabRecord /\ s.paused
               /\ SameLoop(s, s0) /\ s.chain = s0.chain
               /\ Cleared(s)
<1> DEFINE p == [s0 EXCEPT !.paused = TRUE]
<1>1. p \in TabRecord /\ SameLoop(p, s0) /\ p.chain = s0.chain /\ p.paused
  BY DEF SameLoop, TabRecord
<1> HIDE DEF p
<1>2. SameQueue(Clear(p), p)
  BY <1>1, ClearIs
<1>3. Cleared(Clear(p))
  BY <1>1 DEF Clear, Cleared, TabRecord
<1> QED BY <1>1, <1>2, <1>3 DEF SameQueue, SameLoop, p

LEMMA FeedView ==
    ASSUME QueueInv, NEW t \in Tabs, AskFeed(t) \/ AnswerFeed(t)
    PROVE  \E s \in TabRecord :
              /\ tabs' = [tabs EXCEPT ![t] = s]
              /\ SameLoop(s, tabs[t]) /\ s.chain = tabs[t].chain
              /\ s.copy = tabs[t].copy /\ s.pending = tabs[t].pending
              /\ s.sending = tabs[t].sending /\ s.current = tabs[t].current
              /\ s.settled = tabs[t].settled
              /\ s.feed \in {Asked, CopyNow}
              /\ tabs[t].feed # None \/ \A c \in ToSet(tabs[t].chain) : c.kind # "init"
<1>1. tabs[t] \in TabRecord
  BY TypesAre
<1>2. Asked \in Copy /\ CopyNow \in Copy
  BY NoCopyIs, CopyNowIs DEF QueueInv, Shapes
<1>3. CASE AskFeed(t)
  <2> DEFINE s == [tabs[t] EXCEPT !.feed = Asked]
  <2>1. tabs' = [tabs EXCEPT ![t] = s] /\ \A c \in ToSet(tabs[t].chain) : c.kind # "init"
    BY <1>3 DEF AskFeed
  <2>2. /\ s \in TabRecord /\ SameLoop(s, tabs[t]) /\ s.chain = tabs[t].chain
        /\ s.copy = tabs[t].copy /\ s.pending = tabs[t].pending
        /\ s.sending = tabs[t].sending /\ s.current = tabs[t].current
        /\ s.settled = tabs[t].settled /\ s.feed = Asked
    BY <1>1, <1>2 DEF SameLoop, TabRecord
  <2> QED BY <2>1, <2>2
<1>4. CASE AnswerFeed(t)
  <2> DEFINE s == [tabs[t] EXCEPT !.feed = CopyNow]
  <2>1. tabs' = [tabs EXCEPT ![t] = s]
    BY <1>4 DEF AnswerFeed
  <2>2. tabs[t].feed # None
    <3>1. Asked # None
      BY <1>2, NoneIsNoRecord
    <3> QED BY <1>4, <3>1 DEF AnswerFeed
  <2>3. /\ s \in TabRecord /\ SameLoop(s, tabs[t]) /\ s.chain = tabs[t].chain
        /\ s.copy = tabs[t].copy /\ s.pending = tabs[t].pending
        /\ s.sending = tabs[t].sending /\ s.current = tabs[t].current
        /\ s.settled = tabs[t].settled /\ s.feed = CopyNow
    BY <1>1, <1>2 DEF SameLoop, TabRecord
  <2> QED BY <2>1, <2>2, <2>3
<1> QED BY <1>3, <1>4

LEMMA TakeFeedView ==
    ASSUME QueueInv, NEW t \in Tabs, TakeFeed(t)
    PROVE  \E s \in TabRecord :
              /\ tabs[t].feed \notin {None, Asked}
              /\ tabs' = [tabs EXCEPT ![t] = s]
              /\ SameLoop(s, tabs[t]) /\ s.feed = None
              /\ s.sending = tabs[t].sending /\ s.current = tabs[t].current
              /\ s.settled = tabs[t].settled
              /\ CallsIn(tabs[t].chain) \subseteq CallsIn(s.chain)
              /\ CallsIn(s.chain) \subseteq CallsIn(tabs[t].chain) \cup {<<"load", None>>}
              /\ ReadsInOrder(tabs[t].chain) => ReadsInOrder(s.chain)
              /\ \/ s.copy = tabs[t].copy /\ s.pending = tabs[t].pending /\ saved' = saved
                 \/ /\ tabs[t].sending = None /\ tabs[t].copy.seq <= tabs[t].feed.seq
                    /\ s.copy = tabs[t].feed /\ saved' \in {saved, tabs[t].feed}
                    /\ ToSet(s.pending) = {x \in ToSet(tabs[t].pending) :
                          x.appliedSeq = None \/ x.appliedSeq > tabs[t].feed.seq}
<1> DEFINE s0       == tabs[t]
           places   == {k \in DOMAIN s0.pending :
                          \/ s0.pending[k].appliedSeq = None
                          \/ s0.pending[k].appliedSeq > s0.feed.seq}
           pending  == Picked(s0.pending, places)
           answered == IF s0.answered # None /\ s0.answered.seq > s0.feed.seq
                       THEN s0.answered ELSE None
           later    == [s0 EXCEPT !.feed = None]
           fresh    == [later EXCEPT !.copy = s0.feed, !.pending = pending, !.answered = answered]
           c        == ReadFor("load")
<1>1. /\ s0.feed \notin {None, Asked}
      /\ \/ tabs' = [tabs EXCEPT ![t] = later] /\ saved' = saved
         \/ /\ ~IgnoresFeed(s0)
            /\ saved' \in {saved, s0.feed}
            /\ \/ tabs' = [tabs EXCEPT ![t] = fresh]
               \/ tabs' = [tabs EXCEPT ![t] = Enqueue(fresh, c)]
  BY DEF TakeFeed
<1>2. s0 \in TabRecord /\ s0.copy.seq \in Int /\ s0.chain \in Seq(StorageCall)
  BY TypesAre DEF TabRecord
<1>3. s0.feed \in Copy /\ s0.pending \in Seq(Projection) /\ s0.feed.seq \in Int
  BY <1>1, <1>2 DEF TabRecord, Copy
<1>4. pending \in Seq(Projection) /\ ToSet(pending) = {s0.pending[k] : k \in places}
  BY <1>3, PickedAreThere
<1>5. ToSet(pending) = {x \in ToSet(s0.pending) :
                          x.appliedSeq = None \/ x.appliedSeq > s0.feed.seq}
  <2> HIDE DEF pending
  <2>1. {s0.pending[k] : k \in places} = {x \in ToSet(s0.pending) :
                          x.appliedSeq = None \/ x.appliedSeq > s0.feed.seq}
    BY DEF ToSet
  <2> QED BY <1>4, <2>1
<1>6. answered \in [cseq : Nat, seq : Nat] \cup {None}
  BY <1>2 DEF TabRecord
<1>7. ~IgnoresFeed(s0) => s0.sending = None /\ s0.copy.seq <= s0.feed.seq
  BY <1>2, <1>3 DEF IgnoresFeed
<1>8. c \in StorageCall /\ c.kind = "load" /\ c.id = None
  BY CallIs DEF ReadFor
<1> HIDE DEF pending, places, answered, c
<1>9. /\ later \in TabRecord /\ SameLoop(later, s0) /\ later.feed = None
      /\ later.sending = s0.sending /\ later.current = s0.current /\ later.settled = s0.settled
      /\ later.chain = s0.chain /\ later.copy = s0.copy /\ later.pending = s0.pending
  BY <1>2 DEF TabRecord, SameLoop
<1> HIDE DEF later
<1>10. /\ fresh \in TabRecord /\ SameLoop(fresh, s0) /\ fresh.feed = None
       /\ fresh.sending = s0.sending /\ fresh.current = s0.current /\ fresh.settled = s0.settled
       /\ fresh.chain = s0.chain /\ fresh.copy = s0.feed /\ fresh.pending = pending
  <2>1. later \in TabRecord
    BY <1>9
  <2>2. fresh \in TabRecord
    BY <1>3, <1>4, <1>6, <2>1 DEF TabRecord
  <2>3. /\ fresh.copy = s0.feed /\ fresh.pending = pending
        /\ fresh.feed = later.feed /\ fresh.chain = later.chain
        /\ fresh.sending = later.sending /\ fresh.current = later.current
        /\ fresh.settled = later.settled
        /\ fresh.mem = later.mem /\ fresh.sent = later.sent /\ fresh.pc = later.pc
        /\ fresh.cur = later.cur /\ fresh.reply = later.reply
    BY <2>1 DEF TabRecord
  <2>4. SameLoop(fresh, s0)
    BY <1>9, <2>3 DEF SameLoop
  <2> QED BY <1>9, <2>2, <2>3, <2>4
<1> HIDE DEF fresh
<1> DEFINE s == Enqueue(fresh, c)
<1>11. SameButChain(s, fresh) /\ s.chain = Append(s0.chain, c) /\ SameView(s, fresh)
  BY <1>8, <1>10, EnqueueIs, ViewsSame
<1> HIDE DEF s
<1>12. /\ CallsIn(Append(s0.chain, c)) = CallsIn(s0.chain) \cup {<<"load", None>>}
       /\ ReadsInOrder(s0.chain) => ReadsInOrder(Append(s0.chain, c))
  BY <1>2, <1>8, CallBehind
<1>13. CASE tabs' = [tabs EXCEPT ![t] = later] /\ saved' = saved
  BY <1>1, <1>9, <1>13
<1>14. CASE ~IgnoresFeed(s0) /\ saved' \in {saved, s0.feed} /\ tabs' = [tabs EXCEPT ![t] = fresh]
  BY <1>1, <1>5, <1>7, <1>10, <1>14
<1>15. CASE ~IgnoresFeed(s0) /\ saved' \in {saved, s0.feed} /\ tabs' = [tabs EXCEPT ![t] = s]
  <2>1. SameLoop(s, s0) /\ s \in TabRecord
    BY <1>10, <1>11 DEF SameButChain, SameLoop
  <2>2. /\ s.feed = None /\ s.sending = s0.sending /\ s.current = s0.current
        /\ s.settled = s0.settled /\ s.copy = s0.feed /\ s.pending = pending
    BY <1>10, <1>11 DEF SameView
  <2> QED BY <1>1, <1>5, <1>7, <1>11, <1>12, <1>15, <2>1, <2>2
<1> QED BY <1>1, <1>13, <1>14, <1>15 DEF s

\* The top of the loop, from a tab that is the same but for what is shown.
RoundFrom(s, g) ==
    /\ s.mem = g.mem /\ s.sent = g.sent
    /\ s.cur = None /\ s.reply = None /\ s.pc \in {"idle", "read"}
    /\ s.copy = g.copy /\ s.feed = g.feed /\ s.pending = g.pending
    /\ s.sending = g.sending /\ s.current /\ s.settled = g.settled
    /\ CallsIn(g.chain) \subseteq CallsIn(s.chain)
    /\ CallsIn(s.chain) \subseteq CallsIn(g.chain) \cup {<<"pump", None>>}
    /\ ReadsInOrder(g.chain) => ReadsInOrder(s.chain)

LEMMA RoundIs ==
    ASSUME NEW g \in TabRecord
    PROVE  NextRound(g) \in TabRecord /\ RoundFrom(NextRound(g), g)
BY NextRoundIs, NextRoundView DEF RoundFrom

LEMMA RoundView ==
    ASSUME QueueInv, NEW t \in Tabs, TakeLock(t) \/ Wake(t)
    PROVE  \E s \in TabRecord :
              /\ tabs' = [tabs EXCEPT ![t] = s] /\ tabs[t].pc \in {"lock", "sleep"}
              /\ RoundFrom(s, tabs[t])
<1>1. tabs' = [tabs EXCEPT ![t] = NextRound(tabs[t])] /\ tabs[t].pc \in {"lock", "sleep"}
  <2>1. tabs \in [Tabs -> TabRecord]
    BY DEF QueueInv, Shapes
  <2> QED BY <2>1 DEF TakeLock, Wake
<1>2. tabs[t] \in TabRecord
  BY TypesAre
<1> QED BY <1>1, <1>2, RoundIs

LEMMA UnauthorizedView ==
    ASSUME QueueInv, NEW t \in Tabs, Unauthorized(t)
    PROVE  \E s \in TabRecord :
              /\ tabs' = [tabs EXCEPT ![t] = s] /\ tabs[t].pc = "call" /\ net' \subseteq net
              /\ s.mem = tabs[t].mem /\ s.sent = tabs[t].sent
              /\ s.cur = None /\ s.reply = None /\ s.pc = "idle"
              /\ s.chain = tabs[t].chain /\ s.current /\ Cleared(s)
<1> DEFINE g == Clear([tabs[t] EXCEPT !.paused = TRUE])
           s == NextRound(g)
<1>1. tabs' = [tabs EXCEPT ![t] = s] /\ tabs[t].pc = "call" /\ net' \subseteq net
  BY DEF Unauthorized
<1>2. tabs[t] \in TabRecord
  BY TypesAre
<1>3. /\ g \in TabRecord /\ g.paused
      /\ SameLoop(g, tabs[t]) /\ g.chain = tabs[t].chain
      /\ Cleared(g)
  BY <1>2, ClearView
<1> HIDE DEF g
<1>4. /\ s \in TabRecord /\ RoundFrom(s, g) /\ s.pc = "idle" /\ s.chain = g.chain
  BY <1>3, RoundIs, NextRoundIs
<1> HIDE DEF s
<1> QED BY <1>1, <1>3, <1>4 DEF RoundFrom, SameLoop, Cleared

LEMMA NoAnswerView ==
    ASSUME QueueInv, NEW t \in Tabs, NoAnswer(t)
    PROVE  \E s \in TabRecord :
              /\ tabs' = [tabs EXCEPT ![t] = s] /\ tabs[t].pc = "call"
              /\ \A r \in net' : \E q \in net : r.id = q.id
              /\ s.mem = tabs[t].mem /\ s.sent = tabs[t].sent /\ s.chain = tabs[t].chain
              /\ s.cur = tabs[t].cur /\ s.reply = None /\ s.pc = "sleep"
              /\ s.copy = tabs[t].copy /\ s.feed = tabs[t].feed
              /\ s.current = tabs[t].current /\ s.settled = tabs[t].settled
              /\ tabs[t].current => s.sending = None
              /\ \A x \in ToSet(tabs[t].pending) : x.id # tabs[t].cur.id => x \in ToSet(s.pending)
              /\ tabs[t].current =>
                    \A x \in ToSet(s.pending) :
                       \/ x \in ToSet(tabs[t].pending) /\ x.id # tabs[t].cur.id
                       \/ /\ x.uncertain
                          /\ \E y \in ToSet(tabs[t].pending) :
                                x.id = y.id /\ x.appliedSeq = y.appliedSeq
<1> DEFINE s0 == tabs[t]
           u  == Uncertain(s0, s0.cur.id)
           g  == IF s0.current THEN [u EXCEPT !.sending = None] ELSE s0
           s  == [g EXCEPT !.pc = "sleep", !.reply = None]
<1>1. /\ s0.pc = "call" /\ tabs' = [tabs EXCEPT ![t] = s]
      /\ \/ net' = {r \in net : r.tab # t}
         \/ net' = {[r EXCEPT !.tab = IF @ = t THEN None ELSE @] : r \in net}
  BY DEF NoAnswer
<1>2. s0 \in TabRecord /\ net \subseteq [id : OpIds, op : UserOps, tab : Tabs \cup {None}]
  BY TypesAre DEF QueueInv, Shapes
<1>3. \A r \in net' : \E q \in net : r.id = q.id
  <2>1. CASE net' = {r \in net : r.tab # t}
    BY <2>1
  <2>2. CASE net' = {[r EXCEPT !.tab = IF @ = t THEN None ELSE @] : r \in net}
    BY <1>2, <2>2
  <2> QED BY <1>1, <2>1, <2>2
<1>4. /\ SameQueue(u, s0) /\ SameButPending(u, s0)
      /\ \A x \in ToSet(s0.pending) : x.id # s0.cur.id => x \in ToSet(u.pending)
      /\ \A x \in ToSet(u.pending) :
            \/ x \in ToSet(s0.pending) /\ x.id # s0.cur.id
            \/ /\ x.uncertain
               /\ \E y \in ToSet(s0.pending) : x.id = y.id /\ x.appliedSeq = y.appliedSeq
  BY <1>2, UncertainIs, UncertainView
<1> HIDE DEF u
<1>5. u \in TabRecord
  BY <1>4 DEF SameQueue
<1>6. /\ g \in TabRecord
      /\ g.mem = s0.mem /\ g.sent = s0.sent /\ g.chain = s0.chain /\ g.cur = s0.cur
      /\ g.copy = s0.copy /\ g.feed = s0.feed /\ g.current = s0.current /\ g.settled = s0.settled
      /\ s0.current => g.sending = None /\ g.pending = u.pending
      /\ ~s0.current => g.pending = s0.pending
  <2>1. CASE s0.current
    <3>1. g = [u EXCEPT !.sending = None]
      BY <2>1
    <3> HIDE DEF g
    <3>2. /\ g \in TabRecord
          /\ g.mem = u.mem /\ g.sent = u.sent /\ g.chain = u.chain /\ g.cur = u.cur
          /\ g.copy = u.copy /\ g.feed = u.feed /\ g.current = u.current /\ g.settled = u.settled
          /\ g.sending = None /\ g.pending = u.pending
      BY <1>5, <3>1 DEF TabRecord
    <3> QED BY <1>4, <2>1, <3>2 DEF SameQueue, SameButPending
  <2>2. CASE ~s0.current
    BY <1>2, <2>2
  <2> QED BY <2>1, <2>2
<1> HIDE DEF g
<1>7. /\ s \in TabRecord
      /\ s.mem = g.mem /\ s.sent = g.sent /\ s.chain = g.chain /\ s.cur = g.cur
      /\ s.reply = None /\ s.pc = "sleep"
      /\ s.copy = g.copy /\ s.feed = g.feed /\ s.current = g.current /\ s.settled = g.settled
      /\ s.sending = g.sending /\ s.pending = g.pending
  BY <1>6 DEF TabRecord
<1> HIDE DEF s
<1>8. \A x \in ToSet(s0.pending) : x.id # s0.cur.id => x \in ToSet(s.pending)
  BY <1>4, <1>6, <1>7
<1> HIDE DEF s0
<1>9. s0.current => \A x \in ToSet(s.pending) :
                       \/ x \in ToSet(s0.pending) /\ x.id # s0.cur.id
                       \/ /\ x.uncertain
                          /\ \E y \in ToSet(s0.pending) :
                                x.id = y.id /\ x.appliedSeq = y.appliedSeq
  BY <1>4, <1>6, <1>7
<1>10. /\ s.mem = s0.mem /\ s.sent = s0.sent /\ s.chain = s0.chain
       /\ s.cur = s0.cur /\ s.reply = None /\ s.pc = "sleep"
       /\ s.copy = s0.copy /\ s.feed = s0.feed
       /\ s.current = s0.current /\ s.settled = s0.settled
       /\ s0.current => s.sending = None
  BY <1>6, <1>7
<1>11. s \in TabRecord /\ s0.pc = "call" /\ tabs' = [tabs EXCEPT ![t] = s]
  BY <1>1, <1>7
<1> QED BY <1>3, <1>8, <1>9, <1>10, <1>11 DEF s0

\* A definite answer or a failure: the entry goes, then the next round.
Removed(s, s0, id) ==
    /\ Ids(s.mem) = Ids(s0.mem) \ {id} /\ s.sent = s0.sent \ {id}
    /\ s.cur = None /\ s.reply = None /\ s.pc \in {"idle", "read"}
    /\ s.copy = s0.copy /\ s.feed = s0.feed /\ s.current
    /\ CallsIn(s0.chain) \cup {<<"remove", id>>} \subseteq CallsIn(s.chain)
    /\ \A x \in CallsIn(s.chain) :
          x \in CallsIn(s0.chain) \cup {<<"remove", id>>} \/ x[1] \in {"setOp", "pump"}
    /\ ReadsInOrder(s.chain)

LEMMA SettleView ==
    ASSUME QueueInv, NEW t \in Tabs, Settle(t)
    PROVE  \E s \in TabRecord, id \in OpIds, answer \in Answer :
              /\ tabs[t].pc = "call" /\ tabs[t].cur # None /\ id = tabs[t].cur.id
              /\ answer = tabs[t].reply /\ tabs[t].reply # None
              /\ tabs' = [tabs EXCEPT ![t] = s]
              /\ Removed(s, tabs[t], id)
              /\ ~tabs[t].current => s.settled = tabs[t].settled /\ s.pending = tabs[t].pending
              /\ tabs[t].current => Heard(s, tabs[t], id, answer)
<1> DEFINE s0     == tabs[t]
           id     == s0.cur.id
           answer == s0.reply
           gone   == RemoveEntry(s0, id)
           told   == IF ~s0.current THEN gone ELSE OpSettled(gone, id, answer)
           ids    == Rebased(gone, s0.cur.op, answer)
           g      == ApplyRewrites(told, ids, answer.cseq)
           s      == NextRound(g)
<1>1. /\ s0.pc = "call" /\ answer # None
      /\ tabs' = [tabs EXCEPT ![t] = s]
  BY DEF Settle
<1>2. s0 \in TabRecord
  BY TypesAre
<1>3. id \in OpIds /\ answer \in Answer /\ s0.cur # None
  BY <1>1, CurIs, NoneIsNoRecord
<1>4. answer.cseq \in Nat
  BY <1>3 DEF Answer
<1>5. /\ gone \in TabRecord /\ SameView(gone, s0)
      /\ gone.sent = s0.sent \ {id} /\ Ids(gone.mem) = Ids(s0.mem) \ {id}
      /\ CallsIn(gone.chain) = CallsIn(s0.chain) \cup {<<"remove", id>>}
      /\ ReadsInOrder(gone.chain)
  <2> HIDE DEF id, s0
  <2>1. gone.sent = s0.sent \ {id}
    BY <1>2, <1>3, RemoveEntryIs
  <2> QED BY <1>2, <1>3, <2>1, RemoveEntryView
<1> HIDE DEF gone, id, answer, ids
<1>6. /\ told \in TabRecord
      /\ told.sent = gone.sent /\ told.mem = gone.mem /\ told.chain = gone.chain
      /\ told.copy = gone.copy /\ told.feed = gone.feed
      /\ ~s0.current => told = gone
      /\ s0.current => Heard(told, gone, id, answer)
  <2> HIDE DEF s0
  <2>1. CASE s0.current
    <3>1. told = OpSettled(gone, id, answer)
      BY <2>1
    <3> HIDE DEF told
    <3>2. SameQueue(told, gone)
      BY <1>3, <1>5, <3>1, OpSettledIs
    <3>3. Heard(told, gone, id, answer)
      BY <1>3, <1>5, <3>1, OpSettledView
    <3>4. told.copy = gone.copy /\ told.feed = gone.feed
      BY <3>3 DEF Heard
    <3> QED BY <2>1, <3>2, <3>3, <3>4 DEF SameQueue
  <2>2. CASE ~s0.current
    <3>1. told = gone
      BY <2>2
    <3> HIDE DEF told
    <3> QED BY <1>5, <2>2, <3>1
  <2> QED BY <2>1, <2>2
<1>7. /\ ~s0.current => told.settled = s0.settled /\ told.pending = s0.pending
      /\ s0.current => Heard(told, s0, id, answer)
  <2> HIDE DEF s0, told
  <2>1. /\ gone.copy = s0.copy /\ gone.pending = s0.pending /\ gone.settled = s0.settled
        /\ gone.feed = s0.feed
    BY <1>5 DEF SameView
  <2> QED BY <1>6, <2>1 DEF Heard
<1> HIDE DEF told
<1>8. /\ g \in TabRecord /\ g.sent = told.sent /\ Ids(g.mem) = Ids(told.mem)
  BY <1>4, <1>6, ApplyRewritesIs
<1>9. /\ SameView(g, told)
      /\ CallsIn(told.chain) \subseteq CallsIn(g.chain)
      /\ \A x \in CallsIn(g.chain) : x \in CallsIn(told.chain) \/ x[1] = "setOp"
      /\ ReadsInOrder(told.chain) => ReadsInOrder(g.chain)
  BY <1>4, <1>6, ApplyRewritesView
<1> HIDE DEF g
<1>10. s \in TabRecord /\ RoundFrom(s, g)
  BY <1>8, RoundIs
<1> HIDE DEF s
<1>11. Removed(s, s0, id)
  <2>1. Ids(s.mem) = Ids(s0.mem) \ {id} /\ s.sent = s0.sent \ {id}
    BY <1>5, <1>6, <1>8, <1>10 DEF RoundFrom
  <2>2. s.copy = s0.copy /\ s.feed = s0.feed
    BY <1>5, <1>6, <1>9, <1>10 DEF RoundFrom, SameView
  <2>3. CallsIn(s0.chain) \cup {<<"remove", id>>} \subseteq CallsIn(s.chain)
    BY <1>5, <1>6, <1>9, <1>10 DEF RoundFrom
  <2>4. \A x \in CallsIn(s.chain) :
          x \in CallsIn(s0.chain) \cup {<<"remove", id>>} \/ x[1] \in {"setOp", "pump"}
    BY <1>5, <1>6, <1>9, <1>10 DEF RoundFrom
  <2>5. ReadsInOrder(s.chain)
    BY <1>5, <1>6, <1>9, <1>10 DEF RoundFrom
  <2> QED BY <1>10, <2>1, <2>2, <2>3, <2>4, <2>5 DEF Removed, RoundFrom
<1>12. /\ ~s0.current => s.settled = s0.settled /\ s.pending = s0.pending
       /\ s0.current => Heard(s, s0, id, answer)
  <2>1. /\ s.settled = told.settled /\ s.pending = told.pending /\ s.sending = told.sending
        /\ s.copy = told.copy /\ s.feed = told.feed
    BY <1>9, <1>10 DEF RoundFrom, SameView
  <2> HIDE DEF s0
  <2> QED BY <1>7, <2>1 DEF Heard
<1>13. id = s0.cur.id /\ answer = s0.reply
  BY DEF id, answer
<1> HIDE DEF s0
<1> QED BY <1>1, <1>3, <1>10, <1>11, <1>12, <1>13 DEF s0

LEMMA FailView ==
    ASSUME QueueInv, NEW t \in Tabs, Fail(t)
    PROVE  \E s \in TabRecord, id \in OpIds :
              /\ tabs[t].pc = "call" /\ tabs[t].cur # None /\ id = tabs[t].cur.id
              /\ tabs' = [tabs EXCEPT ![t] = s]
              /\ Removed(s, tabs[t], id)
              /\ s.settled = tabs[t].settled
              /\ tabs[t].current => s.sending = None
              /\ \A x \in ToSet(tabs[t].pending) : x.id # id => x \in ToSet(s.pending)
              /\ tabs[t].current =>
                    \A x \in ToSet(s.pending) : x \in ToSet(tabs[t].pending) /\ x.id # id
<1> DEFINE s0   == tabs[t]
           id   == s0.cur.id
           gone == RemoveEntry(s0, id)
           d    == Drop(gone, id)
           g    == IF s0.current THEN [d EXCEPT !.sending = None] ELSE gone
           s    == NextRound(g)
<1>1. s0.pc = "call" /\ tabs' = [tabs EXCEPT ![t] = s]
  BY DEF Fail
<1>2. s0 \in TabRecord
  BY TypesAre
<1>3. id \in OpIds /\ s0.cur # None
  BY <1>1, CurIs, NoneIsNoRecord
<1>4. /\ gone \in TabRecord /\ SameView(gone, s0)
      /\ gone.sent = s0.sent \ {id} /\ Ids(gone.mem) = Ids(s0.mem) \ {id}
      /\ CallsIn(gone.chain) = CallsIn(s0.chain) \cup {<<"remove", id>>}
      /\ ReadsInOrder(gone.chain)
  <2> HIDE DEF id, s0
  <2>1. gone.sent = s0.sent \ {id}
    BY <1>2, <1>3, RemoveEntryIs
  <2> QED BY <1>2, <1>3, <2>1, RemoveEntryView
<1> HIDE DEF gone
<1>5. /\ SameQueue(d, gone) /\ SameButPending(d, gone)
      /\ ToSet(d.pending) = {x \in ToSet(gone.pending) : x.id # id}
  BY <1>4, DropIs, DropView
<1> HIDE DEF d, id
<1>6. d \in TabRecord
  BY <1>5 DEF SameQueue
<1>7. /\ g \in TabRecord /\ g.sent = gone.sent /\ g.mem = gone.mem /\ g.chain = gone.chain
      /\ g.copy = gone.copy /\ g.feed = gone.feed /\ g.settled = gone.settled
      /\ s0.current => g.sending = None /\ g.pending = d.pending
      /\ ~s0.current => g.pending = gone.pending
  <2>1. CASE s0.current
    <3>1. g = [d EXCEPT !.sending = None]
      BY <2>1
    <3> HIDE DEF g
    <3>2. /\ g \in TabRecord /\ g.sent = d.sent /\ g.mem = d.mem /\ g.chain = d.chain
          /\ g.copy = d.copy /\ g.feed = d.feed /\ g.settled = d.settled
          /\ g.sending = None /\ g.pending = d.pending
      BY <1>6, <3>1 DEF TabRecord
    <3> QED BY <1>5, <2>1, <3>2 DEF SameQueue, SameButPending
  <2>2. CASE ~s0.current
    BY <1>4, <2>2
  <2> QED BY <2>1, <2>2
<1> HIDE DEF g
<1>8. s \in TabRecord /\ RoundFrom(s, g)
  BY <1>7, RoundIs
<1> HIDE DEF s
<1>9. Removed(s, s0, id)
  <2>1. Ids(s.mem) = Ids(s0.mem) \ {id} /\ s.sent = s0.sent \ {id}
    BY <1>4, <1>7, <1>8 DEF RoundFrom
  <2>2. s.copy = s0.copy /\ s.feed = s0.feed
    BY <1>4, <1>7, <1>8 DEF RoundFrom, SameView
  <2>3. CallsIn(s0.chain) \cup {<<"remove", id>>} \subseteq CallsIn(s.chain)
    BY <1>4, <1>7, <1>8 DEF RoundFrom
  <2>4. \A x \in CallsIn(s.chain) :
          x \in CallsIn(s0.chain) \cup {<<"remove", id>>} \/ x[1] \in {"setOp", "pump"}
    BY <1>4, <1>7, <1>8 DEF RoundFrom
  <2>5. ReadsInOrder(s.chain)
    BY <1>4, <1>7, <1>8 DEF RoundFrom
  <2> QED BY <1>8, <2>1, <2>2, <2>3, <2>4, <2>5 DEF Removed, RoundFrom
<1>10. /\ s.settled = s0.settled
       /\ s0.current => s.sending = None
       /\ \A x \in ToSet(s0.pending) : x.id # id => x \in ToSet(s.pending)
       /\ s0.current => \A x \in ToSet(s.pending) : x \in ToSet(s0.pending) /\ x.id # id
  <2>1. gone.pending = s0.pending /\ gone.settled = s0.settled
    BY <1>4 DEF SameView
  <2>2. s.pending = g.pending /\ s.settled = g.settled /\ s.sending = g.sending
    BY <1>8 DEF RoundFrom
  <2> HIDE DEF s0
  <2> QED BY <1>5, <1>7, <2>1, <2>2
<1>11. id = s0.cur.id
  BY DEF id
<1> HIDE DEF s0
<1> QED BY <1>1, <1>3, <1>8, <1>9, <1>10, <1>11 DEF s0

LEMMA ReadAgainView ==
    ASSUME QueueInv, NEW t \in Tabs, ReadEntries(t), ~Head(tabs[t].chain).clean
    PROVE  \E s \in TabRecord :
              /\ tabs' = [tabs EXCEPT ![t] = s] /\ net' = net
              /\ SameLoop(s, tabs[t]) /\ SameView(s, tabs[t])
              /\ Len(s.chain) = Len(tabs[t].chain)
              /\ Opening(s) => Opening(tabs[t])
              /\ \A id : Removes(s, id) <=> Removes(tabs[t], id)
              /\ \A id : Adds(s, id) <=> Adds(tabs[t], id)
              /\ ReadsInOrder(tabs[t].chain) => ReadsInOrder(s.chain)
<1> DEFINE s0 == tabs[t]
           q  == s0.chain
           c  == Head(q)
           n  == ReadFor(c.kind)
           r  == [s0 EXCEPT !.chain = Tail(@)]
           s  == Enqueue(r, n)
<1>1. q # <<>> /\ c.kind \in Reads /\ tabs' = [tabs EXCEPT ![t] = s] /\ net' = net
  BY DEF ReadEntries
<1>2. s0 \in TabRecord /\ q \in Seq(StorageCall)
  BY TabOf
<1>3. /\ Tail(q) \in Seq(StorageCall)
      /\ CallsIn(q) = CallsIn(Tail(q)) \cup {<<c.kind, c.id>>}
      /\ ReadsInOrder(q) => ReadsInOrder(Tail(q))
  BY <1>1, <1>2, CallDone
<1>4. Len(Tail(q)) = Len(q) - 1 /\ Len(q) \in Nat /\ 1 <= Len(q)
  BY <1>1, <1>2, TailFollows
<1>5. n \in StorageCall /\ n.kind = c.kind /\ n.id = None
  <2> HIDE DEF c
  <2>1. n = Call(c.kind, None, None)
    BY DEF ReadFor
  <2> QED BY <1>1, <2>1, CallIs DEF Reads
<1>6. /\ r \in TabRecord /\ r.chain = Tail(q) /\ SameLoop(r, s0) /\ SameView(r, s0)
  BY <1>2, <1>3 DEF TabRecord, SameLoop, SameView
<1> HIDE DEF r, n
<1>7. /\ SameButChain(s, r) /\ s.chain = Append(Tail(q), n) /\ SameView(s, r)
  BY <1>5, <1>6, EnqueueIs, ViewsSame
<1> HIDE DEF s
<1>8. /\ CallsIn(s.chain) = CallsIn(Tail(q)) \cup {<<c.kind, None>>}
      /\ ReadsInOrder(Tail(q)) => ReadsInOrder(s.chain)
  <2>1. n.kind \notin {"add", "remove"}
    BY <1>1, <1>5 DEF Reads
  <2> QED BY <1>3, <1>5, <1>7, <2>1, CallBehind
<1>9. Len(s.chain) = Len(q)
  BY <1>3, <1>4, <1>5, <1>7
<1>10. SameLoop(s, s0) /\ SameView(s, s0) /\ s \in TabRecord
  BY <1>6, <1>7 DEF SameButChain, SameLoop, SameView
<1>11. Opening(s) => Opening(s0)
  BY <1>3, <1>8 DEF Opening
<1>12. \A id : (Removes(s, id) <=> Removes(s0, id)) /\ (Adds(s, id) <=> Adds(s0, id))
  BY <1>1, <1>3, <1>8 DEF Removes, Adds, Reads
<1> HIDE DEF s0, c
<1> QED BY <1>1, <1>3, <1>8, <1>9, <1>10, <1>11, <1>12 DEF s0

\* What a tab that has read the entries takes for sent.
SentNow(s) == s.sent \cup {e.id : e \in {f \in ToSet(disk) : f.sent}}

LEMMA ReadView ==
    ASSUME QueueInv, NEW t \in Tabs, tabs[t].chain # <<>>
    PROVE  LET l == Loaded([tabs[t] EXCEPT !.chain = Tail(@)])
           IN  /\ l \in TabRecord /\ SameView(l, tabs[t])
               /\ l.mem = disk /\ l.sent = SentNow(tabs[t]) /\ l.chain = Tail(tabs[t].chain)
               /\ l.pc = tabs[t].pc /\ l.cur = tabs[t].cur /\ l.reply = tabs[t].reply
<1> DEFINE r == [tabs[t] EXCEPT !.chain = Tail(@)]
<1>1. /\ tabs[t] \in TabRecord /\ tabs[t].chain \in Seq(StorageCall)
      /\ disk \in Seq(Stored)
  BY TabOf DEF QueueInv, Shapes
<1>2. Tail(tabs[t].chain) \in Seq(StorageCall)
  BY <1>1, TailFollows
<1>3. /\ r \in TabRecord /\ r.sent = tabs[t].sent /\ r.chain = Tail(tabs[t].chain)
      /\ r.pc = tabs[t].pc /\ r.cur = tabs[t].cur /\ r.reply = tabs[t].reply
      /\ SameView(r, tabs[t])
  BY <1>1, <1>2 DEF TabRecord, SameView
<1> HIDE DEF r
<1> DEFINE l == Loaded(r)
<1>4. /\ l \in TabRecord /\ l.pc = r.pc /\ l.cur = r.cur /\ l.reply = r.reply
      /\ l.chain = r.chain /\ l.mem = disk
      /\ l.sent = r.sent \cup {e.id : e \in {f \in ToSet(disk) : f.sent}}
  BY <1>1, <1>3, LoadedIs
<1>5. SameView(l, r)
  BY <1>3, ViewsSame
<1> HIDE DEF l
<1>6. SameView(l, tabs[t])
  BY <1>3, <1>5 DEF SameView
<1>7. l.sent = SentNow(tabs[t])
  BY <1>3, <1>4 DEF SentNow
<1> QED BY <1>3, <1>4, <1>6, <1>7 DEF l, r

LEMMA ReadShowView ==
    ASSUME QueueInv, NEW t \in Tabs, ReadEntries(t), Head(tabs[t].chain).clean,
           Head(tabs[t].chain).kind # "pump"
    PROVE  \E s \in TabRecord :
              /\ tabs[t].chain # <<>> /\ Head(tabs[t].chain).kind \in Reads
              /\ tabs' = [tabs EXCEPT ![t] = s] /\ net' = net
              /\ s.mem = disk /\ s.sent = SentNow(tabs[t]) /\ s.chain = Tail(tabs[t].chain)
              /\ s.cur = tabs[t].cur /\ s.reply = tabs[t].reply
              /\ s.pc = tabs[t].pc \/ (tabs[t].pc = "idle" /\ s.pc = "lock")
              /\ s.feed = tabs[t].feed /\ s.sending = tabs[t].sending
              /\ s.current = tabs[t].current /\ s.settled = tabs[t].settled
              /\ s.copy = IF Head(tabs[t].chain).kind = "init" THEN saved ELSE tabs[t].copy
              /\ ToSet(tabs[t].pending) \subseteq ToSet(s.pending)
              /\ \A x \in ToSet(s.pending) :
                    \/ x \in ToSet(tabs[t].pending)
                    \/ \E e \in ToSet(disk) : x = Shown(e.id, e.op, e.sent)
<1> DEFINE s0 == tabs[t]
           c  == Head(s0.chain)
           l  == Loaded([s0 EXCEPT !.chain = Tail(@)])
           w  == ShowAll(l, disk)
           a  == [w EXCEPT !.copy = saved]
           b  == [w EXCEPT !.paused = FALSE]
           s  == IF c.kind = "init" THEN a ELSE Pump(b)
<1>1. /\ s0.chain # <<>> /\ c.kind \in Reads
      /\ tabs' = [tabs EXCEPT ![t] = s]
      /\ net' = net
  BY DEF ReadEntries, AfterRead, Reads
<1>2. disk \in Seq(Stored) /\ saved \in Copy
  BY DEF QueueInv, Shapes
<1>3. /\ l \in TabRecord /\ SameView(l, s0)
      /\ l.mem = disk /\ l.sent = SentNow(s0) /\ l.chain = Tail(s0.chain)
      /\ l.pc = s0.pc /\ l.cur = s0.cur /\ l.reply = s0.reply
  BY <1>1, ReadView
<1> HIDE DEF l
<1>4. /\ SameQueue(w, l) /\ SameButPending(w, l)
      /\ ToSet(l.pending) \subseteq ToSet(w.pending)
      /\ \A x \in ToSet(w.pending) :
            \/ x \in ToSet(l.pending)
            \/ \E e \in ToSet(disk) : x = Shown(e.id, e.op, e.sent)
  BY <1>2, <1>3, ShowAllIs, ShowAllView
<1> HIDE DEF w
<1>5. w \in TabRecord
  BY <1>4 DEF SameQueue
<1>6. /\ a \in TabRecord /\ a.copy = saved
      /\ a.mem = w.mem /\ a.sent = w.sent /\ a.chain = w.chain /\ a.cur = w.cur /\ a.reply = w.reply
      /\ a.pc = w.pc /\ a.feed = w.feed /\ a.sending = w.sending /\ a.current = w.current
      /\ a.settled = w.settled /\ a.pending = w.pending
  BY <1>2, <1>5 DEF TabRecord
<1>7. /\ b \in TabRecord /\ SameView(b, w)
      /\ b.mem = w.mem /\ b.sent = w.sent /\ b.chain = w.chain /\ b.cur = w.cur /\ b.reply = w.reply
      /\ b.pc = w.pc
  BY <1>5 DEF TabRecord, SameView
<1> HIDE DEF a, b
<1>8. /\ Pump(b) \in TabRecord /\ SameView(Pump(b), b)
      /\ Pump(b).mem = b.mem /\ Pump(b).sent = b.sent
      /\ Pump(b).cur = b.cur /\ Pump(b).reply = b.reply /\ Pump(b).chain = b.chain
      /\ Pump(b).pc = IF b.pc = "idle" THEN "lock" ELSE b.pc
  BY <1>7, PumpIs, ViewsSame
<1>9. /\ s \in TabRecord
      /\ s.mem = w.mem /\ s.sent = w.sent /\ s.chain = w.chain /\ s.cur = w.cur /\ s.reply = w.reply
      /\ s.pc = w.pc \/ (w.pc = "idle" /\ s.pc = "lock")
      /\ s.feed = w.feed /\ s.sending = w.sending /\ s.current = w.current
      /\ s.settled = w.settled /\ s.pending = w.pending
      /\ s.copy = IF c.kind = "init" THEN saved ELSE w.copy
  <2> HIDE DEF c
  <2>1. CASE c.kind = "init"
    <3>1. s = a
      BY <2>1
    <3> HIDE DEF s
    <3> QED BY <1>6, <2>1, <3>1
  <2>2. CASE c.kind # "init"
    <3>1. s = Pump(b)
      BY <2>2
    <3> HIDE DEF s
    <3> QED BY <1>7, <1>8, <2>2, <3>1 DEF SameView
  <2> QED BY <2>1, <2>2
<1> HIDE DEF s, c
<1>10. /\ w.mem = disk /\ w.sent = SentNow(s0) /\ w.chain = Tail(s0.chain)
       /\ w.cur = s0.cur /\ w.reply = s0.reply /\ w.pc = s0.pc
       /\ w.feed = s0.feed /\ w.sending = s0.sending /\ w.current = s0.current
       /\ w.settled = s0.settled /\ w.copy = s0.copy
       /\ ToSet(s0.pending) \subseteq ToSet(w.pending)
       /\ \A x \in ToSet(w.pending) :
            \/ x \in ToSet(s0.pending)
            \/ \E e \in ToSet(disk) : x = Shown(e.id, e.op, e.sent)
  BY <1>3, <1>4 DEF SameQueue, SameButPending, SameView
<1> HIDE DEF s0
<1> QED BY <1>1, <1>9, <1>10 DEF s0, c

\* What the loop does with the oldest entry it has read.
SendsOldest(s, s0, net2, t) ==
    \/ /\ disk = <<>> /\ net2 = net /\ s.pc = "idle" /\ s.cur = None
       /\ s.sent = SentNow(s0) /\ s.chain = Tail(s0.chain)
       /\ s.sending = s0.sending /\ s.current = s0.current
    \/ \E e \in ToSet(disk) :
          /\ s.cur = e /\ s.sending = e.id /\ s.current
          /\ \/ /\ e.id \in SentNow(s0) /\ s.pc = "call" /\ s.sent = SentNow(s0)
                /\ s.chain = Tail(s0.chain)
                /\ net2 = net \cup {[id |-> e.id, op |-> e.op, tab |-> t]}
             \/ /\ e.id \notin SentNow(s0) /\ s.pc = "mark" /\ net2 = net
                /\ s.sent = SentNow(s0) \cup {e.id}
                /\ s.chain = Append(Tail(s0.chain), Call("setSent", e.id, None))

LEMMA ReadSendView ==
    ASSUME QueueInv, NEW t \in Tabs, ReadEntries(t), Head(tabs[t].chain).clean,
           Head(tabs[t].chain).kind = "pump"
    PROVE  \E s \in TabRecord :
              /\ tabs[t].chain # <<>> /\ tabs[t].pc = "read"
              /\ tabs[t].cur = None /\ tabs[t].reply = None
              /\ tabs' = [tabs EXCEPT ![t] = s]
              /\ s.mem = disk /\ s.reply = None
              /\ s.copy = tabs[t].copy /\ s.feed = tabs[t].feed
              /\ s.pending = tabs[t].pending /\ s.settled = tabs[t].settled
              /\ SendsOldest(s, tabs[t], net', t)
<1> DEFINE s0 == tabs[t]
           c  == Head(s0.chain)
           l  == Loaded([s0 EXCEPT !.chain = Tail(@)])
           n  == SendFirst(l, t)
<1>1. /\ s0.chain # <<>>
      /\ tabs' = [tabs EXCEPT ![t] = n.tab] /\ net' = net \cup n.out
  BY DEF ReadEntries, AfterRead, Reads
<1>2. disk \in Seq(Stored)
  BY DEF QueueInv, Shapes
<1>3. /\ l \in TabRecord /\ SameView(l, s0)
      /\ l.mem = disk /\ l.sent = SentNow(s0) /\ l.chain = Tail(s0.chain)
      /\ l.pc = s0.pc /\ l.cur = s0.cur /\ l.reply = s0.reply
  BY <1>1, ReadView
<1>4. s0.pc = "read" /\ s0.cur = None /\ s0.reply = None
  <2>1. CallOK(c, s0, MadeIds, OverIds) /\ TabOK(s0, MadeIds, OverIds, FrontIds)
    BY <1>1, ReadIs, TabOf
  <2>2. s0.pc = "read"
    BY <2>1 DEF CallOK
  <2> QED BY <2>1, <2>2 DEF TabOK, EntriesOK
<1> HIDE DEF l
<1>5. CASE disk = <<>>
  <2> DEFINE s == [l EXCEPT !.pc = "idle"]
  <2>1. tabs' = [tabs EXCEPT ![t] = s] /\ net' = net
    <3>1. n = [tab |-> s, out |-> {}]
      BY <1>3, <1>5 DEF SendFirst
    <3> HIDE DEF n, s
    <3> QED BY <1>1, <3>1
  <2>2. /\ s \in TabRecord /\ s.mem = disk /\ s.sent = SentNow(s0)
        /\ s.chain = Tail(s0.chain) /\ s.pc = "idle" /\ s.cur = None /\ s.reply = None
        /\ SameView(s, s0)
    BY <1>3, <1>4 DEF TabRecord, SameView
  <2> HIDE DEF s, s0
  <2>3. SendsOldest(s, s0, net', t)
    BY <1>5, <2>1, <2>2 DEF SendsOldest, SameView
  <2> QED BY <1>1, <1>4, <2>1, <2>2, <2>3 DEF SameView, s0
<1>6. CASE disk # <<>>
  <2> DEFINE e   == Head(disk)
             out == [l EXCEPT !.cur = e, !.sending = e.id, !.current = TRUE]
  <2>1. e \in Stored /\ e.id \in OpIds /\ e.op \in UserOps /\ e \in ToSet(disk)
    <3>1. 1 \in DOMAIN disk /\ e = disk[1]
      BY <1>2, <1>6
    <3>2. e \in ToSet(disk) /\ e \in Stored
      BY <1>2, <3>1, ElementsOf
    <3> QED BY <3>2 DEF Stored
  <2>2. n = IF e.id \in l.sent
            THEN [tab |-> [out EXCEPT !.pc = "call"], out |-> {Request(out, t)}]
            ELSE [tab |-> Enqueue([out EXCEPT !.pc = "mark", !.sent = @ \cup {e.id}],
                                  Call("setSent", e.id, None)),
                  out |-> {}]
    BY <1>3, <1>6 DEF SendFirst
  <2> HIDE DEF e
  <2>3. /\ out \in TabRecord /\ out.mem = disk /\ out.sent = SentNow(s0)
        /\ out.chain = Tail(s0.chain) /\ out.cur = e /\ out.reply = None
        /\ out.sending = e.id /\ out.current
        /\ out.copy = s0.copy /\ out.feed = s0.feed
        /\ out.pending = s0.pending /\ out.settled = s0.settled
    BY <1>3, <1>4, <2>1 DEF TabRecord, SameView
  <2> HIDE DEF out, n
  <2>4. CASE e.id \in l.sent
    <3> DEFINE s == [out EXCEPT !.pc = "call"]
               q == Request(out, t)
    <3>1. tabs' = [tabs EXCEPT ![t] = s] /\ net' = net \cup {q}
      BY <1>1, <2>2, <2>4
    <3>2. /\ s \in TabRecord /\ s.pc = "call"
          /\ s.mem = out.mem /\ s.sent = out.sent /\ s.chain = out.chain
          /\ s.cur = out.cur /\ s.reply = out.reply
          /\ s.sending = out.sending /\ s.current = out.current
          /\ s.copy = out.copy /\ s.feed = out.feed
          /\ s.pending = out.pending /\ s.settled = out.settled
      <4>1. out \in TabRecord
        BY <2>3
      <4> QED BY <4>1 DEF TabRecord
    <3>3. q = [id |-> e.id, op |-> e.op, tab |-> t]
      BY <2>3 DEF Request
    <3> HIDE DEF s, q, s0
    <3>4. SendsOldest(s, s0, net', t)
      BY <1>3, <2>1, <2>3, <2>4, <3>1, <3>2, <3>3 DEF SendsOldest
    <3>5. /\ s.mem = disk /\ s.reply = None
          /\ s.copy = s0.copy /\ s.feed = s0.feed
          /\ s.pending = s0.pending /\ s.settled = s0.settled
      BY <2>3, <3>2
    <3> QED BY <1>1, <1>4, <3>1, <3>2, <3>4, <3>5 DEF s0
  <2>5. CASE e.id \notin l.sent
    <3> DEFINE m == [out EXCEPT !.pc = "mark", !.sent = @ \cup {e.id}]
               k == Call("setSent", e.id, None)
               s == Enqueue(m, k)
    <3>1. tabs' = [tabs EXCEPT ![t] = s] /\ net' = net
      BY <1>1, <2>2, <2>5
    <3>2. /\ m \in TabRecord /\ m.pc = "mark" /\ m.sent = out.sent \cup {e.id}
          /\ m.mem = out.mem /\ m.chain = out.chain
          /\ m.cur = out.cur /\ m.reply = out.reply
          /\ m.sending = out.sending /\ m.current = out.current
          /\ m.copy = out.copy /\ m.feed = out.feed
          /\ m.pending = out.pending /\ m.settled = out.settled
      <4>1. out \in TabRecord /\ e.id \in OpIds
        BY <2>1, <2>3
      <4>2. out.sent \cup {e.id} \in SUBSET OpIds
        BY <4>1 DEF TabRecord
      <4> QED BY <4>1, <4>2 DEF TabRecord
    <3>3. k \in StorageCall
      BY <2>1, CallIs
    <3> HIDE DEF m, k
    <3>4. SameButChain(s, m) /\ s.chain = Append(m.chain, k) /\ SameView(s, m)
      BY <3>2, <3>3, EnqueueIs, ViewsSame
    <3> HIDE DEF s, s0
    <3>5. /\ s \in TabRecord /\ s.mem = disk /\ s.reply = None /\ s.cur = e /\ s.pc = "mark"
          /\ s.sent = SentNow(s0) \cup {e.id} /\ s.sending = e.id /\ s.current
          /\ s.chain = Append(Tail(s0.chain), k)
          /\ s.copy = s0.copy /\ s.feed = s0.feed
          /\ s.pending = s0.pending /\ s.settled = s0.settled
      BY <2>3, <3>2, <3>4 DEF SameButChain, SameView
    <3>6. SendsOldest(s, s0, net', t)
      BY <1>3, <2>1, <2>5, <3>1, <3>5 DEF SendsOldest, k
    <3> QED BY <1>1, <1>4, <3>1, <3>5, <3>6 DEF s0
  <2> QED BY <2>4, <2>5
<1> QED BY <1>5, <1>6

LEMMA WriteView ==
    ASSUME QueueInv, NEW t \in Tabs, WriteEntries(t)
    PROVE  \E s \in TabRecord, c \in StorageCall :
              /\ tabs[t].chain # <<>> /\ c = Head(tabs[t].chain) /\ c.kind \notin Reads
              /\ disk' = Written(disk, c)
              /\ tabs' = [tabs EXCEPT ![t] = s] /\ SameView(s, tabs[t])
              /\ s.mem = tabs[t].mem /\ s.sent = tabs[t].sent
              /\ s.cur = tabs[t].cur /\ s.reply = tabs[t].reply /\ s.chain = Tail(tabs[t].chain)
              /\ \/ s.pc = tabs[t].pc /\ net' = net /\ ~Marked(tabs[t], c)
                 \/ /\ Marked(tabs[t], c) /\ s.pc = "call"
                    /\ net' = net \cup {Request(tabs[t], t)}
              /\ c.kind = "add" => c.id \notin TouchedIds
              /\ Ids(disk') = IF c.kind = "add" THEN Ids(disk) \cup {c.id}
                              ELSE IF c.kind = "remove" THEN Ids(disk) \ {c.id} ELSE Ids(disk)
<1> DEFINE s0 == tabs[t]
           c  == Head(s0.chain)
           r  == [s0 EXCEPT !.chain = Tail(@)]
           m  == [r EXCEPT !.pc = "call"]
<1>1. /\ s0.chain # <<>> /\ c.kind \notin Reads /\ disk' = Written(disk, c)
      /\ \/ tabs' = [tabs EXCEPT ![t] = r] /\ net' = net /\ ~Marked(s0, c)
         \/ /\ Marked(s0, c)
            /\ tabs' = [tabs EXCEPT ![t] = m] /\ net' = net \cup {Request(s0, t)}
  BY DEF WriteEntries, Written
<1>2. s0 \in TabRecord /\ s0.chain \in Seq(StorageCall)
  BY TabOf
<1>3. /\ Tail(s0.chain) \in Seq(StorageCall) /\ c = s0.chain[1] /\ 1 \in DOMAIN s0.chain
      /\ c \in StorageCall
  BY <1>1, <1>2, TailFollows
<1>4. c.kind = "add" => c.id \notin TouchedIds
  BY <1>3 DEF QueueInv, AddsAreNew
<1>5. disk \in Seq(Stored) /\ Differ(disk)
  BY DEF QueueInv, Shapes, EntriesDiffer, Differ
<1>6. Ids(disk') = IF c.kind = "add" THEN Ids(disk) \cup {c.id}
                   ELSE IF c.kind = "remove" THEN Ids(disk) \ {c.id} ELSE Ids(disk)
  <2>1. c.kind = "add" => c.id \notin Ids(disk)
    BY <1>4 DEF TouchedIds
  <2>2. Ids(disk') = Ids(Written(disk, c))
    BY <1>1 DEF Ids
  <2> HIDE DEF c
  <2> QED BY <1>1, <1>3, <1>5, <2>1, <2>2, WrittenIs
<1>7. /\ r \in TabRecord /\ r.chain = Tail(s0.chain) /\ SameView(r, s0)
      /\ r.mem = s0.mem /\ r.sent = s0.sent /\ r.pc = s0.pc /\ r.cur = s0.cur
      /\ r.reply = s0.reply
  BY <1>2, <1>3 DEF TabRecord, SameView
<1> HIDE DEF r
<1>8. /\ m \in TabRecord /\ m.chain = Tail(s0.chain) /\ SameView(m, s0)
      /\ m.mem = s0.mem /\ m.sent = s0.sent /\ m.pc = "call" /\ m.cur = s0.cur
      /\ m.reply = s0.reply
  BY <1>7 DEF TabRecord, SameView
<1> HIDE DEF m
<1>9. CASE tabs' = [tabs EXCEPT ![t] = r] /\ net' = net /\ ~Marked(s0, c)
  <2> HIDE DEF c
  <2> QED BY <1>1, <1>3, <1>4, <1>6, <1>7, <1>9 DEF c
<1>10. CASE /\ Marked(s0, c)
            /\ tabs' = [tabs EXCEPT ![t] = m] /\ net' = net \cup {Request(s0, t)}
  <2> HIDE DEF c
  <2> QED BY <1>1, <1>3, <1>4, <1>6, <1>8, <1>10 DEF c
<1> QED BY <1>1, <1>9, <1>10

-----------------------------------------------------------------------------
(* DataInv holds throughout.                                               *)

LEMMA PageKeepsData ==
    ASSUME QueueInv, DataInv, NEW t \in Tabs, Page(t)
    PROVE  DataInv'
<1>1. CASE Open(t)
  <2>1. PICK s \in TabRecord :
           /\ tabs' = [tabs EXCEPT ![t] = s]
           /\ SameLoop(s, ClosedTab) /\ SameView(s, ClosedTab)
    BY <1>1, OpenView
  <2>2. UNCHANGED <<room, processed, saved>>
    BY <1>1 DEF Open, serverVars, deviceVars
  <2>3. s.copy = NoCopy /\ s.feed = None /\ s.reply = None
    BY <2>1 DEF SameLoop, SameView, ClosedTab
  <2> QED BY <2>1, <2>2, <2>3, CopiesMove
<1>2. CASE Close(t)
  <2>1. UNCHANGED <<room, processed, saved>> /\ tabs' = [tabs EXCEPT ![t] = ClosedTab]
    BY <1>2 DEF Close, serverVars, deviceVars
  <2>2. ClosedTab.copy = NoCopy /\ ClosedTab.feed = None /\ ClosedTab.reply = None
    BY DEF ClosedTab
  <2> QED BY <2>1, <2>2, CopiesMove
<1>3. CASE Send(t)
  <2>1. PICK id \in OpIds, op \in UserOps, s \in TabRecord :
           /\ tabs' = [tabs EXCEPT ![t] = s] /\ SameButPending(s, tabs[t])
           /\ s.cur = tabs[t].cur /\ s.reply = tabs[t].reply
    BY <1>3, SendView
  <2>2. UNCHANGED <<room, processed, saved>>
    BY <1>3 DEF Send, serverVars, deviceVars
  <2>3. s.copy = tabs[t].copy /\ s.feed = tabs[t].feed
    BY <2>1 DEF SameButPending
  <2> QED BY <2>1, <2>2, <2>3, CopiesMove
<1>4. CASE Discard(t)
  <2>1. PICK id \in OpIds, s \in TabRecord :
           /\ tabs' = [tabs EXCEPT ![t] = s] /\ SameButPending(s, tabs[t])
           /\ s.cur = tabs[t].cur /\ s.reply = tabs[t].reply
    BY <1>4, DiscardView
  <2>2. UNCHANGED <<room, processed, saved>>
    BY <1>4 DEF Discard, serverVars, deviceVars
  <2>3. s.copy = tabs[t].copy /\ s.feed = tabs[t].feed
    BY <2>1 DEF SameButPending
  <2> QED BY <2>1, <2>2, <2>3, CopiesMove
<1>5. CASE Pause(t)
  <2>1. PICK s \in TabRecord :
           /\ tabs' = [tabs EXCEPT ![t] = s]
           /\ SameLoop(s, tabs[t]) /\ SameView(s, tabs[t])
    BY <1>5, PauseView
  <2>2. UNCHANGED <<room, processed, saved>>
    BY <1>5 DEF Pause, serverVars, deviceVars
  <2>3. s.copy = tabs[t].copy /\ s.feed = tabs[t].feed /\ s.cur = tabs[t].cur
        /\ s.reply = tabs[t].reply
    BY <2>1 DEF SameView, SameLoop
  <2> QED BY <2>1, <2>2, <2>3, CopiesMove
<1>6. CASE SignedOut(t)
  <2> DEFINE s == Clear([tabs[t] EXCEPT !.paused = TRUE])
  <2>1. /\ tabs' = [tabs EXCEPT ![t] = s] /\ saved' = NoCopy /\ UNCHANGED <<room, processed>>
    BY <1>6 DEF SignedOut, serverVars
  <2>2. SameLoop(s, tabs[t]) /\ Cleared(s)
    BY TypesAre, ClearView
  <2> HIDE DEF s
  <2>3. s.copy = NoCopy /\ s.feed = None /\ s.cur = tabs[t].cur /\ s.reply = tabs[t].reply
    BY <2>2 DEF Cleared, SameLoop
  <2> QED BY <2>1, <2>3, CopiesMove
<1>7. CASE AskFeed(t) \/ AnswerFeed(t)
  <2>1. PICK s \in TabRecord :
           /\ tabs' = [tabs EXCEPT ![t] = s]
           /\ SameLoop(s, tabs[t]) /\ s.copy = tabs[t].copy /\ s.feed \in {Asked, CopyNow}
    BY <1>7, FeedView
  <2>2. UNCHANGED <<room, processed, saved>>
    BY <1>7 DEF AskFeed, AnswerFeed, serverVars, deviceVars
  <2>3. s.cur = tabs[t].cur /\ s.reply = tabs[t].reply
    BY <2>1 DEF SameLoop
  <2> QED BY <2>1, <2>2, <2>3, CopiesMove
<1>8. CASE TakeFeed(t)
  <2>1. PICK s \in TabRecord :
           /\ tabs[t].feed \notin {None, Asked}
           /\ tabs' = [tabs EXCEPT ![t] = s]
           /\ SameLoop(s, tabs[t]) /\ s.feed = None
           /\ \/ s.copy = tabs[t].copy /\ saved' = saved
              \/ s.copy = tabs[t].feed /\ saved' \in {saved, tabs[t].feed}
    BY <1>8, TakeFeedView
  <2>2. UNCHANGED <<room, processed>>
    BY <1>8 DEF TakeFeed, serverVars
  <2>3. s.cur = tabs[t].cur /\ s.reply = tabs[t].reply
    BY <2>1 DEF SameLoop
  <2>4. saved' = saved \/ saved' = tabs[t].feed
    BY <2>1
  <2> QED BY <2>1, <2>2, <2>3, <2>4, CopiesMove
<1>9. CASE NoAnswer(t)
  <2>1. PICK s \in TabRecord :
           /\ tabs' = [tabs EXCEPT ![t] = s] /\ s.reply = None
           /\ s.copy = tabs[t].copy /\ s.feed = tabs[t].feed
    BY <1>9, NoAnswerView
  <2>2. UNCHANGED <<room, processed, saved>>
    BY <1>9 DEF NoAnswer, serverVars, deviceVars
  <2> QED BY <2>1, <2>2, CopiesMove
<1>10. CASE Unauthorized(t)
  <2>1. PICK s \in TabRecord :
           /\ tabs' = [tabs EXCEPT ![t] = s] /\ s.reply = None /\ Cleared(s)
    BY <1>10, UnauthorizedView
  <2>2. UNCHANGED <<room, processed>> /\ saved' = NoCopy
    BY <1>10 DEF Unauthorized, serverVars
  <2>3. s.copy = NoCopy /\ s.feed = None
    BY <2>1 DEF Cleared
  <2> QED BY <2>1, <2>2, <2>3, CopiesMove
<1> QED BY <1>1, <1>2, <1>3, <1>4, <1>5, <1>6, <1>7, <1>8, <1>9, <1>10 DEF Page

LEMMA LoopKeepsData ==
    ASSUME QueueInv, DataInv, NEW t \in Tabs, Loop(t)
    PROVE  DataInv'
<1>1. CASE TakeLock(t) \/ Wake(t)
  <2>1. PICK s \in TabRecord : tabs' = [tabs EXCEPT ![t] = s] /\ RoundFrom(s, tabs[t])
    BY <1>1, RoundView
  <2>2. UNCHANGED <<room, processed, saved>>
    BY <1>1 DEF TakeLock, Wake, serverVars, deviceVars
  <2>3. s.copy = tabs[t].copy /\ s.feed = tabs[t].feed /\ s.reply = None
    BY <2>1 DEF RoundFrom
  <2> QED BY <2>1, <2>2, <2>3, CopiesMove
<1>2. CASE ReadEntries(t)
  <2>1. UNCHANGED <<room, processed, saved>>
    BY <1>2 DEF ReadEntries, serverVars, deviceVars
  <2>2. CASE ~Head(tabs[t].chain).clean
    <3>1. PICK s \in TabRecord :
             /\ tabs' = [tabs EXCEPT ![t] = s]
             /\ SameLoop(s, tabs[t]) /\ SameView(s, tabs[t])
      BY <1>2, <2>2, ReadAgainView
    <3>2. s.copy = tabs[t].copy /\ s.feed = tabs[t].feed /\ s.cur = tabs[t].cur
          /\ s.reply = tabs[t].reply
      BY <3>1 DEF SameView, SameLoop
    <3> QED BY <2>1, <3>1, <3>2, CopiesMove
  <2>3. CASE Head(tabs[t].chain).clean /\ Head(tabs[t].chain).kind # "pump"
    <3>1. PICK s \in TabRecord :
             /\ tabs' = [tabs EXCEPT ![t] = s]
             /\ s.cur = tabs[t].cur /\ s.reply = tabs[t].reply /\ s.feed = tabs[t].feed
             /\ s.copy = IF Head(tabs[t].chain).kind = "init" THEN saved ELSE tabs[t].copy
      BY <1>2, <2>3, ReadShowView
    <3>2. s.copy \in {tabs[t].copy, saved}
      BY <3>1
    <3> QED BY <2>1, <3>1, <3>2, CopiesMove
  <2>4. CASE Head(tabs[t].chain).clean /\ Head(tabs[t].chain).kind = "pump"
    <3>1. PICK s \in TabRecord :
             /\ tabs' = [tabs EXCEPT ![t] = s] /\ s.reply = None
             /\ s.copy = tabs[t].copy /\ s.feed = tabs[t].feed
      BY <1>2, <2>4, ReadSendView
    <3> QED BY <2>1, <3>1, CopiesMove
  <2> QED BY <2>2, <2>3, <2>4
<1>3. CASE WriteEntries(t)
  <2>1. PICK s \in TabRecord, c \in StorageCall :
           /\ tabs' = [tabs EXCEPT ![t] = s] /\ SameView(s, tabs[t])
           /\ s.cur = tabs[t].cur /\ s.reply = tabs[t].reply
    BY <1>3, WriteView
  <2>2. UNCHANGED <<room, processed, saved>>
    BY <1>3 DEF WriteEntries, serverVars
  <2>3. s.copy = tabs[t].copy /\ s.feed = tabs[t].feed
    BY <2>1 DEF SameView
  <2> QED BY <2>1, <2>2, <2>3, CopiesMove
<1>4. CASE Settle(t) \/ Fail(t)
  <2>1. PICK s \in TabRecord, id \in OpIds :
           tabs' = [tabs EXCEPT ![t] = s] /\ Removed(s, tabs[t], id)
    BY <1>4, SettleView, FailView
  <2>2. UNCHANGED <<room, processed, saved>>
    BY <1>4 DEF Settle, Fail, serverVars, deviceVars
  <2>3. s.copy = tabs[t].copy /\ s.feed = tabs[t].feed /\ s.reply = None
    BY <2>1 DEF Removed
  <2> QED BY <2>1, <2>2, <2>3, CopiesMove
<1> QED BY <1>1, <1>2, <1>3, <1>4 DEF Loop

LEMMA DataStart ==
    ASSUME Init
    PROVE  DataInv
<1>1. /\ processed = [id \in OpIds |-> None] /\ saved = CopyNow
      /\ tabs = [t \in Tabs |-> ClosedTab]
      /\ room.seq = 1
  BY DEF Init
<1>2. ClosedTab.copy = NoCopy /\ ClosedTab.feed = None /\ ClosedTab.reply = None
  BY DEF ClosedTab
<1>3. NoCopy.seq = 0 /\ NoCopy.has = {} /\ CopyNow.seq = room.seq
  BY DEF NoCopy, CopyNow
<1>4. CopyNow.has = {}
  BY <1>1 DEF CopyNow
<1>5. Copies \subseteq {CopyNow, NoCopy}
  BY <1>1, <1>2 DEF Copies
<1>6. \A id \in OpIds : processed[id] = None
  BY <1>1
<1>7. CopyOK(CopyNow, room, processed) /\ CopyOK(NoCopy, room, processed)
  BY <1>1, <1>3, <1>4, <1>6 DEF CopyOK
<1>8. RanOK(room, processed)
  BY <1>6 DEF RanOK
<1>9. \A t \in Tabs : ReplyOK(tabs[t], processed)
  BY <1>1, <1>2 DEF ReplyOK
<1> QED BY <1>5, <1>7, <1>8, <1>9 DEF DataInv

LEMMA DataStep ==
    ASSUME QueueInv, DataInv, [Next]_vars
    PROVE  DataInv'
<1>1. ASSUME NEW t \in Tabs, Page(t) \/ Loop(t) PROVE DataInv'
  BY <1>1, PageKeepsData, LoopKeepsData
<1>2. ASSUME NEW r \in net, Serve(r) \/ Refuse(r) PROVE DataInv'
  BY <1>2, ServeKeepsData, RefuseKeepsData
<1>3. CASE Foreign
  BY <1>3, ForeignKeepsData
<1>4. CASE UNCHANGED vars
  <2>1. room' = room /\ processed' = processed /\ saved' = saved /\ tabs' = tabs
    BY <1>4 DEF vars
  <2>2. Copies' = Copies
    BY <2>1 DEF Copies, Asked, NoCopy
  <2>3. \A c \in Copies' : CopyOK(c, room', processed')
    BY <2>1, <2>2 DEF DataInv
  <2>4. RanOK(room', processed') /\ \A t \in Tabs : ReplyOK(tabs'[t], processed')
    BY <2>1 DEF DataInv
  <2> QED BY <2>3, <2>4 DEF DataInv
<1> QED BY <1>1, <1>2, <1>3, <1>4 DEF Next, Server

LEMMA DataInvariant == Spec => []DataInv
<1>1. Init => DataInv
  BY DataStart
<1>2. QueueInv /\ DataInv /\ [Next]_vars => DataInv'
  BY DataStep
<1>3. Spec => []QueueInv
  BY QueueInvariant
<1> QED BY <1>1, <1>2, <1>3, PTL DEF Spec

-----------------------------------------------------------------------------
(* PageInv holds throughout.                                               *)

LEMMA NoCalls ==
    ASSUME NEW s, s.chain = <<>>
    PROVE  ReadsInOrder(s.chain) /\ ~Opening(s) /\ CallsIn(s.chain) = {}
BY DEF ReadsInOrder, Opening, CallsIn

LEMMA NothingSettled ==
    ASSUME NEW s, NEW done, NEW stored, s.settled = {}
    PROVE  SettledOK(s, done, stored)
BY DEF SettledOK

LEMMA PageKeepsPage ==
    ASSUME QueueInv, DataInv, PageInv, NEW t \in Tabs, Page(t)
    PROVE  PageInv'
<1> DEFINE s0 == tabs[t]
<1>0. /\ s0 \in TabRecord /\ s0.chain \in Seq(StorageCall)
      /\ EntriesOK(s0, MadeIds, OverIds, FrontIds)
      /\ ReadsInOrder(s0.chain) /\ OpeningOK(s0)
      /\ SettledOK(s0, processed, Ids(disk))
      /\ \A id \in s0.settled : id \in OpIds /\ id \in MadeIds
  BY PageOf
<1>1. CASE Open(t)
  <2>1. PICK s \in TabRecord :
           /\ tabs' = [tabs EXCEPT ![t] = s]
           /\ SameLoop(s, ClosedTab) /\ SameView(s, ClosedTab)
           /\ Len(s.chain) = 1 /\ ReadsInOrder(s.chain)
    BY <1>1, OpenView
  <2>2. processed' = processed /\ disk' = disk
    BY <1>1 DEF Open, serverVars, deviceVars
  <2>3. /\ s.mem = <<>> /\ s.pc = "idle" /\ s.feed = None
        /\ s.copy = NoCopy /\ s.pending = <<>> /\ s.settled = {}
    BY <2>1 DEF SameLoop, SameView, ClosedTab
  <2>4. OpeningOK(s)
    BY <2>1, <2>3 DEF OpeningOK
  <2>5. PageOK(s, processed, Ids(disk))
    BY <2>1, <2>3, <2>4, NothingSettled DEF PageOK
  <2> QED BY <2>1, <2>2, <2>5, PageQuietStep
<1>2. CASE Close(t)
  <2>1. tabs' = [tabs EXCEPT ![t] = ClosedTab] /\ processed' = processed /\ disk' = disk
    BY <1>2 DEF Close, serverVars, deviceVars
  <2>2. ClosedTab.chain = <<>> /\ ClosedTab.settled = {}
    BY DEF ClosedTab
  <2>3. PageOK(ClosedTab, processed, Ids(disk))
    BY <2>2, NoCalls, NothingSettled DEF PageOK, OpeningOK
  <2> QED BY <2>1, <2>3, PageQuietStep
<1>3. CASE Send(t)
  <2>1. PICK id \in OpIds, op \in UserOps, s \in TabRecord :
           /\ s0.copy.row # None /\ seen[id] = None
           /\ tabs' = [tabs EXCEPT ![t] = s]
           /\ Ids(s.mem) = Ids(s0.mem) \cup {id}
           /\ s.cur = s0.cur
           /\ CallsIn(s.chain) = CallsIn(s0.chain) \cup {<<"add", id>>}
           /\ ReadsInOrder(s.chain)
           /\ SameButPending(s, s0)
           /\ ToSet(s0.pending) \subseteq ToSet(s.pending)
    BY <1>3, SendView
  <2>2. processed' = processed /\ disk' = disk
    BY <1>3 DEF Send, serverVars, deviceVars
  <2> HIDE DEF s0
  <2>3. OpeningOK(s)
    <3>1. s0.copy # NoCopy
      BY <2>1 DEF NoCopy
    <3>2. Opening(s) => Opening(s0)
      BY <2>1 DEF Opening
    <3> QED BY <1>0, <3>1, <3>2, NotOpening
  <2>4. SettledOK(s, processed, Ids(disk))
    <3>1. s.settled = s0.settled /\ s.copy = s0.copy
      BY <2>1 DEF SameButPending
    <3>2. \A i \in s0.settled : i # id
      BY <1>0, <2>1 DEF MadeIds
    <3>3. \A i : Removes(s0, i) => Removes(s, i)
      BY <2>1 DEF Removes
    <3> QED BY <1>0, <2>1, <3>1, <3>2, <3>3, SettledStays
  <2>5. PageOK(s, processed, Ids(disk))
    BY <2>1, <2>3, <2>4 DEF PageOK
  <2> QED BY <2>1, <2>2, <2>5, PageQuietStep DEF s0
<1>4. CASE Discard(t)
  <2>1. PICK id \in OpIds, s \in TabRecord :
           /\ id \in Ids(s0.mem)
           /\ tabs' = [tabs EXCEPT ![t] = s]
           /\ Ids(s.mem) = Ids(s0.mem) \ {id}
           /\ s.cur = s0.cur
           /\ CallsIn(s.chain) = CallsIn(s0.chain) \cup {<<"remove", id>>}
           /\ ReadsInOrder(s.chain)
           /\ SameButPending(s, s0)
           /\ ToSet(s.pending) = {x \in ToSet(s0.pending) : x.id # id}
    BY <1>4, DiscardView
  <2>2. processed' = processed /\ disk' = disk
    BY <1>4 DEF Discard, serverVars, deviceVars
  <2> HIDE DEF s0
  <2>3. OpeningOK(s)
    <3>1. s0.mem # <<>>
      BY <2>1 DEF Ids, ToSet
    <3>2. Opening(s) => Opening(s0)
      BY <2>1 DEF Opening
    <3> QED BY <1>0, <3>1, <3>2, NotOpening
  <2>4. SettledOK(s, processed, Ids(disk))
    <3>1. s.settled = s0.settled /\ s.copy = s0.copy
      BY <2>1 DEF SameButPending
    <3>2. \A i \in s0.settled : i # id
      BY <1>0, <2>1 DEF SettledOK
    <3>3. \A i : Removes(s0, i) => Removes(s, i)
      BY <2>1 DEF Removes
    <3> QED BY <1>0, <2>1, <3>1, <3>2, <3>3, SettledStays
  <2>5. PageOK(s, processed, Ids(disk))
    BY <2>1, <2>3, <2>4 DEF PageOK
  <2> QED BY <2>1, <2>2, <2>5, PageQuietStep DEF s0
<1>5. CASE Pause(t)
  <2>1. PICK s \in TabRecord :
           /\ tabs' = [tabs EXCEPT ![t] = s]
           /\ SameLoop(s, s0) /\ SameView(s, s0) /\ s.chain = s0.chain
    BY <1>5, PauseView
  <2>2. processed' = processed /\ disk' = disk
    BY <1>5 DEF Pause, serverVars, deviceVars
  <2> HIDE DEF s0
  <2>3. PageOK(s, processed, Ids(disk))
    BY <1>0, <2>1 DEF PageOK, OpeningOK, Opening, SettledOK, Removes, StaysShown, SameLoop, SameView
  <2> QED BY <2>1, <2>2, <2>3, PageQuietStep DEF s0
<1>6. CASE SignedOut(t)
  <2> DEFINE s == Clear([s0 EXCEPT !.paused = TRUE])
  <2>1. tabs' = [tabs EXCEPT ![t] = s] /\ processed' = processed /\ disk' = disk
    BY <1>6 DEF SignedOut, serverVars
  <2>2. SameLoop(s, s0) /\ Cleared(s) /\ s.chain = s0.chain
    BY <1>0, ClearView
  <2> HIDE DEF s, s0
  <2>3. OpeningOK(s)
    BY <1>0, <2>2 DEF OpeningOK, Opening, SameLoop, Cleared
  <2>4. PageOK(s, processed, Ids(disk))
    BY <1>0, <2>2, <2>3, NothingSettled DEF PageOK, Cleared
  <2> QED BY <2>1, <2>4, PageQuietStep DEF s0
<1>7. CASE AskFeed(t) \/ AnswerFeed(t)
  <2>1. PICK s \in TabRecord :
           /\ tabs' = [tabs EXCEPT ![t] = s]
           /\ SameLoop(s, s0) /\ s.chain = s0.chain
           /\ s.copy = s0.copy /\ s.pending = s0.pending
           /\ s.settled = s0.settled
           /\ s0.feed # None \/ \A c \in ToSet(s0.chain) : c.kind # "init"
    BY <1>7, FeedView
  <2>2. processed' = processed /\ disk' = disk
    BY <1>7 DEF AskFeed, AnswerFeed, serverVars, deviceVars
  <2> HIDE DEF s0
  <2>3. ~Opening(s0)
    <3>1. CASE s0.feed # None
      BY <1>0, <3>1 DEF OpeningOK
    <3>2. CASE \A c \in ToSet(s0.chain) : c.kind # "init"
      <4>1. \A k \in DOMAIN s0.chain : s0.chain[k].kind # "init"
        BY <3>2 DEF ToSet
      <4> QED BY <4>1 DEF Opening, CallsIn
    <3> QED BY <2>1, <3>1, <3>2
  <2>4. SettledOK(s, processed, Ids(disk))
    BY <1>0, <2>1 DEF SettledOK, Removes, StaysShown, SameLoop
  <2>5. PageOK(s, processed, Ids(disk))
    BY <1>0, <2>1, <2>3, <2>4 DEF PageOK, OpeningOK, Opening
  <2> QED BY <2>1, <2>2, <2>5, PageQuietStep DEF s0
<1>8. CASE TakeFeed(t)
  <2>1. PICK s \in TabRecord :
           /\ s0.feed \notin {None, Asked}
           /\ tabs' = [tabs EXCEPT ![t] = s]
           /\ SameLoop(s, s0)
           /\ s.settled = s0.settled
           /\ CallsIn(s0.chain) \subseteq CallsIn(s.chain)
           /\ CallsIn(s.chain) \subseteq CallsIn(s0.chain) \cup {<<"load", None>>}
           /\ ReadsInOrder(s0.chain) => ReadsInOrder(s.chain)
           /\ \/ s.copy = s0.copy /\ s.pending = s0.pending
              \/ /\ s0.copy.seq <= s0.feed.seq
                 /\ s.copy = s0.feed
                 /\ ToSet(s.pending) = {x \in ToSet(s0.pending) :
                       x.appliedSeq = None \/ x.appliedSeq > s0.feed.seq}
    BY <1>8, TakeFeedView
  <2>2. processed' = processed /\ disk' = disk
    BY <1>8 DEF TakeFeed, serverVars
  <2>3. s0.feed \in Copies /\ s0.copy \in Copies
    BY <2>1 DEF Copies
  <2> HIDE DEF s0
  <2>4. OpeningOK(s)
    <3>1. Opening(s) => Opening(s0)
      BY <2>1 DEF Opening
    <3> QED BY <1>0, <2>1, <3>1, NotOpening
  <2>5. \A i : Removes(s0, i) => Removes(s, i)
    BY <2>1 DEF Removes
  <2>6. SettledOK(s, processed, Ids(disk))
    <3>1. CASE s.copy = s0.copy /\ s.pending = s0.pending
      <4>1. s.cur = s0.cur /\ s.mem = s0.mem
        BY <2>1 DEF SameLoop
      <4> QED BY <1>0, <2>1, <2>5, <3>1, <4>1, SettledStays
    <3>2. CASE /\ s0.copy.seq <= s0.feed.seq
               /\ s.copy = s0.feed
               /\ ToSet(s.pending) = {x \in ToSet(s0.pending) :
                     x.appliedSeq = None \/ x.appliedSeq > s0.feed.seq}
      <4> SUFFICES ASSUME NEW id \in s0.settled
                   PROVE  /\ processed[id] # None
                          /\ id \notin Ids(s.mem)
                          /\ s.cur # None => s.cur.id # id
                          /\ id \in Ids(disk) => Removes(s, id)
                          /\ StaysShown(s, id, processed)
        BY <2>1 DEF SettledOK
      <4>1. /\ processed[id] # None /\ id \notin Ids(s0.mem) /\ id \in OpIds
            /\ s0.cur # None => s0.cur.id # id
            /\ id \in Ids(disk) => Removes(s0, id)
            /\ StaysShown(s0, id, processed)
        BY <1>0 DEF SettledOK
      <4>2. processed[id].answer.seq \in Nat /\ s0.feed.seq \in Int /\ s0.copy.seq \in Int
        BY <2>3, <4>1, TypesAre
      <4>3. processed[id].wrote /\ processed[id].answer.seq <= s0.feed.seq => id \in s0.feed.has
        BY <2>3, <4>1 DEF DataInv, CopyOK
      <4>4. id \in s0.copy.has => processed[id].answer.seq <= s0.copy.seq
        BY <2>3 DEF DataInv, CopyOK
      <4>5. StaysShown(s, id, processed)
        <5>1. CASE ~processed[id].wrote
          BY <5>1 DEF StaysShown
        <5>2. CASE processed[id].wrote /\ processed[id].answer.seq <= s0.feed.seq
          BY <3>2, <4>3, <5>2 DEF StaysShown
        <5>3. CASE processed[id].wrote /\ processed[id].answer.seq > s0.feed.seq
          <6>1. id \notin s0.copy.has
            BY <3>2, <4>2, <4>4, <5>3
          <6>2. PICK p \in ToSet(s0.pending) :
                   p.id = id /\ p.appliedSeq = processed[id].answer.seq /\ ~p.uncertain
            BY <4>1, <5>3, <6>1 DEF StaysShown
          <6>3. p \in ToSet(s.pending)
            BY <3>2, <5>3, <6>2
          <6> QED BY <6>2, <6>3 DEF StaysShown
        <5> QED BY <4>2, <5>1, <5>2, <5>3
      <4>6. s.cur = s0.cur /\ s.mem = s0.mem
        BY <2>1 DEF SameLoop
      <4> QED BY <2>5, <4>1, <4>5, <4>6
    <3> QED BY <2>1, <3>1, <3>2
  <2>7. PageOK(s, processed, Ids(disk))
    BY <1>0, <2>1, <2>4, <2>6 DEF PageOK
  <2> QED BY <2>1, <2>2, <2>7, PageQuietStep DEF s0
<1>9. CASE NoAnswer(t)
  <2>1. PICK s \in TabRecord :
           /\ tabs' = [tabs EXCEPT ![t] = s] /\ s0.pc = "call"
           /\ s.mem = s0.mem /\ s.chain = s0.chain
           /\ s.cur = s0.cur
           /\ s.copy = s0.copy
           /\ s.settled = s0.settled
           /\ \A x \in ToSet(s0.pending) : x.id # s0.cur.id => x \in ToSet(s.pending)
    BY <1>9, NoAnswerView
  <2>2. processed' = processed /\ disk' = disk
    BY <1>9 DEF NoAnswer, serverVars, deviceVars
  <2> HIDE DEF s0
  <2>3. OpeningOK(s)
    <3>1. Opening(s) => Opening(s0)
      BY <2>1 DEF Opening
    <3>2. s0.pc # "idle"
      BY <2>1
    <3> QED BY <1>0, <3>1, <3>2, NotOpening
  <2>4. \A i \in s0.settled : i # s0.cur.id
    BY <1>0, <2>1 DEF SettledOK, EntriesOK
  <2>5. \A i : Removes(s0, i) => Removes(s, i)
    BY <2>1 DEF Removes
  <2>6. SettledOK(s, processed, Ids(disk))
    BY <1>0, <2>1, <2>4, <2>5, SettledStays
  <2>7. PageOK(s, processed, Ids(disk))
    BY <1>0, <2>1, <2>3, <2>6 DEF PageOK
  <2> QED BY <2>1, <2>2, <2>7, PageQuietStep DEF s0
<1>10. CASE Unauthorized(t)
  <2>1. PICK s \in TabRecord :
           /\ tabs' = [tabs EXCEPT ![t] = s] /\ s0.pc = "call"
           /\ s.chain = s0.chain /\ Cleared(s)
    BY <1>10, UnauthorizedView
  <2>2. processed' = processed /\ disk' = disk
    BY <1>10 DEF Unauthorized, serverVars
  <2> HIDE DEF s0
  <2>3. OpeningOK(s)
    <3>1. Opening(s) => Opening(s0)
      BY <2>1 DEF Opening
    <3>2. s0.pc # "idle"
      BY <2>1
    <3> QED BY <1>0, <3>1, <3>2, NotOpening
  <2>4. PageOK(s, processed, Ids(disk))
    BY <1>0, <2>1, <2>3, NothingSettled DEF PageOK, Cleared
  <2> QED BY <2>1, <2>2, <2>4, PageQuietStep DEF s0
<1> QED BY <1>1, <1>2, <1>3, <1>4, <1>5, <1>6, <1>7, <1>8, <1>9, <1>10 DEF Page

LEMMA NoneLeft ==
    ASSUME NEW q \in Seq(StorageCall), Len(q) = 1
    PROVE  Tail(q) = <<>>
<1>1. q # <<>>
  BY EmptySeq
<1>2. Tail(q) \in Seq(StorageCall) /\ Len(Tail(q)) = 0
  BY <1>1, TailFollows
<1> QED BY <1>2, EmptySeq

\* A read that counts has no entry removed behind it.
LEMMA ReadSettled ==
    ASSUME QueueInv, PageInv, NEW t \in Tabs, tabs[t].chain # <<>>,
           Head(tabs[t].chain).kind \in Reads
    PROVE  LET q == tabs[t].chain
           IN  /\ Tail(q) \in Seq(StorageCall) /\ ReadsInOrder(Tail(q))
               /\ CallsIn(q) = CallsIn(Tail(q)) \cup {<<Head(q).kind, Head(q).id>>}
               /\ \A id : Removes(tabs[t], id) => <<"remove", id>> \in CallsIn(Tail(q))
               /\ Head(q).clean =>
                     \A id : ~Removes(tabs[t], id) /\ ~Adds(tabs[t], id)
               /\ Head(q).clean => \A id \in tabs[t].settled : id \notin Ids(disk)
<1> DEFINE s0 == tabs[t]
           q == s0.chain
           c == Head(q)
<1>1. /\ q \in Seq(StorageCall) /\ ReadsInOrder(q)
      /\ SettledOK(s0, processed, Ids(disk))
  BY PageOf
<1>2. /\ Tail(q) \in Seq(StorageCall)
      /\ CallsIn(q) = CallsIn(Tail(q)) \cup {<<c.kind, c.id>>}
      /\ ReadsInOrder(Tail(q))
      /\ c.clean => \A id : <<"add", id>> \notin CallsIn(Tail(q))
                            /\ <<"remove", id>> \notin CallsIn(Tail(q))
  BY <1>1, CallDone
<1>3. \A id : /\ Removes(s0, id) => <<"remove", id>> \in CallsIn(Tail(q))
              /\ Adds(s0, id) => <<"add", id>> \in CallsIn(Tail(q))
  <2> HIDE DEF c
  <2>1. c.kind # "remove" /\ c.kind # "add"
    BY DEF Reads, c
  <2> QED BY <1>2, <2>1 DEF Removes, Adds
<1>4. c.clean => \A id \in s0.settled : id \notin Ids(disk)
  BY <1>1, <1>2, <1>3 DEF SettledOK
<1> QED BY <1>2, <1>3, <1>4

LEMMA LoopKeepsPage ==
    ASSUME QueueInv, DataInv, PageInv, NEW t \in Tabs, Loop(t)
    PROVE  PageInv'
<1> DEFINE s0 == tabs[t]
           c  == Head(s0.chain)
<1>0. /\ s0 \in TabRecord /\ s0.chain \in Seq(StorageCall)
      /\ EntriesOK(s0, MadeIds, OverIds, FrontIds)
      /\ ReadsInOrder(s0.chain) /\ OpeningOK(s0)
      /\ SettledOK(s0, processed, Ids(disk))
      /\ \A id \in s0.settled : id \in OpIds /\ id \in MadeIds
  BY PageOf
<1>1. CASE TakeLock(t) \/ Wake(t)
  <2>1. PICK s \in TabRecord :
           tabs' = [tabs EXCEPT ![t] = s] /\ s0.pc \in {"lock", "sleep"} /\ RoundFrom(s, s0)
    BY <1>1, RoundView
  <2>2. processed' = processed /\ disk' = disk
    BY <1>1 DEF TakeLock, Wake, serverVars, deviceVars
  <2> HIDE DEF s0
  <2>3. OpeningOK(s)
    <3>1. Opening(s) => Opening(s0)
      BY <2>1 DEF Opening, RoundFrom
    <3>2. s0.pc # "idle"
      BY <2>1
    <3> QED BY <1>0, <3>1, <3>2, NotOpening
  <2>4. SettledOK(s, processed, Ids(disk))
    <3>1. \A i : Removes(s0, i) => Removes(s, i)
      BY <2>1 DEF Removes, RoundFrom
    <3>2. /\ s.settled = s0.settled /\ s.copy = s0.copy /\ s.cur = None /\ s.mem = s0.mem
          /\ s.pending = s0.pending
      BY <2>1 DEF RoundFrom
    <3> QED BY <1>0, <3>1, <3>2, SettledStays
  <2>5. PageOK(s, processed, Ids(disk))
    BY <1>0, <2>1, <2>3, <2>4 DEF PageOK, RoundFrom
  <2> QED BY <2>1, <2>2, <2>5, PageQuietStep DEF s0
<1>2. CASE ReadEntries(t)
  <2>1. processed' = processed /\ disk' = disk
    BY <1>2 DEF ReadEntries, serverVars, deviceVars
  <2>2. s0.chain # <<>> /\ c.kind \in Reads
    BY <1>2 DEF ReadEntries
  <2>3. /\ Tail(s0.chain) \in Seq(StorageCall) /\ ReadsInOrder(Tail(s0.chain))
        /\ CallsIn(s0.chain) = CallsIn(Tail(s0.chain)) \cup {<<c.kind, c.id>>}
        /\ \A id : Removes(s0, id) => <<"remove", id>> \in CallsIn(Tail(s0.chain))
        /\ c.clean => \A id : ~Removes(s0, id)
        /\ c.clean => \A id \in s0.settled : id \notin Ids(disk)
    BY <2>2, ReadSettled
  <2>4. CASE ~c.clean
    <3>1. PICK s \in TabRecord :
             /\ tabs' = [tabs EXCEPT ![t] = s]
             /\ SameLoop(s, s0) /\ SameView(s, s0)
             /\ Len(s.chain) = Len(s0.chain)
             /\ Opening(s) => Opening(s0)
             /\ \A id : Removes(s, id) <=> Removes(s0, id)
             /\ ReadsInOrder(s0.chain) => ReadsInOrder(s.chain)
      BY <1>2, <2>4, ReadAgainView
    <3> HIDE DEF s0
    <3>2. OpeningOK(s) /\ SettledOK(s, processed, Ids(disk))
      BY <1>0, <3>1 DEF OpeningOK, SettledOK, StaysShown, SameLoop, SameView
    <3>3. PageOK(s, processed, Ids(disk))
      BY <1>0, <3>1, <3>2 DEF PageOK
    <3> QED BY <2>1, <3>1, <3>3, PageQuietStep DEF s0
  <2>5. CASE c.clean /\ c.kind # "pump"
    <3>1. PICK s \in TabRecord :
             /\ tabs' = [tabs EXCEPT ![t] = s]
             /\ s.mem = disk /\ s.chain = Tail(s0.chain)
             /\ s.cur = s0.cur
             /\ s.settled = s0.settled
             /\ s.copy = IF c.kind = "init" THEN saved ELSE s0.copy
             /\ ToSet(s0.pending) \subseteq ToSet(s.pending)
      BY <1>2, <2>5, ReadShowView
    <3> HIDE DEF c, s0
    <3>2. ~Opening(s)
      <4>1. CASE Opening(s0)
        <5>1. Len(s0.chain) = 1
          BY <1>0, <4>1 DEF OpeningOK
        <5>2. s.chain = <<>>
          BY <1>0, <3>1, <5>1, NoneLeft
        <5> QED BY <5>2, NoCalls
      <4>2. CASE ~Opening(s0)
        BY <2>3, <3>1, <4>2 DEF Opening
      <4> QED BY <4>1, <4>2
    <3>3. s.copy = s0.copy \/ s0.settled = {}
      <4>1. c.kind = "init" => Opening(s0)
        BY <2>3 DEF Opening
      <4> QED BY <1>0, <3>1, <4>1 DEF OpeningOK
    <3>4. SettledOK(s, processed, Ids(disk))
      <4>1. CASE s0.settled = {}
        BY <3>1, <4>1, NothingSettled
      <4>2. CASE s.copy = s0.copy
        <5>1. \A id \in s0.settled : id \notin Ids(s.mem) /\ ~(id \in Ids(disk))
          BY <2>3, <2>5, <3>1
        <5> QED BY <1>0, <3>1, <4>2, <5>1, SettledStays
      <4> QED BY <3>3, <4>1, <4>2
    <3>5. PageOK(s, processed, Ids(disk))
      BY <2>3, <3>1, <3>2, <3>4 DEF PageOK, OpeningOK
    <3> QED BY <2>1, <3>1, <3>5, PageQuietStep DEF s0
  <2>6. CASE c.clean /\ c.kind = "pump"
    <3>1. PICK s \in TabRecord :
             /\ s0.pc = "read"
             /\ tabs' = [tabs EXCEPT ![t] = s]
             /\ s.mem = disk
             /\ s.copy = s0.copy
             /\ s.pending = s0.pending /\ s.settled = s0.settled
             /\ SendsOldest(s, s0, net', t)
      BY <1>2, <2>6, ReadSendView
    <3> HIDE DEF c, s0
    <3>2. /\ s.cur = None \/ s.cur.id \in Ids(disk)
          /\ \/ s.chain = Tail(s0.chain)
             \/ \E id \in OpIds : s.chain = Append(Tail(s0.chain), Call("setSent", id, None))
      <4>1. \A e \in ToSet(disk) : e.id \in Ids(disk) /\ e.id \in OpIds
        <5>1. disk \in Seq(Stored)
          BY DEF QueueInv, Shapes
        <5>2. \A e \in ToSet(disk) : e \in Stored
          BY <5>1, ElementsOf
        <5> QED BY <5>2 DEF Ids, Stored
      <4> QED BY <3>1, <4>1 DEF SendsOldest
    <3>3. ReadsInOrder(s.chain) /\ (Opening(s) => Opening(s0))
      <4>1. CASE s.chain = Tail(s0.chain)
        BY <2>3, <4>1 DEF Opening
      <4>2. CASE \E id \in OpIds : s.chain = Append(Tail(s0.chain), Call("setSent", id, None))
        <5>1. PICK id \in OpIds : s.chain = Append(Tail(s0.chain), Call("setSent", id, None))
          BY <4>2
        <5> DEFINE k == Call("setSent", id, None)
        <5>2. k \in StorageCall /\ k.kind = "setSent" /\ k.id = id
          BY CallIs
        <5> HIDE DEF k
        <5>3. s.chain = Append(Tail(s0.chain), k)
          BY <5>1 DEF k
        <5>4. /\ CallsIn(s.chain) = CallsIn(Tail(s0.chain)) \cup {<<"setSent", id>>}
              /\ ReadsInOrder(s.chain)
          BY <2>3, <5>2, <5>3, CallBehind
        <5> QED BY <2>3, <5>4 DEF Opening
      <4> QED BY <3>2, <4>1, <4>2
    <3>4. OpeningOK(s)
      <4>1. s0.pc # "idle"
        BY <3>1
      <4> QED BY <1>0, <3>3, <4>1, NotOpening
    <3>5. SettledOK(s, processed, Ids(disk))
      <4>1. \A id \in s0.settled :
               /\ id \notin Ids(s.mem) /\ ~(id \in Ids(disk))
               /\ s.cur = None \/ s.cur.id # id
        BY <2>3, <2>6, <3>1, <3>2
      <4> QED BY <1>0, <3>1, <4>1, SettledStays
    <3>6. PageOK(s, processed, Ids(disk))
      BY <3>3, <3>4, <3>5 DEF PageOK
    <3> QED BY <2>1, <3>1, <3>6, PageQuietStep DEF s0
  <2> QED BY <2>4, <2>5, <2>6
<1>3. CASE WriteEntries(t)
  <2>1. PICK s \in TabRecord, k \in StorageCall :
           /\ s0.chain # <<>> /\ k = c /\ k.kind \notin Reads
           /\ tabs' = [tabs EXCEPT ![t] = s] /\ SameView(s, s0)
           /\ s.mem = s0.mem /\ s.cur = s0.cur /\ s.chain = Tail(s0.chain)
           /\ k.kind = "add" => k.id \notin TouchedIds
           /\ Ids(disk') = IF k.kind = "add" THEN Ids(disk) \cup {k.id}
                           ELSE IF k.kind = "remove" THEN Ids(disk) \ {k.id} ELSE Ids(disk)
    BY <1>3, WriteView
  <2>2. processed' = processed
    BY <1>3 DEF WriteEntries, serverVars
  <2>3. /\ CallsIn(s0.chain) = CallsIn(s.chain) \cup {<<k.kind, k.id>>}
        /\ ReadsInOrder(s.chain)
    BY <1>0, <2>1, CallDone
  <2>4. k.kind = "add" => processed[k.id] = None
    <3>1. k.kind = "add" => k.id \in OpIds
      BY DEF StorageCall
    <3> QED BY <2>1, <3>1 DEF QueueInv, LogIsProcessed, TouchedIds
  <2> HIDE DEF c, s0
  <2>5. ~Opening(s)
    <3>1. CASE Opening(s0)
      <4>1. Len(s0.chain) = 1
        BY <1>0, <3>1 DEF OpeningOK
      <4>2. s.chain = <<>>
        BY <1>0, <2>1, <4>1, NoneLeft
      <4> QED BY <4>2, NoCalls
    <3>2. CASE ~Opening(s0)
      BY <2>3, <3>2 DEF Opening
    <3> QED BY <3>1, <3>2
  <2>6. SettledOK(s, processed, Ids(disk'))
    <3>1. ASSUME NEW id, id \in Ids(disk'), processed[id] # None
          PROVE  id \in Ids(disk)
      BY <2>1, <2>4, <3>1
    <3>2. ASSUME NEW id, id \in Ids(disk'), Removes(s0, id)
          PROVE  Removes(s, id)
      <4>1. <<"remove", id>> \in CallsIn(s.chain) \/ (k.kind = "remove" /\ id = k.id)
        BY <2>3, <3>2 DEF Removes
      <4> QED BY <2>1, <3>2, <4>1 DEF Removes
    <3>3. s.settled = s0.settled /\ s.copy = s0.copy /\ s.pending = s0.pending
      BY <2>1 DEF SameView
    <3> DEFINE stored2 == Ids(disk')
    <3>4. /\ \A id \in s.settled : id \in stored2 /\ processed[id] # None => id \in Ids(disk)
          /\ \A id \in s.settled : id \in stored2 /\ Removes(s0, id) => Removes(s, id)
      BY <3>1, <3>2
    <3> HIDE DEF stored2
    <3>5. SettledOK(s, processed, stored2)
      BY <1>0, <2>1, <3>3, <3>4, SettledStays
    <3> QED BY <3>5 DEF stored2
  <2>7. PageOK(s, processed', Ids(disk'))
    BY <2>2, <2>3, <2>5, <2>6 DEF PageOK, OpeningOK
  <2>8. \A id \in Ids(disk') : id \in Ids(disk) \/ processed[id] = None
    BY <2>1, <2>4
  <2>9. Grows(processed, processed')
    BY <2>2 DEF Grows
  <2> QED BY <2>1, <2>7, <2>8, <2>9, PageTabStep DEF s0
<1>4. CASE Settle(t)
  <2>1. PICK s \in TabRecord, id \in OpIds, answer \in Answer :
           /\ s0.pc = "call" /\ s0.cur # None /\ id = s0.cur.id
           /\ answer = s0.reply /\ s0.reply # None
           /\ tabs' = [tabs EXCEPT ![t] = s]
           /\ Removed(s, s0, id)
           /\ ~s0.current => s.settled = s0.settled /\ s.pending = s0.pending
           /\ s0.current => Heard(s, s0, id, answer)
    BY <1>4, SettleView
  <2>2. processed' = processed /\ disk' = disk
    BY <1>4 DEF Settle, serverVars, deviceVars
  <2>3. s0.copy \in Copies /\ s0.copy.seq \in Int /\ answer.seq \in Nat
    BY TypesAre DEF Copies, Answer
  <2>4. answer.status = "applied" => processed[id] # None /\ answer = processed[id].answer
    BY <2>1 DEF DataInv, ReplyOK
  <2> HIDE DEF s0
  <2>5. OpeningOK(s)
    <3>1. Opening(s) => Opening(s0)
      BY <2>1 DEF Opening, Removed
    <3>2. s0.pc # "idle"
      BY <2>1
    <3> QED BY <1>0, <3>1, <3>2, NotOpening
  <2>6. \A i \in s0.settled : i # id
    BY <1>0, <2>1 DEF SettledOK
  <2>7. \A i : Removes(s0, i) \/ i = id => Removes(s, i)
    BY <2>1 DEF Removes, Removed
  <2>8. s.copy = s0.copy /\ s.cur = None /\ Ids(s.mem) = Ids(s0.mem) \ {id}
    BY <2>1 DEF Removed
  <2>9. /\ s.settled \subseteq s0.settled \cup {id}
        /\ id \in s.settled \ s0.settled =>
              s0.current /\ answer.status = "applied" /\ id \in Ids(s0.pending)
        /\ \A x \in ToSet(s0.pending) : x.id # id => x \in ToSet(s.pending)
    <3>1. CASE s0.current
      BY <2>1, <3>1 DEF Heard
    <3>2. CASE ~s0.current
      BY <2>1, <3>2
    <3> QED BY <3>1, <3>2
  <2>10. SettledOK(s, processed, Ids(disk))
    <3>1. ASSUME NEW i \in s.settled, i # id
          PROVE  /\ processed[i] # None /\ i \notin Ids(s.mem)
                 /\ i \in Ids(disk) => Removes(s, i)
                 /\ StaysShown(s, i, processed)
      <4>1. i \in s0.settled
        BY <2>9, <3>1
      <4>2. /\ processed[i] # None /\ i \notin Ids(s0.mem)
            /\ i \in Ids(disk) => Removes(s0, i)
            /\ StaysShown(s0, i, processed)
        BY <1>0, <4>1 DEF SettledOK
      <4>3. StaysShown(s, i, processed)
        BY <2>8, <2>9, <3>1, <4>2 DEF StaysShown
      <4> QED BY <2>7, <2>8, <4>2, <4>3
    <3>2. ASSUME id \in s.settled
          PROVE  /\ processed[id] # None /\ id \notin Ids(s.mem)
                 /\ id \in Ids(disk) => Removes(s, id)
                 /\ StaysShown(s, id, processed)
      <4>1. s0.current /\ answer.status = "applied" /\ id \in Ids(s0.pending)
        BY <2>6, <2>9, <3>2
      <4>2. processed[id] # None /\ answer = processed[id].answer
        BY <2>4, <4>1
      <4>3. StaysShown(s, id, processed)
        <5>1. CASE answer.seq <= s0.copy.seq
          <6>1. processed[id].wrote => id \in s0.copy.has
            BY <2>3, <4>2, <5>1 DEF DataInv, CopyOK
          <6> QED BY <2>8, <6>1 DEF StaysShown
        <5>2. CASE answer.seq > s0.copy.seq
          BY <2>1, <4>1, <4>2, <5>2 DEF Heard, StaysShown
        <5> QED BY <2>3, <5>1, <5>2
      <4> QED BY <2>7, <2>8, <4>2, <4>3
    <3> QED BY <2>8, <3>1, <3>2 DEF SettledOK
  <2>11. PageOK(s, processed, Ids(disk))
    BY <2>1, <2>5, <2>10 DEF PageOK, Removed
  <2> QED BY <2>1, <2>2, <2>11, PageQuietStep DEF s0
<1>5. CASE Fail(t)
  <2>1. PICK s \in TabRecord, id \in OpIds :
           /\ s0.pc = "call" /\ s0.cur # None /\ id = s0.cur.id
           /\ tabs' = [tabs EXCEPT ![t] = s]
           /\ Removed(s, s0, id)
           /\ s.settled = s0.settled
           /\ \A x \in ToSet(s0.pending) : x.id # id => x \in ToSet(s.pending)
    BY <1>5, FailView
  <2>2. processed' = processed /\ disk' = disk
    BY <1>5 DEF Fail, serverVars, deviceVars
  <2> HIDE DEF s0
  <2>3. OpeningOK(s)
    <3>1. Opening(s) => Opening(s0)
      BY <2>1 DEF Opening, Removed
    <3>2. s0.pc # "idle"
      BY <2>1
    <3> QED BY <1>0, <3>1, <3>2, NotOpening
  <2>4. \A i \in s0.settled : i # id
    BY <1>0, <2>1 DEF SettledOK
  <2>5. \A i : Removes(s0, i) => Removes(s, i)
    BY <2>1 DEF Removes, Removed
  <2>6. s.copy = s0.copy /\ s.cur = None /\ Ids(s.mem) = Ids(s0.mem) \ {id}
    BY <2>1 DEF Removed
  <2>7. SettledOK(s, processed, Ids(disk))
    BY <1>0, <2>1, <2>4, <2>5, <2>6, SettledStays
  <2>8. PageOK(s, processed, Ids(disk))
    BY <2>1, <2>3, <2>7 DEF PageOK, Removed
  <2> QED BY <2>1, <2>2, <2>8, PageQuietStep DEF s0
<1> QED BY <1>1, <1>2, <1>3, <1>4, <1>5 DEF Loop

LEMMA ServerKeepsPage ==
    ASSUME QueueInv, DataInv, PageInv, NEW r \in net, Serve(r) \/ Refuse(r)
    PROVE  PageInv'
<1>1. Grows(processed, processed')
  <2>1. CASE Serve(r)
    BY <2>1, ServeGrows
  <2>2. CASE Refuse(r)
    BY <2>2 DEF Refuse, serverVars, Grows
  <2> QED BY <2>1, <2>2
<1>2. \A t \in Tabs : SameButReply(tabs'[t], tabs[t])
  <2>1. CASE Serve(r)
    <3>1. PICK answer \in Answer : Deliver(r, answer)
      BY <2>1, ServeGrows
    <3> QED BY <3>1, DeliverView
  <2>2. CASE Refuse(r)
    BY <2>2, RefuseKeepsData
  <2> QED BY <2>1, <2>2
<1>3. disk' = disk
  BY DEF Serve, Refuse, deviceVars
<1>4. ASSUME NEW t \in Tabs PROVE PageOK(tabs'[t], processed', Ids(disk'))
  <2>1. PageOK(tabs[t], processed, Ids(disk)) /\ tabs[t].settled \subseteq OpIds
    BY TypesAre DEF PageInv, TabRecord
  <2>2. PageOK(tabs[t], processed', Ids(disk))
    BY <1>1, <2>1, PageStays
  <2>3. SameButReply(tabs'[t], tabs[t])
    BY <1>2
  <2> DEFINE s == tabs'[t]
             s0 == tabs[t]
             done == processed'
  <2>4. SameButReply(s, s0) /\ PageOK(s0, done, Ids(disk))
    BY <2>2, <2>3
  <2> HIDE DEF s, s0, done
  <2>5. PageOK(s, done, Ids(disk))
    BY <2>4 DEF PageOK, OpeningOK, Opening, SettledOK, Removes, StaysShown, SameButReply, SameView
  <2> QED BY <1>3, <2>5 DEF s, done
<1>5. PageInv' = \A u \in Tabs : PageOK(tabs'[u], processed', Ids(disk'))
  BY DEF PageInv, PageOK, ReadsInOrder, OpeningOK, Opening, SettledOK, Removes, StaysShown,
         CallsIn, Ids, NoCopy, Reads
<1> QED BY <1>4, <1>5

LEMMA PageStart ==
    ASSUME Init
    PROVE  PageInv
<1>1. tabs = [t \in Tabs |-> ClosedTab]
  BY DEF Init
<1>2. ClosedTab.chain = <<>> /\ ClosedTab.settled = {}
  BY DEF ClosedTab
<1>3. PageOK(ClosedTab, processed, Ids(disk))
  BY <1>2, NoCalls, NothingSettled DEF PageOK, OpeningOK
<1> QED BY <1>1, <1>3 DEF PageInv

LEMMA PageStep ==
    ASSUME QueueInv, DataInv, PageInv, [Next]_vars
    PROVE  PageInv'
<1>1. ASSUME NEW t \in Tabs, Page(t) \/ Loop(t) PROVE PageInv'
  BY <1>1, PageKeepsPage, LoopKeepsPage
<1>2. ASSUME NEW r \in net, Serve(r) \/ Refuse(r) PROVE PageInv'
  BY <1>2, ServerKeepsPage
<1>3. ASSUME UNCHANGED <<tabs, processed, disk>> PROVE PageInv'
  <2>1. PageInv' = \A u \in Tabs : PageOK(tabs'[u], processed', Ids(disk'))
    BY DEF PageInv, PageOK, ReadsInOrder, OpeningOK, Opening, SettledOK, Removes, StaysShown,
           CallsIn, Ids, NoCopy, Reads
  <2> QED BY <1>3, <2>1 DEF PageInv
<1>4. CASE Foreign
  BY <1>3, <1>4 DEF Foreign, deviceVars
<1>5. CASE UNCHANGED vars
  BY <1>3, <1>5 DEF vars, serverVars, deviceVars
<1> QED BY <1>1, <1>2, <1>4, <1>5 DEF Next, Server

LEMMA PageInvariant == Spec => []PageInv
<1>1. Init => PageInv
  BY PageStart
<1>2. QueueInv /\ DataInv /\ PageInv /\ [Next]_vars => PageInv'
  BY PageStep
<1> QED BY <1>1, <1>2, QueueInvariant, DataInvariant, PTL DEF Spec

\* A change the page heard was applied stays shown, by its projection or by the
\* data, until the view is cleared, in any number of tabs and with whatever is
\* lost, refused or reloaded: opSettled keeps the projection until applyFeed
\* brings data that has the change.
THEOREM AnsweredStays == Spec => []AnsweredStaysShown
<1>1. QueueInv /\ PageInv => AnsweredStaysShown
  <2> SUFFICES ASSUME QueueInv, PageInv, NEW t \in Tabs, NEW id \in tabs[t].settled
               PROVE  \/ ~processed[id].wrote
                      \/ id \in tabs[t].copy.has
                      \/ \E p \in ToSet(tabs[t].pending) : p.id = id /\ Projected(p)
    BY DEF AnsweredStaysShown
  <2>1. StaysShown(tabs[t], id, processed)
    BY DEF PageInv, PageOK, SettledOK
  <2> QED BY <2>1 DEF StaysShown, Projected
<1> QED BY <1>1, QueueInvariant, PageInvariant, PTL

-----------------------------------------------------------------------------
(* In one tab, a projection that counts is of a change the data does not   *)
(* have: WaitInv.  Storage has the mark that an op was sent before the     *)
(* server can have it, so a page that reads the op back shows it as        *)
(* uncertain; and while the answer is open no feed is taken.  With two     *)
(* tabs it is false: a page shows as new what the other tab has sent since *)
(* it was read.                                                            *)

OneTab == \A t, u \in Tabs : t = u

\* What the server may have heard of.
AskedIds == {r.id : r \in net} \cup {id \in OpIds : processed[id] # None}

\* What is shown as not answered waits, and is in storage or on its way there.
WaitsOK(s, stored) ==
    /\ \A p \in ToSet(s.pending) : p.appliedSeq = None => p.id \in Ids(s.mem)
    /\ \A id \in Ids(s.mem) : (id \in stored \/ Adds(s, id)) /\ ~Removes(s, id)

\* A projection that counts is of a change that the server has not heard of, or
\* whose answer is open, or that the data has not reached.
CountsOK(s, done, asked) ==
    \A p \in ToSet(s.pending) : ~p.uncertain =>
       IF p.appliedSeq = None
       THEN \/ p.id \notin asked
            \/ s.pc \in {"mark", "call"} /\ s.cur.id = p.id /\ p.id \notin s.copy.has
       ELSE /\ p.appliedSeq > s.copy.seq
            /\ done[p.id] # None /\ p.appliedSeq = done[p.id].answer.seq

\* The loop knows what it sent, and storage does before the server does.
MarksOK(s, entries) ==
    /\ s.current
    /\ s.sending = IF s.pc \in {"mark", "call"} THEN s.cur.id ELSE None
    /\ \A e \in entries :
          e.id \in s.sent => e.sent \/ (s.pc = "mark" /\ s.cur.id = e.id)

WaitOK(s, done, asked, q) ==
    WaitsOK(s, Ids(q)) /\ CountsOK(s, done, asked) /\ MarksOK(s, ToSet(q))

WaitInv ==
    /\ \A e \in ToSet(disk) : e.id \in AskedIds => e.sent
    /\ \A t \in Tabs : WaitOK(tabs[t], processed, AskedIds, disk)

LEMMA AskedAre ==
    ASSUME QueueInv
    PROVE  AskedIds \subseteq TouchedIds /\ AskedIds \subseteq MadeIds
<1>1. \A id \in OpIds : processed[id] # None <=> id \in ToSet(log)
  BY DEF QueueInv, LogIsProcessed
<1>2. ToSet(log) \subseteq MadeIds /\ \A r \in net : r.id \in MadeIds
  BY DEF QueueInv, OverIds, Requests
<1> QED BY <1>1, <1>2 DEF AskedIds, TouchedIds

LEMMA CountsLess ==
    ASSUME NEW s, NEW done, NEW asked, NEW asked2, CountsOK(s, done, asked), asked2 \subseteq asked
    PROVE  CountsOK(s, done, asked2)
BY DEF CountsOK

LEMMA WaitTabStep ==
    ASSUME QueueInv, OneTab, NEW t \in Tabs, NEW s, tabs' = [tabs EXCEPT ![t] = s],
           WaitOK(s, processed', AskedIds', disk'),
           \A e \in ToSet(disk') : e.id \in AskedIds' => e.sent
    PROVE  WaitInv'
<1>1. tabs'[t] = s /\ \A u \in Tabs : u = t
  BY DEF QueueInv, Shapes, OneTab
<1>2. \A u \in Tabs : WaitOK(tabs'[u], processed', AskedIds', disk')
  BY <1>1
<1>3. WaitInv' = (/\ \A e \in ToSet(disk') : e.id \in AskedIds' => e.sent
                  /\ \A u \in Tabs : WaitOK(tabs'[u], processed', AskedIds', disk'))
  BY DEF WaitInv, WaitOK, WaitsOK, CountsOK, MarksOK, Adds, Removes, CallsIn, Ids, ToSet
<1> QED BY <1>2, <1>3

\* A step that stores nothing, runs nothing and asks nothing new.
LEMMA WaitQuietStep ==
    ASSUME QueueInv, OneTab, WaitInv, NEW t \in Tabs, NEW s, tabs' = [tabs EXCEPT ![t] = s],
           processed' = processed, disk' = disk, \A r \in net' : \E q \in net : r.id = q.id,
           WaitsOK(s, Ids(disk)), CountsOK(s, processed, AskedIds), MarksOK(s, ToSet(disk))
    PROVE  WaitInv'
<1>1. AskedIds' \subseteq AskedIds
  BY DEF AskedIds
<1>2. CountsOK(s, processed', AskedIds')
  BY <1>1, CountsLess
<1>3. WaitOK(s, processed', AskedIds', disk')
  BY <1>2 DEF WaitOK
<1>4. \A e \in ToSet(disk') : e.id \in AskedIds' => e.sent
  BY <1>1 DEF WaitInv
<1> QED BY <1>3, <1>4, WaitTabStep

LEMMA WaitOf ==
    ASSUME QueueInv, PageInv, WaitInv, NEW t \in Tabs
    PROVE  /\ tabs[t] \in TabRecord /\ tabs[t].chain \in Seq(StorageCall)
           /\ EntriesOK(tabs[t], MadeIds, OverIds, FrontIds)
           /\ ReadsInOrder(tabs[t].chain) /\ OpeningOK(tabs[t])
           /\ WaitsOK(tabs[t], Ids(disk)) /\ CountsOK(tabs[t], processed, AskedIds)
           /\ MarksOK(tabs[t], ToSet(disk))
           /\ \A id : Removes(tabs[t], id) => id \in MadeIds
           /\ tabs[t].pc \in {"mark", "call"} => tabs[t].sending # None
           /\ tabs[t].pc \notin {"mark", "call"} => tabs[t].sending = None
<1> DEFINE s0 == tabs[t]
<1>1. /\ s0 \in TabRecord /\ s0.chain \in Seq(StorageCall)
      /\ TabOK(s0, MadeIds, OverIds, FrontIds)
      /\ EntriesOK(s0, MadeIds, OverIds, FrontIds)
      /\ ReadsInOrder(s0.chain) /\ OpeningOK(s0)
  BY PageOf
<1>2. /\ WaitsOK(s0, Ids(disk)) /\ CountsOK(s0, processed, AskedIds)
      /\ MarksOK(s0, ToSet(disk))
  BY DEF WaitInv, WaitOK
<1>3. ASSUME NEW id, Removes(s0, id) PROVE id \in MadeIds
  <2>1. PICK k \in DOMAIN s0.chain : s0.chain[k].kind = "remove" /\ s0.chain[k].id = id
    BY <1>3 DEF Removes, CallsIn
  <2>2. id \in OverIds
    BY <1>1, <2>1 DEF TabOK, CallOK
  <2> QED BY <2>2 DEF QueueInv
<1>4. s0.pc \in {"mark", "call"} => s0.sending # None
  <2>1. s0.pc \in {"mark", "call"} => s0.cur # None
    BY <1>1 DEF EntriesOK
  <2>2. s0.cur # None => s0.cur.id \in OpIds
    BY <1>1 DEF TabRecord, Stored
  <2> QED BY <1>2, <2>1, <2>2, NoneIsNoRecord DEF MarksOK
<1> QED BY <1>1, <1>2, <1>3, <1>4 DEF MarksOK

LEMMA SameWaits ==
    ASSUME NEW s0, NEW s, NEW q, NEW done, NEW asked,
           WaitsOK(s0, Ids(q)), CountsOK(s0, done, asked), MarksOK(s0, ToSet(q)),
           SameLoop(s, s0),
           s.copy = s0.copy, s.pending = s0.pending, s.sending = s0.sending, s.current = s0.current,
           \A id : (Removes(s, id) => Removes(s0, id)) /\ (Adds(s0, id) => Adds(s, id))
    PROVE  WaitsOK(s, Ids(q)) /\ CountsOK(s, done, asked) /\ MarksOK(s, ToSet(q))
<1>1. WaitsOK(s, Ids(q))
  BY DEF WaitsOK, SameLoop
<1>2. CountsOK(s, done, asked)
  BY DEF CountsOK, SameLoop
<1>3. MarksOK(s, ToSet(q))
  BY DEF MarksOK, SameLoop
<1> QED BY <1>1, <1>2, <1>3

LEMMA PageKeepsWait ==
    ASSUME QueueInv, OneTab, DataInv, PageInv, WaitInv, NEW t \in Tabs, Page(t), NeverSignedOut'
    PROVE  WaitInv'
<1> DEFINE s0 == tabs[t]
<1>0. /\ s0 \in TabRecord /\ s0.chain \in Seq(StorageCall)
      /\ EntriesOK(s0, MadeIds, OverIds, FrontIds)
      /\ ReadsInOrder(s0.chain) /\ OpeningOK(s0)
      /\ WaitsOK(s0, Ids(disk)) /\ CountsOK(s0, processed, AskedIds)
      /\ MarksOK(s0, ToSet(disk))
      /\ \A id : Removes(s0, id) => id \in MadeIds
      /\ s0.pc \in {"mark", "call"} => s0.sending # None
      /\ s0.pc \notin {"mark", "call"} => s0.sending = None
  BY WaitOf
<1>a. ASSUME NEW s, s.mem = <<>>, s.pending = <<>>, s.sent = {}, s.pc = "idle", s.sending = None,
             s.current
      PROVE  WaitsOK(s, Ids(disk)) /\ CountsOK(s, processed, AskedIds) /\ MarksOK(s, ToSet(disk))
  <2>1. ToSet(s.pending) = {} /\ Ids(s.mem) = {}
    BY <1>a DEF Ids, ToSet
  <2> QED BY <1>a, <2>1 DEF WaitsOK, CountsOK, MarksOK
<1>1. CASE Open(t)
  <2>1. PICK s \in TabRecord :
           /\ tabs' = [tabs EXCEPT ![t] = s]
           /\ SameLoop(s, ClosedTab) /\ SameView(s, ClosedTab)
    BY <1>1, OpenView
  <2>2. processed' = processed /\ disk' = disk /\ net' = net
    BY <1>1 DEF Open, serverVars, deviceVars
  <2>3. /\ s.mem = <<>> /\ s.pc = "idle" /\ s.sent = {} /\ s.pending = <<>>
        /\ s.sending = None /\ s.current
    BY <2>1 DEF SameLoop, SameView, ClosedTab
  <2>4. WaitsOK(s, Ids(disk)) /\ CountsOK(s, processed, AskedIds) /\ MarksOK(s, ToSet(disk))
    BY <1>a, <2>3
  <2> QED BY <2>1, <2>2, <2>4, WaitQuietStep
<1>2. CASE Close(t)
  <2>1. /\ tabs' = [tabs EXCEPT ![t] = ClosedTab] /\ processed' = processed /\ disk' = disk
        /\ net' = {[r EXCEPT !.tab = IF @ = t THEN None ELSE @] : r \in net}
    BY <1>2 DEF Close, serverVars, deviceVars
  <2>2. net \subseteq [id : OpIds, op : UserOps, tab : Tabs \cup {None}]
    BY DEF QueueInv, Shapes
  <2>3. \A r \in net' : \E q \in net : r.id = q.id
    BY <2>1, <2>2
  <2>4. /\ ClosedTab.mem = <<>> /\ ClosedTab.pc = "idle" /\ ClosedTab.sent = {}
        /\ ClosedTab.pending = <<>> /\ ClosedTab.sending = None /\ ClosedTab.current
    BY DEF ClosedTab
  <2> DEFINE s == ClosedTab
  <2>5. tabs' = [tabs EXCEPT ![t] = s]
    BY <2>1
  <2>6. /\ s.mem = <<>> /\ s.pc = "idle" /\ s.sent = {}
        /\ s.pending = <<>> /\ s.sending = None /\ s.current
    BY <2>4
  <2> HIDE DEF s
  <2>7. WaitsOK(s, Ids(disk)) /\ CountsOK(s, processed, AskedIds) /\ MarksOK(s, ToSet(disk))
    BY <1>a, <2>6
  <2> QED BY <2>1, <2>3, <2>5, <2>7, WaitQuietStep
<1>3. CASE Send(t)
  <2>1. PICK id \in OpIds, op \in UserOps, s \in TabRecord :
           /\ tabs[t].copy.row # None /\ seen[id] = None
           /\ tabs' = [tabs EXCEPT ![t] = s]
           /\ Ids(s.mem) = Ids(tabs[t].mem) \cup {id} /\ s.sent = tabs[t].sent
           /\ s.cur = tabs[t].cur /\ s.reply = tabs[t].reply
           /\ s.pc = IF tabs[t].pc = "idle" THEN "lock" ELSE tabs[t].pc
           /\ CallsIn(s.chain) = CallsIn(tabs[t].chain) \cup {<<"add", id>>}
           /\ ReadsInOrder(s.chain)
           /\ SameButPending(s, tabs[t])
           /\ ToSet(tabs[t].pending) \subseteq ToSet(s.pending)
           /\ \A x \in ToSet(s.pending) :
                 x \in ToSet(tabs[t].pending) \/ x = Shown(id, op, FALSE)
    BY <1>3, SendView
  <2>2. /\ Ids(s.mem) = Ids(s0.mem) \cup {id} /\ s.sent = s0.sent
        /\ s.cur = s0.cur
        /\ s.pc = IF s0.pc = "idle" THEN "lock" ELSE s0.pc
        /\ CallsIn(s.chain) = CallsIn(s0.chain) \cup {<<"add", id>>}
        /\ SameButPending(s, s0)
        /\ \A x \in ToSet(s.pending) :
              x \in ToSet(s0.pending) \/ x = Shown(id, op, FALSE)
    BY <2>1
  <2>3. processed' = processed /\ disk' = disk /\ net' = net
    BY <1>3 DEF Send, serverVars, deviceVars
  <2>4. id \notin MadeIds /\ id \notin AskedIds /\ ~Removes(s0, id)
    BY <1>0, <2>1, AskedAre DEF MadeIds
  <2> DEFINE new == Shown(id, op, FALSE)
  <2>5. new.id = id /\ new.appliedSeq = None
    BY DEF Shown
  <2> HIDE DEF s0, new
  <2>6. \A x \in ToSet(s.pending) : x \in ToSet(s0.pending) \/ x = new
    BY <2>2 DEF new
  <2>7. WaitsOK(s, Ids(disk))
    <3>1. \A i : /\ Removes(s, i) => Removes(s0, i)
                 /\ Adds(s0, i) \/ i = id => Adds(s, i)
      BY <2>2 DEF Removes, Adds
    <3> QED BY <1>0, <2>2, <2>4, <2>5, <2>6, <3>1 DEF WaitsOK
  <2>8. CountsOK(s, processed, AskedIds)
    <3>1. s.copy = s0.copy
      BY <2>2 DEF SameButPending
    <3> QED BY <1>0, <2>2, <2>4, <2>5, <2>6, <3>1 DEF CountsOK
  <2>9. MarksOK(s, ToSet(disk))
    BY <1>0, <2>2 DEF MarksOK, SameButPending
  <2> QED BY <2>1, <2>3, <2>7, <2>8, <2>9, WaitQuietStep DEF s0
<1>4. CASE Discard(t)
  <2>1. PICK id \in OpIds, s \in TabRecord :
           /\ tabs' = [tabs EXCEPT ![t] = s]
           /\ Ids(s.mem) = Ids(s0.mem) \ {id} /\ s.sent = s0.sent \ {id}
           /\ s.cur = s0.cur
           /\ s.pc = IF s0.pc = "idle" THEN "lock" ELSE s0.pc
           /\ CallsIn(s.chain) = CallsIn(s0.chain) \cup {<<"remove", id>>}
           /\ SameButPending(s, s0)
           /\ ToSet(s.pending) = {x \in ToSet(s0.pending) : x.id # id}
    BY <1>4, DiscardView
  <2>2. processed' = processed /\ disk' = disk /\ net' = net
    BY <1>4 DEF Discard, serverVars, deviceVars
  <2> HIDE DEF s0
  <2>3. WaitsOK(s, Ids(disk))
    <3>1. \A i : /\ Removes(s, i) => Removes(s0, i) \/ i = id
                 /\ Adds(s0, i) => Adds(s, i)
      BY <2>1 DEF Removes, Adds
    <3> QED BY <1>0, <2>1, <3>1 DEF WaitsOK
  <2>4. CountsOK(s, processed, AskedIds)
    <3>1. s.copy = s0.copy
      BY <2>1 DEF SameButPending
    <3> QED BY <1>0, <2>1, <3>1 DEF CountsOK
  <2>5. MarksOK(s, ToSet(disk))
    BY <1>0, <2>1 DEF MarksOK, SameButPending
  <2> QED BY <2>1, <2>2, <2>3, <2>4, <2>5, WaitQuietStep DEF s0
<1>5. CASE Pause(t)
  <2>1. PICK s \in TabRecord :
           /\ tabs' = [tabs EXCEPT ![t] = s]
           /\ SameLoop(s, s0) /\ SameView(s, s0) /\ s.chain = s0.chain
    BY <1>5, PauseView
  <2>2. processed' = processed /\ disk' = disk /\ net' = net
    BY <1>5 DEF Pause, serverVars, deviceVars
  <2> HIDE DEF s0
  <2>3. \A id : (Removes(s, id) => Removes(s0, id)) /\ (Adds(s0, id) => Adds(s, id))
    BY <2>1 DEF Removes, Adds
  <2>4. /\ s.copy = s0.copy /\ s.pending = s0.pending /\ s.sending = s0.sending
        /\ s.current = s0.current
    BY <2>1 DEF SameView
  <2>5. WaitsOK(s, Ids(disk)) /\ CountsOK(s, processed, AskedIds) /\ MarksOK(s, ToSet(disk))
    BY <1>0, <2>1, <2>3, <2>4, SameWaits
  <2> QED BY <2>1, <2>2, <2>5, WaitQuietStep DEF s0
<1>6. CASE SignedOut(t)
  <2>1. used \in [foreign : Nat, faults : Nat, signOuts : Nat]
    BY DEF QueueInv, Shapes
  <2>2. used'.signOuts = used.signOuts + 1
    BY <1>6, <2>1 DEF SignedOut
  <2> QED BY <2>1, <2>2 DEF NeverSignedOut
<1>7. CASE AskFeed(t) \/ AnswerFeed(t)
  <2>1. PICK s \in TabRecord :
           /\ tabs' = [tabs EXCEPT ![t] = s]
           /\ SameLoop(s, s0) /\ s.chain = s0.chain
           /\ s.copy = s0.copy /\ s.pending = s0.pending
           /\ s.sending = s0.sending /\ s.current = s0.current
    BY <1>7, FeedView
  <2>2. processed' = processed /\ disk' = disk /\ net' = net
    BY <1>7 DEF AskFeed, AnswerFeed, serverVars, deviceVars
  <2> HIDE DEF s0
  <2>3. \A id : (Removes(s, id) => Removes(s0, id)) /\ (Adds(s0, id) => Adds(s, id))
    BY <2>1 DEF Removes, Adds
  <2>4. WaitsOK(s, Ids(disk)) /\ CountsOK(s, processed, AskedIds) /\ MarksOK(s, ToSet(disk))
    BY <1>0, <2>1, <2>3, SameWaits
  <2> QED BY <2>1, <2>2, <2>4, WaitQuietStep DEF s0
<1>8. CASE TakeFeed(t)
  <2>1. PICK s \in TabRecord :
           /\ tabs' = [tabs EXCEPT ![t] = s]
           /\ SameLoop(s, s0)
           /\ s.sending = s0.sending /\ s.current = s0.current
           /\ CallsIn(s0.chain) \subseteq CallsIn(s.chain)
           /\ CallsIn(s.chain) \subseteq CallsIn(s0.chain) \cup {<<"load", None>>}
           /\ \/ s.copy = s0.copy /\ s.pending = s0.pending
              \/ /\ s0.sending = None /\ s.copy = s0.feed
                 /\ ToSet(s.pending) = {x \in ToSet(s0.pending) :
                       x.appliedSeq = None \/ x.appliedSeq > s0.feed.seq}
    BY <1>8, TakeFeedView
  <2>2. processed' = processed /\ disk' = disk /\ net' = net
    BY <1>8 DEF TakeFeed, serverVars
  <2> HIDE DEF s0
  <2>3. \A id : (Removes(s, id) => Removes(s0, id)) /\ (Adds(s0, id) => Adds(s, id))
    BY <2>1 DEF Removes, Adds
  <2>4. WaitsOK(s, Ids(disk)) /\ CountsOK(s, processed, AskedIds) /\ MarksOK(s, ToSet(disk))
    <3>1. CASE s.copy = s0.copy /\ s.pending = s0.pending
      BY <1>0, <2>1, <2>3, <3>1, SameWaits
    <3>2. CASE /\ s0.sending = None /\ s.copy = s0.feed
               /\ ToSet(s.pending) = {x \in ToSet(s0.pending) :
                     x.appliedSeq = None \/ x.appliedSeq > s0.feed.seq}
      <4>1. WaitsOK(s, Ids(disk))
        BY <1>0, <2>1, <2>3, <3>2 DEF WaitsOK, SameLoop
      <4>2. s0.pc \notin {"mark", "call"}
        BY <1>0, <3>2
      <4>3. CountsOK(s, processed, AskedIds)
        BY <1>0, <3>2, <4>2 DEF CountsOK
      <4>4. MarksOK(s, ToSet(disk))
        BY <1>0, <2>1 DEF MarksOK, SameLoop
      <4> QED BY <4>1, <4>3, <4>4
    <3> QED BY <2>1, <3>1, <3>2
  <2> QED BY <2>1, <2>2, <2>4, WaitQuietStep DEF s0
<1>9. CASE NoAnswer(t)
  <2>1. PICK s \in TabRecord :
           /\ tabs' = [tabs EXCEPT ![t] = s] /\ s0.pc = "call"
           /\ \A r \in net' : \E q \in net : r.id = q.id
           /\ s.mem = s0.mem /\ s.sent = s0.sent /\ s.chain = s0.chain
           /\ s.pc = "sleep"
           /\ s.copy = s0.copy
           /\ s.current = s0.current
           /\ s0.current => s.sending = None
           /\ s0.current =>
                 \A x \in ToSet(s.pending) :
                    \/ x \in ToSet(s0.pending) /\ x.id # s0.cur.id
                    \/ /\ x.uncertain
                       /\ \E y \in ToSet(s0.pending) :
                             x.id = y.id /\ x.appliedSeq = y.appliedSeq
    BY <1>9, NoAnswerView
  <2>2. processed' = processed /\ disk' = disk
    BY <1>9 DEF NoAnswer, serverVars, deviceVars
  <2> HIDE DEF s0
  <2>3. s0.current
    BY <1>0 DEF MarksOK
  <2>4. WaitsOK(s, Ids(disk))
    <3>1. \A id : (Removes(s, id) => Removes(s0, id)) /\ (Adds(s0, id) => Adds(s, id))
      BY <2>1 DEF Removes, Adds
    <3> QED BY <1>0, <2>1, <2>3, <3>1 DEF WaitsOK
  <2>5. CountsOK(s, processed, AskedIds)
    BY <1>0, <2>1, <2>3 DEF CountsOK
  <2>6. MarksOK(s, ToSet(disk))
    BY <1>0, <2>1, <2>3 DEF MarksOK
  <2> QED BY <2>1, <2>2, <2>4, <2>5, <2>6, WaitQuietStep DEF s0
<1>10. CASE Unauthorized(t)
  <2>1. PICK s \in TabRecord :
           /\ tabs' = [tabs EXCEPT ![t] = s] /\ s0.pc = "call" /\ net' \subseteq net
           /\ s.mem = s0.mem /\ s.sent = s0.sent /\ s.pc = "idle"
           /\ s.chain = s0.chain /\ s.current /\ Cleared(s)
    BY <1>10, UnauthorizedView
  <2>2. processed' = processed /\ disk' = disk
    BY <1>10 DEF Unauthorized, serverVars
  <2> HIDE DEF s0
  <2>3. ToSet(s.pending) = {} /\ s.sending = None
    BY <2>1 DEF Cleared, ToSet
  <2>4. WaitsOK(s, Ids(disk))
    <3>1. \A id : (Removes(s, id) => Removes(s0, id)) /\ (Adds(s0, id) => Adds(s, id))
      BY <2>1 DEF Removes, Adds
    <3> QED BY <1>0, <2>1, <2>3, <3>1 DEF WaitsOK
  <2>5. CountsOK(s, processed, AskedIds)
    BY <2>3 DEF CountsOK
  <2>6. MarksOK(s, ToSet(disk))
    BY <1>0, <2>1, <2>3 DEF MarksOK
  <2> QED BY <2>1, <2>2, <2>4, <2>5, <2>6, WaitQuietStep DEF s0
<1> QED BY <1>1, <1>2, <1>3, <1>4, <1>5, <1>6, <1>7, <1>8, <1>9, <1>10 DEF Page

LEMMA NotAskedNotHad ==
    ASSUME QueueInv, DataInv, NEW t \in Tabs, NEW id, id \notin AskedIds
    PROVE  id \notin tabs[t].copy.has
<1>1. tabs[t].copy \in Copies /\ tabs[t].copy.has \subseteq OpIds
  BY TypesAre DEF Copies
<1>2. \A i \in tabs[t].copy.has : processed[i] # None
  BY <1>1 DEF DataInv, CopyOK
<1> QED BY <1>1, <1>2 DEF AskedIds

LEMMA OneEntryEach ==
    ASSUME QueueInv, NEW e \in ToSet(disk), NEW f \in ToSet(disk), e.id = f.id
    PROVE  e = f
BY DEF QueueInv, EntriesDiffer, ToSet

LEMMA AskedMore ==
    ASSUME processed' = processed, NEW r, net' = net \cup {r}
    PROVE  AskedIds' = AskedIds \cup {r.id}
<1>1. {q.id : q \in net'} = {q.id : q \in net} \cup {r.id}
  OBVIOUS
<1>2. AskedIds' = {q.id : q \in net'} \cup {id \in OpIds : processed'[id] # None}
  BY DEF AskedIds
<1> QED BY <1>1, <1>2 DEF AskedIds

LEMMA RoundKeepsWait ==
    ASSUME QueueInv, OneTab, PageInv, WaitInv, NEW t \in Tabs, TakeLock(t) \/ Wake(t)
    PROVE  WaitInv'
<1> DEFINE s0 == tabs[t]
<1>1. PICK s \in TabRecord :
         tabs' = [tabs EXCEPT ![t] = s] /\ s0.pc \in {"lock", "sleep"} /\ RoundFrom(s, s0)
  BY RoundView
<1>2. processed' = processed /\ disk' = disk /\ net' = net
  BY DEF TakeLock, Wake, serverVars, deviceVars
<1>3. /\ WaitsOK(s0, Ids(disk)) /\ CountsOK(s0, processed, AskedIds)
      /\ MarksOK(s0, ToSet(disk))
      /\ s0.pc \notin {"mark", "call"} => s0.sending = None
  BY WaitOf
<1> HIDE DEF s0
<1>4. s0.pc \notin {"mark", "call"}
  BY <1>1
<1>5. \A id : (Removes(s, id) => Removes(s0, id)) /\ (Adds(s0, id) => Adds(s, id))
  BY <1>1 DEF Removes, Adds, RoundFrom
<1>6. WaitsOK(s, Ids(disk))
  BY <1>1, <1>3, <1>5 DEF WaitsOK, RoundFrom
<1>7. CountsOK(s, processed, AskedIds)
  BY <1>1, <1>3, <1>4 DEF CountsOK, RoundFrom
<1>8. MarksOK(s, ToSet(disk))
  BY <1>1, <1>3, <1>4 DEF MarksOK, RoundFrom
<1> QED BY <1>1, <1>2, <1>6, <1>7, <1>8, WaitQuietStep DEF s0

LEMMA ReadAgainKeepsWait ==
    ASSUME QueueInv, OneTab, PageInv, WaitInv, NEW t \in Tabs, ReadEntries(t),
           ~Head(tabs[t].chain).clean
    PROVE  WaitInv'
<1> DEFINE s0 == tabs[t]
<1>1. PICK s \in TabRecord :
         /\ tabs' = [tabs EXCEPT ![t] = s] /\ net' = net
         /\ SameLoop(s, s0) /\ SameView(s, s0)
         /\ \A id : Removes(s, id) <=> Removes(s0, id)
         /\ \A id : Adds(s, id) <=> Adds(s0, id)
  BY ReadAgainView
<1>2. processed' = processed /\ disk' = disk
  BY DEF ReadEntries, serverVars, deviceVars
<1>3. /\ WaitsOK(s0, Ids(disk)) /\ CountsOK(s0, processed, AskedIds)
      /\ MarksOK(s0, ToSet(disk))
  BY WaitOf
<1> HIDE DEF s0
<1>4. /\ s.copy = s0.copy /\ s.pending = s0.pending /\ s.sending = s0.sending
      /\ s.current = s0.current
  BY <1>1 DEF SameView
<1>5. WaitsOK(s, Ids(disk)) /\ CountsOK(s, processed, AskedIds) /\ MarksOK(s, ToSet(disk))
  BY <1>1, <1>3, <1>4, SameWaits
<1> QED BY <1>1, <1>2, <1>5, WaitQuietStep DEF s0

\* What the tab takes for sent is marked in storage.
LEMMA MarksAreRead ==
    ASSUME QueueInv, NEW s0, MarksOK(s0, ToSet(disk)), NEW e \in ToSet(disk),
           e.id \in SentNow(s0)
    PROVE  e.sent \/ (s0.pc = "mark" /\ s0.cur.id = e.id)
<1>1. CASE e.id \in s0.sent
  BY <1>1 DEF MarksOK
<1>2. CASE \E f \in ToSet(disk) : f.sent /\ f.id = e.id
  BY <1>2, OneEntryEach
<1> QED BY <1>1, <1>2 DEF SentNow

\* A read that counts finds all that waits.
LEMMA AllAreRead ==
    ASSUME QueueInv, PageInv, WaitInv, NEW t \in Tabs, tabs[t].chain # <<>>,
           Head(tabs[t].chain).kind \in Reads, Head(tabs[t].chain).clean
    PROVE  /\ \A p \in ToSet(tabs[t].pending) : p.appliedSeq = None => p.id \in Ids(disk)
           /\ \A id : <<"remove", id>> \notin CallsIn(Tail(tabs[t].chain))
<1> DEFINE s0 == tabs[t]
<1>1. WaitsOK(s0, Ids(disk))
  BY WaitOf
<1>2. \A id : ~Removes(s0, id) /\ ~Adds(s0, id)
  BY ReadSettled
<1>3. CallsIn(Tail(s0.chain)) \subseteq CallsIn(s0.chain)
  BY ReadSettled
<1> HIDE DEF s0
<1>4. \A id : <<"remove", id>> \notin CallsIn(Tail(s0.chain))
  BY <1>2, <1>3 DEF Removes
<1>5. \A p \in ToSet(s0.pending) : p.appliedSeq = None => p.id \in Ids(disk)
  BY <1>1, <1>2 DEF WaitsOK
<1> QED BY <1>4, <1>5 DEF s0

LEMMA ReadShowKeepsWait ==
    ASSUME QueueInv, OneTab, PageInv, WaitInv, NEW t \in Tabs, ReadEntries(t),
           Head(tabs[t].chain).clean, Head(tabs[t].chain).kind # "pump"
    PROVE  WaitInv'
<1> DEFINE s0 == tabs[t]
           c  == Head(s0.chain)
<1>1. PICK s \in TabRecord :
         /\ s0.chain # <<>> /\ c.kind \in Reads
         /\ tabs' = [tabs EXCEPT ![t] = s] /\ net' = net
         /\ s.mem = disk /\ s.sent = SentNow(s0) /\ s.chain = Tail(s0.chain)
         /\ s.cur = s0.cur /\ s.reply = s0.reply
         /\ s.pc = s0.pc \/ (s0.pc = "idle" /\ s.pc = "lock")
         /\ s.feed = s0.feed /\ s.sending = s0.sending
         /\ s.current = s0.current /\ s.settled = s0.settled
         /\ s.copy = IF c.kind = "init" THEN saved ELSE s0.copy
         /\ ToSet(s0.pending) \subseteq ToSet(s.pending)
         /\ \A x \in ToSet(s.pending) :
               \/ x \in ToSet(s0.pending)
               \/ \E e \in ToSet(disk) : x = Shown(e.id, e.op, e.sent)
  BY ReadShowView
<1>2. processed' = processed /\ disk' = disk
  BY DEF ReadEntries, serverVars, deviceVars
<1>3. /\ CountsOK(s0, processed, AskedIds) /\ MarksOK(s0, ToSet(disk)) /\ OpeningOK(s0)
  BY WaitOf
<1>4. /\ \A p \in ToSet(s0.pending) : p.appliedSeq = None => p.id \in Ids(disk)
      /\ \A id : <<"remove", id>> \notin CallsIn(Tail(s0.chain))
  BY <1>1, AllAreRead
<1>5. CallsIn(s0.chain) = CallsIn(Tail(s0.chain)) \cup {<<c.kind, c.id>>}
  BY <1>1, ReadSettled
<1> HIDE DEF s0, c
<1>6. ASSUME NEW x \in ToSet(s.pending), x \notin ToSet(s0.pending)
      PROVE  /\ x.id \in Ids(disk) /\ x.appliedSeq = None
             /\ ~x.uncertain => x.id \notin AskedIds
  <2>1. PICK e \in ToSet(disk) : x = Shown(e.id, e.op, e.sent)
    BY <1>1, <1>6
  <2>2. x.id = e.id /\ x.appliedSeq = None /\ x.uncertain = e.sent
    BY <2>1 DEF Shown
  <2>3. e.id \in Ids(disk)
    BY DEF Ids
  <2>4. e.id \in AskedIds => e.sent
    BY DEF WaitInv
  <2> QED BY <2>2, <2>3, <2>4
<1>7. WaitsOK(s, Ids(disk))
  BY <1>1, <1>4, <1>6 DEF WaitsOK, Removes
<1>8. s.copy = s0.copy \/ ToSet(s0.pending) = {}
  <2>1. CASE c.kind = "init"
    <3>1. s0.pending = <<>>
      BY <1>3, <1>5, <2>1 DEF OpeningOK, Opening
    <3> QED BY <3>1 DEF ToSet
  <2> QED BY <1>1, <2>1
<1>9. CountsOK(s, processed, AskedIds)
  <2> SUFFICES ASSUME NEW x \in ToSet(s.pending), ~x.uncertain
               PROVE  IF x.appliedSeq = None
                      THEN \/ x.id \notin AskedIds
                           \/ /\ s.pc \in {"mark", "call"} /\ s.cur.id = x.id
                              /\ x.id \notin s.copy.has
                      ELSE /\ x.appliedSeq > s.copy.seq
                           /\ processed[x.id] # None
                           /\ x.appliedSeq = processed[x.id].answer.seq
    BY DEF CountsOK
  <2>1. CASE x \notin ToSet(s0.pending)
    BY <1>6, <2>1
  <2>2. CASE x \in ToSet(s0.pending)
    <3>1. s.copy = s0.copy
      BY <1>8, <2>2
    <3>2. s0.pc \in {"mark", "call"} => s.pc = s0.pc /\ s.cur = s0.cur
      BY <1>1
    <3> QED BY <1>3, <2>2, <3>1, <3>2 DEF CountsOK
  <2> QED BY <2>1, <2>2
<1>10. MarksOK(s, ToSet(disk))
  <2>1. /\ s.pc = s0.pc \/ (s0.pc = "idle" /\ s.pc = "lock")
        /\ s.sending = s0.sending /\ s.current = s0.current /\ s.cur = s0.cur
        /\ s.sent = SentNow(s0)
    BY <1>1
  <2>2. \A e \in ToSet(disk) : e.id \in SentNow(s0) =>
           e.sent \/ (s0.pc = "mark" /\ s0.cur.id = e.id)
    BY <1>3, MarksAreRead
  <2> QED BY <1>3, <2>1, <2>2 DEF MarksOK
<1> QED BY <1>1, <1>2, <1>7, <1>9, <1>10, WaitQuietStep DEF s0

LEMMA ReadSendKeepsWait ==
    ASSUME QueueInv, OneTab, DataInv, PageInv, WaitInv, NEW t \in Tabs, ReadEntries(t),
           Head(tabs[t].chain).clean, Head(tabs[t].chain).kind = "pump"
    PROVE  WaitInv'
<1> DEFINE s0 == tabs[t]
<1>1. PICK s \in TabRecord :
         /\ s0.chain # <<>> /\ s0.pc = "read"
         /\ s0.cur = None /\ s0.reply = None
         /\ tabs' = [tabs EXCEPT ![t] = s]
         /\ s.mem = disk /\ s.reply = None
         /\ s.copy = s0.copy /\ s.feed = s0.feed
         /\ s.pending = s0.pending /\ s.settled = s0.settled
         /\ SendsOldest(s, s0, net', t)
  BY ReadSendView
<1>2. processed' = processed /\ disk' = disk
  BY DEF ReadEntries, serverVars, deviceVars
<1>3. /\ CountsOK(s0, processed, AskedIds) /\ MarksOK(s0, ToSet(disk))
      /\ s0.pc \notin {"mark", "call"} => s0.sending = None
  BY WaitOf
<1>4. /\ \A p \in ToSet(s0.pending) : p.appliedSeq = None => p.id \in Ids(disk)
      /\ \A id : <<"remove", id>> \notin CallsIn(Tail(s0.chain))
  BY <1>1, AllAreRead DEF Reads
<1>5. \A id : id \notin AskedIds => id \notin s0.copy.has
  BY NotAskedNotHad
<1>6. Tail(s0.chain) \in Seq(StorageCall)
  BY <1>1, ReadSettled DEF Reads
<1> HIDE DEF s0
<1>7. \A e \in ToSet(disk) : e.id \in SentNow(s0) => e.sent
  BY <1>1, <1>3, MarksAreRead
<1>8. \A e \in ToSet(disk) : e.id \in AskedIds => e.sent
  BY DEF WaitInv
<1>9. \A e \in ToSet(disk) : e.id \in OpIds
  <2>1. disk \in Seq(Stored)
    BY DEF QueueInv, Shapes
  <2>2. \A e \in ToSet(disk) : e \in Stored
    BY <2>1, ElementsOf
  <2> QED BY <2>2 DEF Stored
<1>10. \A id : <<"remove", id>> \notin CallsIn(s.chain)
  <2>1. CASE s.chain = Tail(s0.chain)
    BY <1>4, <2>1
  <2>2. CASE \E e \in ToSet(disk) : s.chain = Append(Tail(s0.chain), Call("setSent", e.id, None))
    <3>1. PICK e \in ToSet(disk) : s.chain = Append(Tail(s0.chain), Call("setSent", e.id, None))
      BY <2>2
    <3> DEFINE k == Call("setSent", e.id, None)
    <3>2. k \in StorageCall /\ k.kind = "setSent"
      BY <1>9, CallIs
    <3> HIDE DEF k
    <3>3. CallsIn(s.chain) = CallsIn(Tail(s0.chain)) \cup {<<k.kind, k.id>>}
      BY <1>6, <3>1, <3>2, CallBehind DEF k
    <3> QED BY <1>4, <3>2, <3>3
  <2> QED BY <1>1, <2>1, <2>2 DEF SendsOldest
<1>11. WaitsOK(s, Ids(disk))
  BY <1>1, <1>4, <1>10 DEF WaitsOK, Removes
<1>12. CASE net' = net /\ MarksOK(s, ToSet(disk))
  <2>1. CountsOK(s, processed, AskedIds)
    BY <1>1, <1>3 DEF CountsOK
  <2> QED BY <1>1, <1>2, <1>11, <1>12, <2>1, WaitQuietStep DEF s0
<1>13. CASE /\ disk = <<>> /\ net' = net /\ s.pc = "idle"
            /\ s.sending = s0.sending /\ s.current = s0.current
  <2>1. ToSet(disk) = {}
    BY <1>13 DEF ToSet
  <2>2. MarksOK(s, ToSet(disk))
    BY <1>1, <1>3, <1>13, <2>1 DEF MarksOK
  <2> QED BY <1>12, <1>13, <2>2
<1>14. ASSUME NEW e \in ToSet(disk),
              s.cur = e, s.sending = e.id, s.current, e.id \notin SentNow(s0),
              s.pc = "mark", net' = net, s.sent = SentNow(s0) \cup {e.id}
       PROVE  WaitInv'
  <2>1. MarksOK(s, ToSet(disk))
    BY <1>7, <1>14 DEF MarksOK
  <2> QED BY <1>12, <1>14, <2>1
<1>15. ASSUME NEW e \in ToSet(disk),
              s.cur = e, s.sending = e.id, s.current, e.id \in SentNow(s0),
              s.pc = "call", s.sent = SentNow(s0),
              net' = net \cup {[id |-> e.id, op |-> e.op, tab |-> t]}
       PROVE  WaitInv'
  <2>1. AskedIds' = AskedIds \cup {e.id}
    <3> DEFINE r == [id |-> e.id, op |-> e.op, tab |-> t]
    <3>1. r.id = e.id /\ net' = net \cup {r}
      BY <1>15
    <3> HIDE DEF r
    <3> QED BY <1>2, <3>1, AskedMore
  <2> DEFINE asked == AskedIds'
  <2>2. MarksOK(s, ToSet(disk))
    BY <1>7, <1>15 DEF MarksOK
  <2>3. CountsOK(s, processed, asked)
    <3> HIDE DEF asked
    <3>1. asked = AskedIds \cup {e.id}
      BY <2>1 DEF asked
    <3>2. s.copy = s0.copy /\ s.pending = s0.pending /\ s0.pc = "read"
      BY <1>1
    <3> QED BY <1>3, <1>5, <1>15, <3>1, <3>2 DEF CountsOK
  <2>4. WaitOK(s, processed, asked, disk)
    BY <1>11, <2>2, <2>3 DEF WaitOK
  <2>5. WaitOK(s, processed', AskedIds', disk')
    BY <1>2, <2>4
  <2>6. \A f \in ToSet(disk') : f.id \in AskedIds' => f.sent
    BY <1>2, <1>7, <1>8, <1>15, <2>1
  <2> QED BY <1>1, <2>5, <2>6, WaitTabStep DEF s0
<1> QED BY <1>1, <1>13, <1>14, <1>15 DEF SendsOldest

LEMMA WriteKeepsWait ==
    ASSUME QueueInv, OneTab, DataInv, PageInv, WaitInv, NEW t \in Tabs, WriteEntries(t)
    PROVE  WaitInv'
<1> DEFINE s0 == tabs[t]
<1>1. PICK s \in TabRecord, c \in StorageCall :
         /\ tabs[t].chain # <<>> /\ c = Head(tabs[t].chain) /\ c.kind \notin Reads
         /\ disk' = Written(disk, c)
         /\ tabs' = [tabs EXCEPT ![t] = s] /\ SameView(s, tabs[t])
         /\ s.mem = tabs[t].mem /\ s.sent = tabs[t].sent
         /\ s.cur = tabs[t].cur /\ s.reply = tabs[t].reply /\ s.chain = Tail(tabs[t].chain)
         /\ \/ s.pc = tabs[t].pc /\ net' = net /\ ~Marked(tabs[t], c)
            \/ /\ Marked(tabs[t], c) /\ s.pc = "call"
               /\ net' = net \cup {Request(tabs[t], t)}
         /\ c.kind = "add" => c.id \notin TouchedIds
         /\ Ids(disk') = IF c.kind = "add" THEN Ids(disk) \cup {c.id}
                         ELSE IF c.kind = "remove" THEN Ids(disk) \ {c.id} ELSE Ids(disk)
  BY WriteView
<1>2. /\ s0.chain # <<>> /\ c = Head(s0.chain) /\ c.kind \notin Reads
      /\ SameView(s, s0) /\ s.mem = s0.mem /\ s.sent = s0.sent /\ s.cur = s0.cur
      /\ s.chain = Tail(s0.chain)
  BY <1>1
<1>3. \/ s.pc = s0.pc /\ net' = net /\ ~Marked(s0, c)
      \/ Marked(s0, c) /\ s.pc = "call" /\ net' = net \cup {Request(s0, t)}
  BY <1>1
<1>4. processed' = processed
  BY DEF WriteEntries, serverVars
<1>5. /\ s0.chain \in Seq(StorageCall)
      /\ WaitsOK(s0, Ids(disk)) /\ CountsOK(s0, processed, AskedIds)
      /\ MarksOK(s0, ToSet(disk))
  BY WaitOf
<1>6. \A id : id \notin AskedIds => id \notin s0.copy.has
  BY NotAskedNotHad
<1>7. c.kind = "add" => c.id \notin AskedIds /\ c.id \notin s0.sent
  BY <1>1, AskedAre DEF TouchedIds
<1>8. \A f \in ToSet(disk') :
         \/ c.kind = "add" /\ f.id = c.id
         \/ \E e \in ToSet(disk) :
               /\ e.id = f.id /\ (e.sent => f.sent)
               /\ c.kind = "setSent" /\ f.id = c.id => f.sent
  <2>1. disk \in Seq(Stored)
    BY DEF QueueInv, Shapes
  <2>2. ToSet(disk') = ToSet(Written(disk, c))
    BY <1>1 DEF ToSet
  <2> QED BY <1>2, <2>1, <2>2, WrittenElements
<1>9. CallsIn(s0.chain) = CallsIn(s.chain) \cup {<<c.kind, c.id>>}
  BY <1>2, <1>5, CallDone
<1> DEFINE stored2  == Ids(disk')
           entries2 == ToSet(disk')
           asked2   == AskedIds'
<1>10. stored2 = IF c.kind = "add" THEN Ids(disk) \cup {c.id}
                 ELSE IF c.kind = "remove" THEN Ids(disk) \ {c.id} ELSE Ids(disk)
  BY <1>1
<1>11. asked2 = IF Marked(s0, c) THEN AskedIds \cup {s0.cur.id} ELSE AskedIds
  <2>1. CASE ~Marked(s0, c)
    BY <1>3, <1>4, <2>1 DEF AskedIds
  <2>2. CASE Marked(s0, c)
    <3> DEFINE r == Request(s0, t)
    <3>1. r.id = s0.cur.id /\ net' = net \cup {r}
      BY <1>3, <2>2 DEF Request
    <3> HIDE DEF r
    <3> QED BY <1>4, <2>2, <3>1, AskedMore
  <2> QED BY <2>1, <2>2
<1>12. \A f \in entries2 :
         \/ c.kind = "add" /\ f.id = c.id
         \/ \E e \in ToSet(disk) :
               /\ e.id = f.id /\ (e.sent => f.sent)
               /\ c.kind = "setSent" /\ f.id = c.id => f.sent
  BY <1>8
<1> HIDE DEF s0, stored2, entries2, asked2
<1>13. WaitsOK(s, stored2)
  <2>1. \A id \in Ids(s.mem) : (id \in stored2 \/ Adds(s, id)) /\ ~Removes(s, id)
    <3> SUFFICES ASSUME NEW id \in Ids(s.mem)
                 PROVE  (id \in stored2 \/ Adds(s, id)) /\ ~Removes(s, id)
      OBVIOUS
    <3>1. (id \in Ids(disk) \/ Adds(s0, id)) /\ ~Removes(s0, id)
      BY <1>2, <1>5 DEF WaitsOK
    <3>2. ~Removes(s, id) /\ ~(c.kind = "remove" /\ c.id = id)
      BY <1>9, <3>1 DEF Removes
    <3>3. Adds(s0, id) => Adds(s, id) \/ (c.kind = "add" /\ c.id = id)
      BY <1>9 DEF Adds
    <3> QED BY <1>10, <3>1, <3>2, <3>3
  <2>2. s.pending = s0.pending
    BY <1>2 DEF SameView
  <2> QED BY <1>2, <1>5, <2>1, <2>2 DEF WaitsOK
<1>14. CountsOK(s, processed, asked2)
  <2>1. s.pending = s0.pending /\ s.copy = s0.copy
    BY <1>2 DEF SameView
  <2>2. CASE ~Marked(s0, c)
    BY <1>2, <1>3, <1>5, <1>11, <2>1, <2>2 DEF CountsOK
  <2>3. CASE Marked(s0, c)
    <3>1. s.pc = "call" /\ asked2 = AskedIds \cup {s.cur.id}
      BY <1>2, <1>3, <1>11, <2>3
    <3> QED BY <1>2, <1>5, <1>6, <2>1, <3>1 DEF CountsOK
  <2> QED BY <2>2, <2>3
<1>15. /\ s0.pc \in {"mark", "call"} <=> s.pc \in {"mark", "call"}
       /\ s.current = s0.current /\ s.sending = s0.sending
  BY <1>2, <1>3 DEF SameView, Marked
<1>16. MarksOK(s, entries2)
  <2>1. ASSUME NEW f \in entries2, f.id \in s.sent
        PROVE  f.sent \/ (s.pc = "mark" /\ s.cur.id = f.id)
    <3>1. PICK e \in ToSet(disk) :
             /\ e.id = f.id /\ (e.sent => f.sent)
             /\ c.kind = "setSent" /\ f.id = c.id => f.sent
      BY <1>2, <1>7, <1>12, <2>1
    <3>2. e.sent \/ (s0.pc = "mark" /\ s0.cur.id = f.id)
      BY <1>2, <1>5, <2>1, <3>1 DEF MarksOK
    <3> QED BY <1>2, <1>3, <3>1, <3>2 DEF Marked
  <2> QED BY <1>2, <1>5, <1>15, <2>1 DEF MarksOK
<1>17. ASSUME NEW f \in entries2, f.id \in asked2 PROVE f.sent
  <2>1. c.kind = "add" => ~Marked(s0, c)
    BY DEF Marked
  <2>2. PICK e \in ToSet(disk) :
           /\ e.id = f.id /\ (e.sent => f.sent)
           /\ c.kind = "setSent" /\ f.id = c.id => f.sent
    BY <1>7, <1>11, <1>12, <1>17, <2>1
  <2>3. e.id \in AskedIds => e.sent
    BY DEF WaitInv
  <2>4. Marked(s0, c) => c.kind = "setSent" /\ c.id = s0.cur.id
    BY DEF Marked
  <2> QED BY <1>11, <1>17, <2>2, <2>3, <2>4
<1>18. WaitOK(s, processed', AskedIds', disk')
  BY <1>4, <1>13, <1>14, <1>16 DEF WaitOK, stored2, entries2, asked2
<1>19. \A f \in ToSet(disk') : f.id \in AskedIds' => f.sent
  BY <1>17 DEF entries2, asked2
<1> QED BY <1>1, <1>18, <1>19, WaitTabStep

\* What waits after the entry of an op went.
LEMMA RemovedWaits ==
    ASSUME NEW s0, NEW s, NEW id, NEW q, WaitsOK(s0, Ids(q)), MarksOK(s0, ToSet(q)),
           s0.pc = "call", s.sending = None, Removed(s, s0, id),
           \A x \in ToSet(s.pending) :
              x.appliedSeq = None => x \in ToSet(s0.pending) /\ x.id # id
    PROVE  WaitsOK(s, Ids(q)) /\ MarksOK(s, ToSet(q))
<1>1. ASSUME NEW i \in Ids(s.mem) PROVE (i \in Ids(q) \/ Adds(s, i)) /\ ~Removes(s, i)
  <2>1. i \in Ids(s0.mem) /\ i # id
    BY DEF Removed
  <2>2. (i \in Ids(q) \/ Adds(s0, i)) /\ ~Removes(s0, i)
    BY <2>1 DEF WaitsOK
  <2>3. Adds(s0, i) => Adds(s, i)
    BY DEF Adds, Removed
  <2>4. Removes(s, i) => Removes(s0, i) \/ i = id
    <3>1. \A x \in CallsIn(s.chain) :
             x \in CallsIn(s0.chain) \cup {<<"remove", id>>} \/ x[1] \in {"setOp", "pump"}
      BY DEF Removed
    <3>2. <<"remove", i>>[1] = "remove"
      OBVIOUS
    <3> QED BY <3>1, <3>2 DEF Removes
  <2> QED BY <2>1, <2>2, <2>3, <2>4
<1>2. \A x \in ToSet(s.pending) : x.appliedSeq = None => x.id \in Ids(s.mem)
  BY DEF WaitsOK, Removed
<1>3. MarksOK(s, ToSet(q))
  BY DEF MarksOK, Removed
<1> QED BY <1>1, <1>2, <1>3 DEF WaitsOK

LEMMA SettleKeepsWait ==
    ASSUME QueueInv, OneTab, DataInv, PageInv, WaitInv, NEW t \in Tabs, Settle(t)
    PROVE  WaitInv'
<1> DEFINE s0 == tabs[t]
<1>1. PICK s \in TabRecord, id \in OpIds, answer \in Answer :
         /\ s0.pc = "call" /\ s0.cur # None /\ id = s0.cur.id
         /\ answer = s0.reply /\ s0.reply # None
         /\ tabs' = [tabs EXCEPT ![t] = s]
         /\ Removed(s, s0, id)
         /\ ~s0.current => s.settled = s0.settled /\ s.pending = s0.pending
         /\ s0.current => Heard(s, s0, id, answer)
  BY SettleView
<1>2. processed' = processed /\ disk' = disk /\ net' = net
  BY DEF Settle, serverVars, deviceVars
<1>3. /\ WaitsOK(s0, Ids(disk)) /\ CountsOK(s0, processed, AskedIds)
      /\ MarksOK(s0, ToSet(disk))
  BY WaitOf
<1>4. answer.status = "applied" => processed[id] # None /\ answer = processed[id].answer
  BY <1>1 DEF DataInv, ReplyOK
<1>5. answer.seq # None
  BY NoneIsNone DEF Answer
<1> HIDE DEF s0
<1>6. Heard(s, s0, id, answer)
  BY <1>1, <1>3 DEF MarksOK
<1>7. /\ s.sending = None /\ s.copy = s0.copy
      /\ \A x \in ToSet(s.pending) :
            \/ x \in ToSet(s0.pending) /\ x.id # id
            \/ /\ answer.status = "applied" /\ answer.seq > s0.copy.seq
               /\ x.id = id /\ x.appliedSeq = answer.seq
  BY <1>6 DEF Heard
<1>8. WaitsOK(s, Ids(disk)) /\ MarksOK(s, ToSet(disk))
  BY <1>1, <1>3, <1>5, <1>7, RemovedWaits
<1>9. CountsOK(s, processed, AskedIds)
  <2> SUFFICES ASSUME NEW x \in ToSet(s.pending), ~x.uncertain
               PROVE  IF x.appliedSeq = None THEN x.id \notin AskedIds
                      ELSE /\ x.appliedSeq > s.copy.seq
                           /\ processed[x.id] # None
                           /\ x.appliedSeq = processed[x.id].answer.seq
    BY DEF CountsOK
  <2>1. CASE x \in ToSet(s0.pending) /\ x.id # id
    BY <1>1, <1>3, <1>7, <2>1 DEF CountsOK
  <2>2. CASE /\ answer.status = "applied" /\ answer.seq > s0.copy.seq
             /\ x.id = id /\ x.appliedSeq = answer.seq
    BY <1>4, <1>5, <1>7, <2>2
  <2> QED BY <1>7, <2>1, <2>2
<1> QED BY <1>1, <1>2, <1>8, <1>9, WaitQuietStep DEF s0

LEMMA FailKeepsWait ==
    ASSUME QueueInv, OneTab, PageInv, WaitInv, NEW t \in Tabs, Fail(t)
    PROVE  WaitInv'
<1> DEFINE s0 == tabs[t]
<1>1. PICK s \in TabRecord, id \in OpIds :
         /\ s0.pc = "call" /\ s0.cur # None /\ id = s0.cur.id
         /\ tabs' = [tabs EXCEPT ![t] = s]
         /\ Removed(s, s0, id)
         /\ s.settled = s0.settled
         /\ s0.current => s.sending = None
         /\ \A x \in ToSet(s0.pending) : x.id # id => x \in ToSet(s.pending)
         /\ s0.current =>
               \A x \in ToSet(s.pending) : x \in ToSet(s0.pending) /\ x.id # id
  BY FailView
<1>2. processed' = processed /\ disk' = disk /\ net' = net
  BY DEF Fail, serverVars, deviceVars
<1>3. /\ WaitsOK(s0, Ids(disk)) /\ CountsOK(s0, processed, AskedIds)
      /\ MarksOK(s0, ToSet(disk))
  BY WaitOf
<1> HIDE DEF s0
<1>4. /\ s.sending = None
      /\ \A x \in ToSet(s.pending) : x \in ToSet(s0.pending) /\ x.id # id
  BY <1>1, <1>3 DEF MarksOK
<1>5. WaitsOK(s, Ids(disk)) /\ MarksOK(s, ToSet(disk))
  BY <1>1, <1>3, <1>4, RemovedWaits
<1>6. CountsOK(s, processed, AskedIds)
  BY <1>1, <1>3, <1>4 DEF CountsOK, Removed
<1> QED BY <1>1, <1>2, <1>5, <1>6, WaitQuietStep DEF s0

LEMMA LoopKeepsWait ==
    ASSUME QueueInv, OneTab, DataInv, PageInv, WaitInv, NEW t \in Tabs, Loop(t)
    PROVE  WaitInv'
<1>1. CASE TakeLock(t) \/ Wake(t)
  BY <1>1, RoundKeepsWait
<1>2. CASE ReadEntries(t)
  BY <1>2, ReadAgainKeepsWait, ReadShowKeepsWait, ReadSendKeepsWait
<1>3. CASE WriteEntries(t)
  BY <1>3, WriteKeepsWait
<1>4. CASE Settle(t) \/ Fail(t)
  BY <1>4, SettleKeepsWait, FailKeepsWait
<1> QED BY <1>1, <1>2, <1>3, <1>4 DEF Loop

\* The page sees nothing of what the server does before an answer arrives.
LEMMA ServerKeepsWait ==
    ASSUME QueueInv, DataInv, WaitInv, NEW r \in net, Serve(r) \/ Refuse(r)
    PROVE  WaitInv'
<1>1. /\ Grows(processed, processed')
      /\ \A id \in OpIds : processed'[id] # None => processed[id] # None \/ id = r.id
  <2>1. CASE Serve(r)
    BY <2>1, ServeGrows
  <2>2. CASE Refuse(r)
    BY <2>2 DEF Refuse, serverVars, Grows
  <2> QED BY <2>1, <2>2
<1>2. \A t \in Tabs : SameButReply(tabs'[t], tabs[t])
  <2>1. CASE Serve(r)
    <3>1. PICK answer \in Answer : Deliver(r, answer)
      BY <2>1, ServeGrows
    <3> QED BY <3>1, DeliverView
  <2>2. CASE Refuse(r)
    BY <2>2, RefuseKeepsData
  <2> QED BY <2>1, <2>2
<1>3. disk' = disk /\ net' = net \ {r}
  BY DEF Serve, Refuse, Deliver, deviceVars
<1>4. AskedIds' \subseteq AskedIds
  BY <1>1, <1>3 DEF AskedIds
<1>5. ASSUME NEW t \in Tabs PROVE WaitOK(tabs'[t], processed', AskedIds', disk')
  <2>1. WaitOK(tabs[t], processed, AskedIds, disk) /\ tabs[t] \in TabRecord
    BY TypesAre DEF WaitInv
  <2>2. SameButReply(tabs'[t], tabs[t])
    BY <1>2
  <2> DEFINE s     == tabs'[t]
             s0    == tabs[t]
             done  == processed
             done2 == processed'
             asked == AskedIds'
  <2>3. /\ WaitsOK(s0, Ids(disk)) /\ CountsOK(s0, done, AskedIds) /\ MarksOK(s0, ToSet(disk))
        /\ SameButReply(s, s0) /\ Grows(done, done2) /\ asked \subseteq AskedIds
        /\ s0 \in TabRecord
    BY <1>1, <1>4, <2>1, <2>2 DEF WaitOK
  <2> HIDE DEF s, s0, done, done2, asked
  <2>4. \A p \in ToSet(s0.pending) : p.id \in OpIds
    <3>1. s0.pending \in Seq(Projection)
      BY <2>3 DEF TabRecord
    <3>2. \A p \in ToSet(s0.pending) : p \in Projection
      BY <3>1, ElementsOf
    <3> QED BY <3>2 DEF Projection
  <2>5. WaitsOK(s, Ids(disk))
    BY <2>3 DEF WaitsOK, Removes, Adds, SameButReply, SameView
  <2>6. CountsOK(s, done2, asked)
    BY <2>3, <2>4 DEF CountsOK, Grows, SameButReply, SameView
  <2>7. MarksOK(s, ToSet(disk))
    BY <2>3 DEF MarksOK, SameButReply, SameView
  <2>8. WaitOK(s, done2, asked, disk)
    BY <2>5, <2>6, <2>7 DEF WaitOK
  <2> QED BY <1>3, <2>8 DEF s, done2, asked
<1>6. \A e \in ToSet(disk') : e.id \in AskedIds' => e.sent
  BY <1>3, <1>4 DEF WaitInv
<1>7. WaitInv' = (/\ \A e \in ToSet(disk') : e.id \in AskedIds' => e.sent
                  /\ \A u \in Tabs : WaitOK(tabs'[u], processed', AskedIds', disk'))
  BY DEF WaitInv, WaitOK, WaitsOK, CountsOK, MarksOK, Adds, Removes, CallsIn, Ids, ToSet
<1> QED BY <1>5, <1>6, <1>7

LEMMA WaitStart ==
    ASSUME Init
    PROVE  WaitInv
<1>1. disk = <<>> /\ tabs = [t \in Tabs |-> ClosedTab]
  BY DEF Init
<1>2. ToSet(disk) = {}
  BY <1>1 DEF ToSet
<1>3. /\ ClosedTab.mem = <<>> /\ ClosedTab.pending = <<>> /\ ClosedTab.current
      /\ ClosedTab.pc = "idle" /\ ClosedTab.sending = None
  BY DEF ClosedTab
<1>4. ToSet(ClosedTab.pending) = {} /\ Ids(ClosedTab.mem) = {}
  BY <1>3 DEF Ids, ToSet
<1>5. WaitOK(ClosedTab, processed, AskedIds, disk)
  BY <1>2, <1>3, <1>4 DEF WaitOK, WaitsOK, CountsOK, MarksOK
<1> QED BY <1>1, <1>2, <1>5 DEF WaitInv

\* Sign-outs are counted and never taken back.
LEMMA SignOutsStay ==
    ASSUME QueueInv, [Next]_vars, NeverSignedOut'
    PROVE  NeverSignedOut
<1>1. used \in [foreign : Nat, faults : Nat, signOuts : Nat]
  BY DEF QueueInv, Shapes
<1>2. used'.signOuts = used.signOuts \/ used'.signOuts = used.signOuts + 1
  <2>1. ASSUME NEW t \in Tabs, Page(t) PROVE used'.signOuts \in {used.signOuts, used.signOuts + 1}
    BY <1>1, <2>1 DEF Page, Open, Close, Send, Discard, Pause, SignedOut, AskFeed, AnswerFeed,
       TakeFeed, NoAnswer, Unauthorized
  <2>2. ASSUME NEW t \in Tabs, Loop(t) PROVE used'.signOuts \in {used.signOuts, used.signOuts + 1}
    BY <2>2 DEF Loop, TakeLock, ReadEntries, WriteEntries, Settle, Fail, Wake
  <2>3. ASSUME NEW r \in net, Serve(r) \/ Refuse(r) PROVE used'.signOuts \in {used.signOuts, used.signOuts + 1}
    BY <1>1, <2>3 DEF Serve, Refuse
  <2>4. CASE Foreign
    BY <1>1, <2>4 DEF Foreign
  <2>5. CASE UNCHANGED vars
    BY <2>5 DEF vars
  <2> QED BY <2>1, <2>2, <2>3, <2>4, <2>5 DEF Next, Server
<1> QED BY <1>1, <1>2 DEF NeverSignedOut

LEMMA WaitStep ==
    ASSUME QueueInv, OneTab, DataInv, PageInv, NeverSignedOut => WaitInv, [Next]_vars
    PROVE  (NeverSignedOut => WaitInv)'
<1> SUFFICES ASSUME NeverSignedOut'
             PROVE  WaitInv'
  OBVIOUS
<1>1. WaitInv
  BY SignOutsStay
<1>2. ASSUME NEW t \in Tabs, Page(t) \/ Loop(t) PROVE WaitInv'
  BY <1>1, <1>2, PageKeepsWait, LoopKeepsWait
<1>3. ASSUME NEW r \in net, Serve(r) \/ Refuse(r) PROVE WaitInv'
  BY <1>1, <1>3, ServerKeepsWait
<1>4. ASSUME UNCHANGED <<tabs, processed, disk, net>> PROVE WaitInv'
  BY <1>1, <1>4 DEF WaitInv, WaitOK, WaitsOK, CountsOK, MarksOK, AskedIds
<1>5. CASE Foreign
  BY <1>4, <1>5 DEF Foreign, deviceVars
<1>6. CASE UNCHANGED vars
  BY <1>4, <1>6 DEF vars
<1> QED BY <1>2, <1>3, <1>5, <1>6 DEF Next, Server

LEMMA WaitInvariant ==
    ASSUME OneTab
    PROVE  Spec => [](NeverSignedOut => WaitInv)
<1>1. Init => (NeverSignedOut => WaitInv)
  BY WaitStart
<1>2. QueueInv /\ DataInv /\ PageInv /\ (NeverSignedOut => WaitInv) /\ [Next]_vars
        => (NeverSignedOut => WaitInv)'
  BY WaitStep
<1> QED BY <1>1, <1>2, QueueInvariant, DataInvariant, PageInvariant, PTL DEF Spec

\* While the device has one tab and nobody signs out, a change shown as not
\* answered is one the queue still has: a projection goes with its entry
\* (discard, opSettled, opFailed), and each read of storage finds all entries.
THEOREM ShownWaits ==
    ASSUME OneTab
    PROVE  Spec => []ShownIsWaiting
<1>1. (NeverSignedOut => WaitInv) => ShownIsWaiting
  BY DEF ShownIsWaiting, WaitInv, WaitOK, WaitsOK
<1> QED BY <1>1, WaitInvariant, PTL

\* While the device has one tab and nobody signs out, a delta that the shown data
\* contains is not projected on top of it, whatever answers are lost and pages
\* reloaded: setSent is stored before the request (#sendOne), opLoaded shows what
\* is marked as uncertain, and refresh waits for an open answer.
THEOREM DeltasCountOnce ==
    ASSUME OneTab
    PROVE  Spec => []CountedOnce
<1>1. QueueInv /\ DataInv /\ (NeverSignedOut => WaitInv) => CountedOnce
  <2> SUFFICES ASSUME QueueInv, DataInv, WaitInv, NEW t \in Tabs,
                      NEW p \in ToSet(tabs[t].pending), p.twice, Projected(p)
               PROVE  p.id \notin tabs[t].copy.has
    BY DEF CountedOnce
  <2>1. ~p.uncertain /\ CountsOK(tabs[t], processed, AskedIds)
    BY DEF Projected, WaitInv, WaitOK
  <2>2. CASE p.appliedSeq = None
    BY <2>1, <2>2, NotAskedNotHad DEF CountsOK
  <2>3. CASE p.appliedSeq # None
    <3>1. /\ p.appliedSeq > tabs[t].copy.seq /\ processed[p.id] # None
          /\ p.appliedSeq = processed[p.id].answer.seq
      BY <2>1, <2>3 DEF CountsOK
    <3>2. /\ tabs[t].copy \in Copies /\ tabs[t].copy.seq \in Int
          /\ tabs[t].copy.has \subseteq OpIds
      BY TypesAre DEF Copies
    <3>3. \A id \in tabs[t].copy.has : /\ processed[id].answer.seq \in Nat
                                       /\ processed[id].answer.seq <= tabs[t].copy.seq
      BY <3>2, TypesAre DEF DataInv, CopyOK
    <3> QED BY <3>1, <3>2, <3>3
  <2> QED BY <2>2, <2>3
<1> QED BY <1>1, WaitInvariant, QueueInvariant, DataInvariant, PTL
=============================================================================
