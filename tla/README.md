# TLA+ models of the list app

TLA+ modules, TLC configurations and TLAPS proofs for the shared-list app in
this repository. They cover what is hardest to test in it: several devices and
tabs that write the same room, offline queues that retry, a feed of changes
that is lost, late or stale, password checks that run outside the database
lock, sign-ins and sign-outs that cross in the tabs of a browser, streams that
must not sleep through a change, and reminder grants and settings that outlive
the session that made them.

Paths below are relative to the repository; line numbers are in the `map` of
`PROJECT.json`, which names the code behind every definition.

## 1. The system

A room is a set of lists with items, opened with a room password. A FastAPI
server keeps rooms in SQLite. A Svelte page keeps a copy of each open room in
memory and on the device, shows the user's own changes at once, and sends them
from a queue that survives reloads and offline periods. A share link opens one
list without the room password.

### Components

| Component | State it keeps | Operations | Hard behaviour | What makes it correct |
|---|---|---|---|---|
| **Change tracking** (`database_setup.py` triggers, `database_crud.py`) | `rooms.change_seq`, `changed_seq` per row, `deletions`, `deletions_pruned_seq`, `share_seq_floors` | every insert, update and delete of a list or item; the 90-day prune | several rows per statement, deletes that cascade, pruned records | every change has a later seq; a deleted row is named until it is pruned, and then a client that could miss it is served in full |
| **Changes feed** (`api/changes.py`, `api/share.py`) | none | `GET /changes?since=`, share view and its seq | a client ahead of the server, behind the prune, or new | a page at the room's seq shows the room |
| **Room store, feed side** (`room-store.svelte.ts`, `feed.ts`) | `#server`, `seq`, `status`, `clearVersion` | `refresh`, `#load`, `applyFeed`, `hydrate`, `clear` | an answer for a view that was cleared or hydrated meanwhile | an answer is merged only into the copy it was asked for; the page catches up in the end |
| **Write operations** (`api/ops.py`) | lists, their tags and settings, items | 17 op types | ops of different devices in any order, base seqs, limits, unique names, share-link scope, tags of lists and of their items | tables stay consistent; nothing unseen is overwritten; a share link stays in its list |
| **Idempotency** (`api/idempotency.py`) | `processed_ops` | `run_once_locked`, the 30-day prune | lost answers, retries, forgotten answers | an op applies once; the same op gets the same answer |
| **Write queue** (`write-queue.ts`, `queue-storage.ts`, `queue-entries.ts`) | entries in memory and in IndexedDB, `#sent`, the storage chain, a Web Lock | `send`, `discard`, `pump`, `pause`, `resume`, `load` | reloads between mark, request and answer; two tabs; overlapping storage calls; retries; 401 | every stored change runs at most once and in order, and leaves storage only when run or given up |
| **Rebase** (`rebase.ts`) | none | moves the base of queued ops after an own op was applied | lost answers, other devices' writes | the user's own ops do not conflict, others' writes are not hidden |
| **Overlay** (`overlay.ts`, `room-store.svelte.ts`) | `#pending`, `#answeredRows`, `#sending` | queued, sent, settled, uncertain, dropped | a feed that has an op already, an answer newer than the feed | a change is shown once and never disappears in between |
| **Room data layer** (`data/index.ts`) | one entry per open room: blocked or not, its identity epoch, a timer | open, access check, sign in, sign out, clear hint, 401 | a check overtaken at any `await` by a sign-out, a clear or a sign-in | data of a room is shown and sent only with access; no page waits for a check nobody starts |
| **Snapshot store** (`snapshot-store.ts`) | the saved copy per room, and a control record: generation and sign-out marker | save, read, clear, mark signed out, hint | a save after a clear; a hint that is late | a cleared room is not shown again, and every tab hears of it |
| **Database backup and restore** (`docs/deployment.md`) | the database file | an operator's commands | seqs go back | pages do not keep rows of the lost future |
| **Room access** (`database_crud.py`, `api/session.py`, `api/room.py`, `api/access.py`, `api/admin.py`) | rooms with password hash and version, `room_access_tokens` | sign-in, sign-out, password change, deletion, admin reset and deletion | bcrypt runs outside the lock, so requests take several transactions; row ids are used again | a token proves the room's present password |
| **Live updates** (`live_updates.py`, `api/events.py`, `data/events.ts`) | slots, subscriptions, wake signals | connect, subscribe, read, wait, wake, end | a wake between a read and a wait; a sign-out that wakes nobody; slots of failed requests | no write is slept through, access that is gone ends the stream, no slot is lost |
| **Reminders** (`reminders/`, `api/reminders.py`, `api/reminder_policies.py`) | per browser: installation, enrollment with its grant, policies of rooms, lists and items; per item a due cycle | enroll or resume, change preferences, device settings and policies, opt out | two revision counters for one set of settings; grants that sign-outs and password changes cut; settings that move the instant from which reminders run | a grant ends with its session, and only its user brings it back; nothing unseen is replaced; no old reminder is opened again |
| **Sign-in limiter** (`sign_in_limiter.py`, `api/sign_in_limit.py`) | time stamps in buckets: per slug, for all rooms, for the admin | reserve, release | attempts that overlap, with the same stamp; buckets that expire or are trimmed meanwhile | only failures keep slots, and all do; who waits as told is not refused for the same attempts |
| **Room invitations** (`room_invitations.py`, `api/invitations.py`) | invitations with a count, an expiry and a revocation | issue, list, revoke, make a room | bcrypt runs between the first look and the transaction | no room too many and none after the end |
| Migrations (`migrations.py`) | schema version | run at start | each is one transaction before the first request | not modelled |
| **Sign-out and session** (`pending-logout.ts`, `session-transition.ts`, `room-signin.ts`) | the session lock, the pending sign-out in the control record | sign out, sign in, late sign-out | requests that are lost, late or cross those of other tabs; a page that closes in between | a sign-out is final; a later sign-in is not undone |
| **Admin session** (`admin_access.py`, `api/admin.py`) | an expiry in the admin cookie | sign in, sign out, invitations, reset, delete | - | what it does is part of room access and invitations |
| Version check (`compat.svelte.ts`) | incompatible or not | stops all sends | - | not modelled |
| Service worker, web server, user interface | none of their own | - | - | not modelled: routing, caching and display |

### How they interact

* **Calls.** `POST /ops` takes `_DB_LOCK` and a SQLite write transaction, runs
  the handler under a savepoint through `run_once_locked`, commits, and then
  wakes the room's streams. So one op is one atomic step, and the wake is
  another. Sign-in, password change and room deletion read in one transaction,
  run bcrypt with no lock, and write in another.
* **The stored queue** is shared by the tabs of a device. A Web Lock lets one
  of them send; all of them may add, discard and read.
* **The feed** tells a page of other devices' writes and, possibly before its
  own answer, of its own.
* **The tabs of a browser** share the room cookie, a control record in IndexedDB
  and a Web Lock that orders the requests that read or change the cookie. A tab
  that signs out stores a marker, hints the others and asks the server to end
  the session; if that request is lost, any tab repeats it later.
* **The front door.** A sign-in first takes slots of the limiter, then runs
  bcrypt, then gives the slots back if the password was right. Room creation by
  invitation runs bcrypt between two looks at the invitation.
* **Live updates** tell pages that the room has a new seq. The page asks the
  feed for the rest.
* **A reminder grant** names the room token it was given by. A sign-out and a
  password change cut it in their own transaction; every use checks it again
  against token, password version and expiry.

## 2. The modules

| Module | Models | Composes |
|---|---|---|
| `ChangeFeed` | change tracking, feed, one page and its saved copy | - |
| `DatabaseRestore` | an operator's backup and restore | extends `ChangeFeed` |
| `OpHandlers` | the write operations as functions from a room and an op to an outcome | extends `SequenceFilter` |
| `RoomOps` | `POST /ops` with idempotency, drafts that arrive at any time, holds | extends `OpHandlers` |
| `Outbox` | abstract: what a queue promises of stored changes | - |
| `OfflineQueue` | tabs, queue, storage, lock, overlay, rebase, against the server of `OpHandlers` | extends `OpHandlers` and `SequenceFilter`, implements `Outbox` |
| `RoomSession` | one room in the tabs of a browser: access checks, sign-in, sign-out, hints | extends `SequenceFilter` |
| `RoomAccess` | rooms, tokens, and the requests that check passwords | - |
| `LiveUpdates` | stream slots, subscriptions, wakes and rechecks | extends `RoomAccess` |
| `SignInLimiter` | the buckets of sign-in attempts | extends `SequenceFilter` |
| `FrontDoor` | requests that sign in or make rooms by invitation, the admin session | extends `SignInLimiter` |
| `Reminders` | one browser's reminder settings and grant in one room, with its tokens and a clock | - |
| `SequenceFilter` | the elements of a sequence at chosen places (`Picked`), defined without recursion so that it can be proved about | - |
| `ChangeFeedProofs`, `OfflineQueueProofs`, `RoomOpsProofs`, `RoomSessionProofs`, `LiveUpdatesProofs`, `FrontDoorProofs`, `RemindersProofs`, `SequenceFilterProofs` | theorems on the module they are named for | extend it |
| `MCRoomOps`, `MCOfflineQueue`, `MCFrontDoor`, `MCReminders` | the symmetry sets of the runs | extend their module |

Each module has a few operators with the comment `Variant:`. They are plausible
bugs (a dropped guard, a missing reset) that no action uses. Put in place of
the definition after them they must make a property fail; `PROJECT.json` lists
the pairs under `mutants`.

### ChangeFeed

*State*: the tables `lists`, `items`, `deletions` with their seqs, `changeSeq`,
`prunedSeq`, `floors`; and of the page `store` (`#server`, `seq`, `status`),
`saved` (the device's copy), `phase` (where `#load` is), `since`, `stale`
(`clearVersion` moved), and `feed`, the answer on its way.

*Actions*: a server write is one committed transaction, grouped by the rows it
touches, because that is what the triggers see: `RenameRoom`, `CreateList`,
`CreateItem`, `UpdateList`, `UpdateItem`, `RetagList` (the list row, then some
of its items, in any order), `DeleteItem`, `DeleteList` (items first, one
record each, then the list), `PruneDeletions`. The page takes `Refresh`,
`Answer`, `LoseAnswer`, `IgnoreFeed`, `ApplyFeed`, `SaveCopy`, and may be
interrupted by `Clear`, `Hydrate` or `Reload` at any point.

### OpHandlers and RoomOps

`OpHandlers!Outcome` gives the checks in the handlers' order and what each
handler writes, for all 17 op types. A name stands for its duplicate key, and
for an item's description and schedule. A list keeps the set of its tags, those
that have a color, and its settings that are on; an item keeps its tags as a
sequence, because a change to one tag per item keeps the first (`PutSettings`).
A color is only given or not: which one it is says nothing to any property.

`RoomOps` is the endpoint. A device composes an op from the room it sees
(`Compose`), with the `changed_seq` of the row as its base. The request comes
at any later time and any number of times (`RunOp`, `ReplayOp`). After 30 days
the device holds the op (`Hold`) until the user approves it (`Approve`), and
the server forgets the answer (`Forget`). `Forget` needs the op not to be fresh:
the answer was stored after the user acted, so its 30 days end later. A member's
answer carries the room's seq. Through a share link it carries the list's, which
needs the seqs of deletion records: `AnswerTo` leaves it out, `ChangeFeed` has it
(`ShareSeq`).

### OfflineQueue and Outbox

A step of a tab is what JavaScript does up to the next `await`. Storage calls
wait in the tab's chain (`ReadEntries`, `WriteEntries`), a read that a local
change overlaps is repeated (`clean`), requests and answers travel on their
own. `TakeLock` to `Wake` are the send loop; `Send`, `Discard`, `Pause`,
`SignedOut`, `AskFeed`, `AnswerFeed`, `TakeFeed` are the page; `Close` may come
at any point and leaves only what is stored. The server runs each request
once (`Serve`), refuses it (`Refuse`), or its answer is lost (`NoAnswer`,
before or after the server has it). `Foreign` is another device.

`Outbox` says what this amounts to: changes are stored, the oldest runs, none
runs twice, and one leaves storage only when it ran or was given up. The
mapping is direct: `waiting` is the op_ids on `disk`, `ran` the server's `log`,
`givenUp` the ops discarded or refused. One that was given up may still run: its
request may be out.

### RoomSession

*State*: what the tabs share, `control` (generation and sign-out marker), `saved`
(the copy), `cookie` and the tokens that are `valid` at the server, the queue of
the session `lock`; per tab the handle of `data/index.ts` (`tab`), the clear
`hints` and sign-in `news` on their way to it. `kept` remembers the token of the
last sign-in that nobody signed out.

A tab has up to three tasks: an access check, a user action (sign-in or
sign-out), and a late sign-out. `pc` says where each is; a step runs up to the
next `await` of the network, the lock or IndexedDB. `stale` names the tasks whose
identity epoch is over, which the code finds out at the end of each `await`.

*Actions*: the check is `CheckEnter`, `WhoAmI`, `Feed`, `Save`, `Grant`, `Done`,
alone (after `Open`, `Recheck`, `TimerFires`, `HearSignIn`) or at the end of a
sign-in; `SessionCheck` and `SessionAnswer` are the check after a closed stream.
Sign-in is `SignIn`, `SignInEnter`, `SignInRevoke`, `SignInClear`, `SignInPost`;
sign-out is `SignOut`, `SignOutHeld`, `SignOutMark`, then `ServerSignOut`, which
is also what a later visit repeats. `Hint`, `ClearLands`, `Close` may come at any
point; each request may be lost before or after the server has it. `Feed` is
dropped when a write of the page went out meanwhile: the check stops the queue,
but a write it is about to read from storage may still go (`write`).

### SignInLimiter and FrontDoor

`SignInLimiter` is `sign_in_limiter.py`: `Take` and `TakeNothing` are the two ends
of `reserve`, `GiveBack` is `release`, `Trim` drops old buckets. `order` is the
order of the dict, which decides what `Trim` drops. Its clock has several ticks
a second, since stamps are floats and waits whole seconds. The assumptions are
the code's: `ClockTicks` and `BoundsAreNats` (the limits, the window and
`MAX_BUCKETS` are positive numbers), `SlugsAreRooms` (a bucket's key says of what
kind it is, so no slug is the key of all rooms or of the admin), and
`RoomForLiveBuckets` (30 attempts at all rooms and 10,000 buckets).

In `FrontDoor` a request attempts, is checked by bcrypt, and fails or succeeds
(`Attempt`, `Fails`, `Succeeds`), or makes a room with an invitation
(`StartRoom`, `FinishRoom`). The admin gives invitations out, lists and revokes
them; listing deletes old rows, also at the end of the request that made one.

### RoomAccess and LiveUpdates

A request goes through `new`, `checked` (bcrypt has run), `issued` (the token
row is there) and `given` (its browser has the token). Between these steps any
other request may run. `StillAllowed` is the second transaction's check of
access and of the room as it was. `NextId` is SQLite's `max(id) + 1`: a deleted
room's id comes back. `KeepNewest` prunes to `MAX_SESSIONS_PER_ROOM`.

A stream takes a slot (`Connect`), checks access, subscribes, and reads the
room whenever it is woken (`Woken`) and every 15 seconds (`Recheck`). A write
commits, and only then `Wake` sets the signals. `SignOut` wakes nobody, as in
`api/session.py`.

### Reminders

*State*: the browser's room tokens and cookie, the room's password `version`,
the `device` its device cookie names with that installation's `enrollment`,
`policies` and processed ops (`done`), an `item` with its due cycle, and a clock.
`drafts` holds what the page showed (`Shown`) when a change was composed: its
revisions go with the request, its values tell what its author knew.

*Actions*: the five personal writes `EnrollNewDevice` and `Resume` (both
`POST enrollment`), `PatchPreferences`, `PatchDevice` and `PutPolicy`, each one
transaction with every body it may have; `SignIn`, `SignOut`, `NewPassword` (by
this browser or another), `PruneToken`; `EditDue` and `ComeBack`, which start a
due cycle; `Tick`. A refused or repeated op changes nothing and is no action. A
browser makes a new installation only when it knows none, at first or after the
last expired. Only the loss of the grant's own token matters, so `PruneToken`
takes that one. Whether the item has a due time decides which cutoffs count;
the property is stated for both instead.

`GrantState` is `saved_grant_state_locked`: what is stored may say "active" when
it is not. `Cutoff` and `SummaryCutoff` are the latest of the activations that
`effective_policy_locked` returns, over `Chain`, the scopes up to the one whose
policy applies.

## 3. The runs

| Run | Instance | Question |
|---|---|---|
| `feed` | 2 lists, 1 item, 2 values, 3 seqs, fair; rooms with rows from the start, all of the first value | a page at the room's seq shows the room, and a page that is left alone comes to; a list's share seq follows that list and nothing else |
| `ops` | 2 lists, 2 items, 2 names, 2 ops of 11 types, one of them held | tables consistent, nothing unseen overwritten, seqs exact, retries change nothing |
| `ops_share` | 2 lists, 2 items, 2 tags, limits of 1, 2 ops of 13 types, members and share links | tags consistent, one tag per item where a list says so, share links stay in their list |
| `queue` | 1 tab, 2 ops (delta, edit), 1 foreign write, any 2 faults of 7 kinds | what the page shows of its own changes |
| `queue_tabs` | 2 tabs, 2 ops, 1 fault of 5 kinds (no pause and no sign-out, section 6) | `Outbox` over tabs; no op_id with two bodies |
| `access` | 2 slugs, 2 passwords, 2 requests, 1 session per room, 1 stream, 1 slot | tokens prove passwords, sessions end for a reason, streams neither sleep nor stay |
| `door` | 4 requests, 3 slugs, 1 invitation, limits 1 and 2, 2 ticks a second, 4 ticks | slots are failures, waits suffice, invitations hold |
| `session` | 2 tabs, 2 openings, 1 sign-in, 1 sign-out, 1 fault | sign-outs are final, sign-ins are kept, no page is left waiting |
| `reminders` | 2 ops, 2 tokens, 1 new password, 2 installations, 2 modes, 2 times, 2 zones, a year of 2 ticks | grants end and come back as they should; nothing unseen is replaced; cutoffs only move to now |
| `restore`, `queue_r2`, `queue_phantom` | smallest instances | *violated*, see section 6 |

**Why these bounds.** The feed's hazards need one row deleted and pruned while
another stays: an item and its list, or one of two lists. Its three seqs are
enough to change a list, delete its item and prune the record. Any two ops show
every pair of op types in every order; a third adds no new relation between an
op and the row it was made from. `ops_share` starts from rooms full of tags, at a
limit of one tag a list, so that removing, renaming and adding tags meet the
limit; items carry both tags, as after a rename or a removal elsewhere. With one
tag a list, a rename onto another tag of the list does not occur. The queue's
hazards are about two neighbouring entries: one under way and one behind it.
`access` needs two slugs so that an id can come back under another slug, two
requests so that one runs inside the other, and one session so that a second
sign-in prunes. With its one stream a leaked slot is met at once; that several
streams never hold more than the limit is in the theorem on `SlotsAreHeld` only. `door` needs one attempt that fills a bucket, one in the same
bucket behind it, one that overlaps both, and one refused; a bucket, a wait and an
invitation each end within its four ticks. In `session` one tab signs out or
in while the other checks, opens or closes; what crosses is always one sign-out
and one sign-in, and one thing that goes wrong. `reminders` has two ops so
that one is composed before the other runs; the clock reaches one lifetime, so
device, grant and token expire, and then an installation can be replaced. Its
modes are one with fixed rules and `custom`, the only ones that differ in how
they are stored. What the bounds leave open is proved (section 5) for the
properties listed there.

**Bounds in the guards**: `MaxSeq` (writes stop), `MaxRuns` (an op is not
forgotten again), `MaxHeld`, `MaxForeign`, `MaxFaults`, `MaxVersion`, `MaxSignIns`,
`MaxSignOuts`, `MaxOpens`, `MaxTime` and `MaxNow` (the clock stops), `MaxTokens`,
`MaxDevices`. Limits of the code are constants too: `MaxItems`, `MaxLists`,
`MaxTags`, `MaxSessions`, `MaxSubscriptions`, `RoomLimit`, `AllRoomsLimit`,
`AdminLimit`, `MaxBuckets`, `MaxRooms`.

**Symmetry** is used for uids, names, values, op_ids, zones, requests, slugs and
tabs where they are interchangeable, in runs without liveness. `MCOfflineQueue`
keeps the one row (`TheItem`) fixed. Items are not interchangeable in
`ops_share`, where one op writes several of them in an order of its choice.

**Deadlock** is checked in `feed`, `restore`, `ops`, `ops_share` and `reminders`.
The other instances stop when their ops, requests, openings and faults are used
up: `CHECK_DEADLOCK FALSE` there.

## 4. Properties and fairness

| Property | Says |
|---|---|
| `CurrentCopyIsRoom` | a page at the room's seq shows exactly its rows |
| `ShareSeqFollowsList` | a list's share seq rises exactly when its share view changes |
| `KeepsCatchingUp` | once writes pause, the page shows the room and keeps showing it |
| `TablesOK` | unique names, limits, foreign keys, no uid used again |
| `RetriesChangeNothing` | a retry neither applies twice nor gets another answer, unless the user approved it after 30 days |
| `TagsOK` | colors belong to tags the list has, the limit holds, no item has a tag twice |
| `SingleModeKept` | a list of single tags has no item with more, but for an item that is restored |
| `NeverOverwritesUnseen` | a set op with a base changes only the row it was made from |
| `SeqTellsEveryChange` | the room's seq moves exactly when what pages show changes, and each changed row gets its own |
| `ShareStaysInList` | an op through a share link touches its list's items, tags and settings only |
| `CountedOnce` | data that contains a delta does not have it projected on top |
| `AnsweredStaysShown` | an applied change stays visible from answer to feed |
| `ShownIsWaiting` | no projection outlives its op |
| `OpIdMeansOneBody` | a resend is never answered with `op_id_reused` |
| `KeepsPromise` | the stored queue implements `Outbox` |
| `TokenProvesPassword` | a token opens only its room, under the password its user proved or set |
| `PasswordGuardsRoom` | a room's row changes only by an admin or by a request that is allowed in that very step |
| `SessionsEndForAReason` | a session ends by its own sign-out, a new password, the room's end, or enough newer tokens |
| `SlotsAreHeld` | every slot belongs to one open connection |
| `AsleepIsCurrent` | a stream asleep with no signal has sent the room's seq |
| `RevokedEnds` | a stream whose access is gone ends |
| `SlotsAreAttempts` | of the last minute, a bucket holds one stamp for each attempt that failed or is being checked, and nothing else |
| `RetryAfterSuffices` | who waits as long as told is refused again only for attempts that came later |
| `InvitationHolds` | an invitation makes at most its rooms, and none once it expired or was revoked |
| `SignedOutForGood` | a signed-out browser has no copy, and no working cookie once the server has the sign-out |
| `SignInIsKept` | no late sign-out and no other request ends a sign-in that went through, or takes its cookie |
| `SignOutReachesTabs` | a tab that shows the room after a sign-out has a hint on its way |
| `NeverStranded` | a page that may not write is signed out, or about to be checked |
| `ActiveGrantIsBacked` | a grant stored as active has the room's present password and a token nobody signed out |
| `PresetIsWhatRuns` | mode and rules, stored apart, never disagree |
| `ResumeStartsAnew` | only an enrollment with access makes a grant active, and it then counts from now |
| `NothingUnseenReplaced` | an op changes only settings its author had seen as they were |
| `CutoffMovesToNow` | the instant before which reminders stay off only moves to now |

`CountedOnce` and `ShownIsWaiting` are stated up to the first sign-out: one
that comes while an answer is open leaves the projection of the op behind (a
hazard in the list). Both hold in one tab only: with two tabs TLC finds a
counterexample to each (section 6).
`SingleModeKept` does not hold of `item.restore`, which puts back the tags the
item had. `NeverStranded` leaves out two pages: one that shows the password
form, and one whose check had its feed dropped for a write of its own; the
held refresh then shows the room, but the page stays read-only until the next
event (`index.ts:820`, a hazard in the list). Without that exception TLC finds
the violation. `InvitationHolds` needs more than the table: the record may be
deleted, so the rooms made are counted by the requests that made them.
`NothingUnseenReplaced` is stated within one installation: when it expires and a
new one is made, revisions start at 1 again, and an op composed for the old one
may match.

**Fairness.** Safety runs assume none. `LiveSpec` assumes that the page keeps
asking (live updates and retries: `WF` of `Refresh`), that
an answer gets through again and again though it may be lost in between (`SF`
of `Answer` and `ApplyFeed`), that local steps are taken (`WF` of `IgnoreFeed`
and `SaveCopy`), and that the user does not clear and reload the page for ever
(`<>[][~Interrupt]`). `LiveUpdates!Spec` assumes `WF` of a stream's own steps:
the event loop runs it on, and its 15-second timer runs out. It assumes nothing
of users, writes or wakes.

## 5. What is proved

All for arbitrary finite sets of uids, op_ids, slugs, requests, streams and tabs,
and arbitrary limits.

**`ChangeFeedProofs`**, from `FiniteUids`, `BoundIsNat`, `StartsAreValues` and `RowsAreRows` (the
value for "no row" is not a row): `TypeCorrect`, `FeedInvariant`,
`CurrentCopyCorrect`, `ShareSeqIsExact`. `CurrentCopyIsRoom` alone is not inductive: a copy that
is behind says nothing of itself. The invariant is `TypeOK /\ FeedInv`, where
`CanCatchUp` says of a copy that each row it has wrong has a later seq, or a
later deletion record, or lies behind the prune. `FeedInv` also says it of the
copy the page will have after merging the answer that is on its way. The
proof reduces each server write to `WriteStep`, what a write means to any copy;
`CopySurvivesWrite` and `MergeCatchesUp` then do the rest.
`ShareSeqFollowsList` needs of the tables that every row, deletion record and
floor that names a list lies in the room's past (`TablesOK`, `FloorsOK`): then a
write that names a list by a new seq raises its share seq. The proof shows of each
write that it changes a list's view and names it by a later seq, or leaves all
that names it alone (`NamedOrNot`), and of pruning that the floor it leaves
is the greatest of the records it took (`PruneFollows`).

**`LiveUpdatesProofs`**, from `FiniteNames`, `SomeSession`, `VersionBound`,
`NoneIsNoRow` and `Capacity`: `TypeCorrect`, `LiveInvariant`,
`TokensProvePasswords`, `PasswordsGuardRooms`, `SessionsEndOnlyForAReason`,
`SlotsAreNotLost`, `NoWriteIsMissed`. `TokenProvesPassword` alone is not
inductive: it says nothing of a token not yet given. `AccessInv` adds that no
id and no insertion order has two rows, that tokens go with their room (so a
used id starts without tokens), that the row a request checked is the present
one or has an older version, and that an issued token stands for its request's
password. The invariant of the whole is `TypeOK`, `LiveInv`, `SlotsAreHeld` and
`AsleepIsCurrent`; one lemma per action keeps it. The limit on tokens after a
prune (`PruneBounds`) is a pigeonhole argument on their insertion order. The
two action properties follow from the invariant step by step
(`StepsGuardRooms`, `StepsEndSessions`).

**`RoomOpsProofs`**. `RetryInvariant` and `RepeatsChangeNothing`, with no
assumption on what the ops do, are an argument about two clocks. An op whose
request was answered either still has its stored answer, which is the one its
device heard, or is no longer fresh; `Forget` needs the second, and what is not
fresh is sent only once approved.

From `LimitsAreNats`, `NoneIsNone`, `UidsAndTags` (no uid is a list's and an
item's, and there are finitely many) and `NoneIsNoRow`: `TablesInvariant`,
`TypeCorrect`, `TablesFit`, `TagsFit`, `UnseenIsKept`, `SeqTells`, `ShareLinksStay`,
`OneTagIsKept`, the rest of what the two runs check. Each of the 17 handlers is
looked at once: `OutcomeIs` shows that an op changes nothing or does one of six
things (`OpChange`), and under which conditions (`ItemMayBe`, `ListMayBe`,
`RowsMayBe`, `RowsLeave`). The properties follow from the six. `RoomOK` is
`TablesOK` and `TagsOK` row by row, together with what they need to be inductive:
no row has a seq past the room's. `NeverOverwritesUnseen` speaks of what an
author saw long before, so `TablesInv` says of every op under way (`DraftOK`) that
its base is no later than the room's seq and that its row, while its seq is not past
the base, is the one that was seen. A write keeps this for all other ops because
a changed row takes a new seq (`RowIsNew`). Several items written by one op take
their seqs in the order of `SetToSeq`; `TurnIs` shows only that their turns differ.

**`FrontDoorProofs`**, from `FinitelyMany`, `Durations`, `NoneIsNoTime`,
`ClockTicks`, `BoundsAreNats`, `SlugsAreRooms` and `RoomForLiveBuckets`:
`DoorInvariant`, `InvitationsHold`, `LimiterInvariant`, `TypeCorrect`,
`SlotsCountAttempts`, `WaitingSuffices`. While an invitation's record
exists, its count is the number of rooms made, its expiry is that of the token
and its revocation is remembered (`RowTells`); a record is deleted only when
inactive, and a token never gets a second one.

For the limiter, `LimiterInv` says of every bucket and every live stamp that it
stands there as often as attempts with that time count in the bucket (`Matches`).
`reserve` adds one to both sides, and `release` takes one of both: the stamp it
removes may be another attempt's, but of the same time (`RemoveOne`). So each live
attempt can be given a place of its own in the bucket (`AttemptsFitIn`), and from
this follow two things. Every live room stamp is also one of all rooms, so at most
`ALL_ROOMS_LIMIT + 2` buckets are live and `_trim` drops none of them
(`FewAreLive`, `TrimIs`). And when the wait of a refusal is over, the first stamp
of each full bucket is out of the window, so fewer than the limit are left of the
attempts that were ahead (`WaitIsEnough`, `RefusalHolds`); no request joins them
later (`AnswerStays`).

**`RoomSessionProofs`**, from `SessionBounds`: `SessionInvariant`,
`SignedOutStaysSignedOut`, `SignOutReachesEveryTab`, `SignInStaysKept`,
`NobodyIsStranded`, `TypeCorrect`. The first two properties are inductive together with the shape of the state. Their proof uses nothing of the
lock: that no copy is stored and no page shown after a sign-out rests on the
look at the control record in the same step (`SaveKeeps`, `FeedKeeps`) alone.
`SignInStaysKept` is what the lock is for. `SignInIsKept` alone says nothing of a
sign-in that is about to end the old session; `KeptInv` adds that such a task is
at the head of the lock's queue and that the marker it found is still there
(`RevokesUnderLock`), and that a room with a marker has no kept sign-in
(`MarkedIsNotKept`). A page that closes leaves the queue: `PickedKeepsTheHead`
says that the holder stays the holder. `NeverStranded` needs no lock either, but
it is not inductive: a check that ends must leave the page with the right to
write, a timer or another check. `Tended` says of one page that unless it is
settled or in the last steps of a sign-in, it has a check under way which no
block has overtaken and which will still look at the session; each way a check
may end (`Leave`, `Go`, `SessionAnswer`) then settles the page. `TypeOK` counts
the places of a task in the line of the lock: `LineInv` says that the line
repeats nobody and holds exactly the tasks whose step is one under the lock
(`LineMoves`), also when a page closes and all its tasks leave (`CloseTypes`).

**`OfflineQueueProofs`**, from `OneRow`, `BoundsAreNats`, `FaultsAreKnown`,
`OpTypesAreKnown` and `NoneIsNoRecord`: `QueueInvariant`, `TypeCorrect`,
`ChangesAreKept`, `BodiesAreKept`, `AnsweredStays`, and of a device with one tab
(`OneTab`) `ShownWaits` and `DeltasCountOnce`. That the stored queue implements `Outbox` needs three facts
about steps: what is added is new, what runs is the oldest stored change (or was
given up), and what is removed is over (it ran, or was given up). None is a
property of one step of the code: a request travels on its own, and storage
calls wait in the chain of a tab while others change the stored entries. So
`QueueInv` says them of everything on its way: of each request (`Requests`), of
each call that waits (`CallOK`, `AddsAreNew`, `AddsDiffer`), and of each tab,
whose entry under way is over or in front before it is marked and sent
(`EntriesOK`). `OneTabStep` is what a step of one tab must show; each action then
meets it. The lock is not needed for this: `Outbox` holds also of two tabs that
send at once, because the server runs an op once and the tabs agree on the
oldest entry.

The lock is needed for `BodiesAreKept`, which says `OpIdMeansOneBody` of every
set of faults without `"pause"` and `"signOut"`, the kinds `queue_tabs` checks
(section 6 shows why it is false with a pause). `BodyInv` compares what the server was told
(`Told`: requests on their way and ops that ran) with the stored entries: an
entry whose op was told has the same body and is marked as sent. A rewrite that
waits in a chain must therefore be of an op that was never told (`RewritesOK`).
It stays so because the tab that waits for the rewrite still holds the lock and
reads storage behind it before it sends again. Without a pause a sending tab
always does that (`BodyRound`); a 401 pauses it too, but without an answer, so
there is nothing to rewrite. `SentKnown` is why a rewrite
never chooses an op that was told: a tab that sends knows which of its entries
were sent.

What a page shows of a change rests on three more invariants, each proved from
`QueueInv` and the ones before it. `DataInv` is about data: each copy of the room
(saved, shown, or on its way as a feed) has every change written up to its seq
and none answered after it, so data that reaches the seq of an answer has the
change. `PageInv` is about one page: what the page heard was applied is shown by
the data or by a projection, and if the op is still stored, its removal waits in
the tab's chain. The difficulty is a read of storage, which rebuilds
`mem` from the entries: it must not bring back an op whose answer came in
between. `ReadsInOrder` says that no call that adds or removes an entry waits
behind a read that counts, because whatever queues such a call makes the reads
before it repeat. `AnsweredStays` follows for any number of tabs and with
sign-outs.

`WaitInv` is about one tab until its first sign-out: an entry the server may have
heard of (`AskedIds`) is marked as sent in storage (`setSent` comes before the
request), so a read shows it as uncertain and its delta does not count. A
projection that counts is of an op the server has not heard of, or whose answer
is open, or whose answer the data has not reached; while an answer is open the
page ignores feeds, so the data cannot get ahead of it (`CountsOK`). What is shown as not
answered is in `mem`, and in storage or on its way there (`WaitsOK`). With two tabs
both fail in the tab that does not send: it goes on projecting a change that the
other one sent, also after a read finds the entry gone. `OneTab` is a hypothesis of the two theorems and not
an assumption of the model.

**`SequenceFilterProofs`**: what `Picked` returns, in which order, how often an
element is left, and when it keeps the first element; also how appending an
element and `RemoveFirst` change how often each stands in a sequence, the
elements of extended and joined sequences, and the ids of records in them.
`Picked` is `Array.prototype.filter` by its places; `SelectSeq` is recursive, and
a theorem about it would need induction over a sequence.

**`RemindersProofs`**, from `KnownPresets`, `LifetimeIsPositive`, `Bounds`,
`NoneIsNoRow` and `BodiesAreTyped`: `RemindersInvariant`, `RowsKeepTheirShape`,
`GrantsAreBacked`, `PresetsRun`, `GrantsStartAnew`, `ChangesAreSeen`,
`CutoffsMoveToNow`. The three invariants are inductive together;
`PresetIsWhatRuns` is restated on the rows (`PresetInRows`), since the writes change
rows and the property speaks of what the page is told. The three action
properties rest on one description of a settings write, `SettingsMove`, which every
handler of a known installation meets (`ResumeMoves`, `PatchPreferencesMoves`,
`PatchDeviceMoves`, `PutPolicyMoves`). `NothingUnseenReplaced` relates an op to what a
page showed long before; its invariant is `DraftsOK`: the revisions a page showed
are no newer than the rows', and where one is equal, so is all that it counts.
The enrollment's revision counts the room's policy as well, and the room
policy's counts mode and time: that is why either may guard them.
`CutoffMovesToNow` needs that no date is ahead of the clock (`DatesOK`); a saved
policy either is in the chain, and then its date is now, or was not in it before
(`SavedCutoffs`).

**Only model-checked**: both liveness properties. Every invariant and action
property of a passing run is stated by a theorem. Liveness and ENABLED are out of
the proof system's reach here, and so is what a recursive definition returns for
every input.

## 6. Where code and documents disagree

Each of these is a run that TLC ends with a counterexample.

* `restore`: `docs/background/svelte-frontend-rewrite.md:100` says a restored
  database must not leave clients with phantom data. The code serves a full
  feed only while the client is ahead of the room (`api/changes.py:41`). When
  the restored room has counted past the client's seq, it gets a delta and
  keeps rows the room never had.
* `queue_r2`: `offline-editing-details.md:16` says a set op is refused if the row
  changed since its base. An op without a base (a delta) that ran on top of
  another device's write moves the base of the ops behind it past that write
  (`rebase.ts:130`); a queued tick then overwrites what its author never saw.
* `queue_phantom`: `overlay.ts:4` says a change settles when the server answers.
  A change queued in one tab and sent by another never settles in the first;
  once its feed has the change, the quantity is counted twice.

Seen while modelling, with no run of their own:

* `rebase.ts:134`: after a lost answer the page may know an op's new seq from the
  feed first; no queued op matches it, and the user's own next edit is refused,
  though `offline-editing-details.md:17` says queued ops move to the new seq.
* `index.ts:665` says the room stays shown until the sign-out marker is stored,
  because a quick reload would otherwise find no marker and a cookie that still
  works. While `holdForSignOut` runs, before the marker, a feed that arrives
  clears the page all the same (`room-store.svelte.ts:387`): `Feed` of
  `RoomSession` with the user's task at "hold".
* `index.ts:820`: a check whose feed is dropped is not tried again (section 4).
* `room-signin.ts:126`: a sign-in clears the marker of a newer sign-out of another
  tab if it comes between its first look and the clear.
* `Grant` of `RoomSession`: a check that passed its last look allows writes even if
  the user signed out while the look was answered; the queue then runs until
  the marker is stored.
* `rebase.ts:5` says an op that was sent keeps its body. If a tab is paused, or
  signed out, while an answer is open, its send loop ends after the answer and
  the lock is free, with the rewrite of the next op still waiting in the tab's
  chain (`write-queue.ts:472`). Another tab takes the lock, reads and sends the
  old body, and the rewrite then replaces it in storage; if that answer is lost,
  the resend is refused with `op_id_reused`. TLC finds it in `queue_tabs` once
  `"pause"` is among the faults. `OpIdMeansOneBody` is therefore checked, and proved, with
  five of the seven kinds of fault.
* `docs/api-lists-items.md:33` says an item has one tag at most in a list of single
  tags; `item.restore` may bring several.

## 7. What is not modelled

* `OpHandlers`: field validation; due schedules; which color a tag has.
* `OfflineQueue`: what held ops become after the user's own sign-out, a 401 for a
  view that is gone, the remap of a queued add to an existing row (R6),
  unreadable entries, a storage that fails, an incompatible server version,
  browsers without Web Locks. All ops are about one item.
* `RoomSession`: browsers without IndexedDB or Web Locks and sign-ins without
  storage; a marker that takes more than 5 seconds; share links; a page that
  leaves a room and comes back to the same handle; a password change or a
  deletion from the page; refreshes by the stream and starting or stopping queue
  and stream, which are in `ChangeFeed`, `LiveUpdates` and `OfflineQueue`. A tab
  makes one access check at a time. Reads of IndexedDB by one tab are answered
  in the order they were asked for.
* `SignInLimiter`: the limiter is memory of the process; a restart forgets it.
* `FrontDoor`: room creation by the admin, which asks no invitation.
* `RoomAccess`: the reminder grants that end with tokens, which are in
  `Reminders`; requests with a wrong password, which change nothing there.
* `LiveUpdates`: share-link streams, which have the same code; the page's side
  (`events.ts`), whose effect `LiveSpec` assumes.
* `Reminders`: how rules are normalised, fixed rules, the preview, arithmetic over
  time zones; pause, quiet hours, caps and privacy of a device, which are
  further fields of `PatchDevice`; limits on the number of rooms and devices;
  several rooms; items, lists and rooms that are deleted. The old token that a
  second sign-in leaves behind is modelled; other browsers are steps of theirs
  that touch this one.
* Awaits that are one step here. `TakeFeed` looks at `#sending` and applies the
  feed after `beforeApply` in one step (`room-store.svelte.ts:381-393`): a
  write that goes out between the two does not stop the feed in the code, and
  does so in the model; clears and other feeds stop it in both. `Save` is the look
  at the identity, the save transaction and the last look (`index.ts:821-889`);
  the look at the control record is inside that transaction. `SignInClear` is
  the clearing transaction and the read of the generation after it.
* Migrations run in one transaction each, before the first request. The version
  check, the service worker, the web server and the user interface keep no room
  data of their own.

## 8. Plan

1. The page's side of live updates (`events.ts`), composed with `LiveUpdates`,
   so that `LiveSpec`'s assumption on `Refresh` is derived.
2. `RoomSession` with the queue: sign-outs that hold ops, and a late answer in a
   new view (the hazard at `room-store.svelte.ts:714`).
3. `Reminders` further: rule normalisation and fixed rules; due times across a
   clock change; what the preview promises of the times it shows.
